------------------------------ MODULE ResourceKit ------------------------------
(***************************************************************************)
(* The shared resource engine (internal/resourcekit/resource.go): Create,  *)
(* Read, Update, Delete and ImportState of ONE managed resource, against a *)
(* controller whose objects an administrator edits and deletes on its own. *)
(*                                                                         *)
(* Every remote call is a step of its own, so that an edit, a lost answer  *)
(* or a killed process can fall between any two of them.  A value is a     *)
(* member of Values, Null (absent) or Unknown (known after apply).  An     *)
(* attribute and the wire it is written to share a name.                   *)
(***************************************************************************)
EXTENDS Naturals

CONSTANTS
  Field,        \* attributes a Field of the Spec maps
  ReadOnly,     \* the Fields wrapped in ReadOnly(...)
  NullZero,     \* the Fields (and hook reads) that read a zero as an absence
  Hook,         \* attributes no Field claims; BeforeSend writes their wire, AlwaysWire masks it
  HookOwned,    \* Spec.HookOwned: the hooks write and reconcile these
  Computed,     \* Optional+Computed attributes of the schema
  Slots,        \* wires the encoder does not emit while they are empty (UnwritableWires)
  Discards,     \* wires whose written value the controller accepts and drops
  NameAttr,     \* the attribute Spec.Name reaches
  Values, Zero, Null, Unknown,
  Ids,          \* controller object ids
  NoId,         \* an empty id attribute or identity
  NoState,      \* the resource is not in the Terraform state
  Absent,       \* no object under this id
  NoEdit,
  Preexisting,  \* objects the controller holds before Terraform starts
  MaskedCreate, \* TRUE: Backend.CreateFields (adopts an object); FALSE: Backend.Create
  MaxEdits      \* bound on the administrator's edits and deletions

Attrs == Field \cup Hook \cup HookOwned

ASSUME KitAssumption ==
  /\ Field \cap Hook = {} /\ Field \cap HookOwned = {} /\ Hook \cap HookOwned = {}
  /\ ReadOnly \subseteq Field \cap Computed
  /\ NullZero \subseteq Attrs /\ Computed \subseteq Attrs
  /\ Slots \subseteq Attrs /\ Discards \subseteq Attrs
  /\ NameAttr \in Field \ ReadOnly
  /\ Zero \in Values /\ Null \notin Values /\ Unknown \notin Values /\ Null # Unknown
  /\ NoEdit \notin Values
  /\ NoId \notin Ids /\ NoState \notin Ids /\ NoId # NoState
  /\ Preexisting \subseteq Ids
  /\ Absent \notin [Attrs -> Values]
  /\ MaskedCreate \in BOOLEAN /\ (HookOwned # {} => MaskedCreate)
  /\ MaxEdits \in Nat

VARIABLES
  objects,   \* the controller: id -> wire values, or Absent
  used,      \* ids the controller has ever assigned
  sid,       \* the id attribute in state (NoId while a name import is unresolved), or NoState
  sval,      \* the other attributes in state
  ident,     \* the resource identity stored beside the state
  pc,        \* where the RPC in flight stands
  cfg,       \* req.Config
  plan,      \* req.Plan
  work,      \* the model the RPC is building (data / state, with the plan applied)
  target,    \* the object the RPC addresses
  resp,      \* the controller's answer, before it reaches the state
  importing, \* the read in flight is the one that completes an import
  outcome,   \* what the last finished RPC reported
  edits, edited, quiet, owned, leaked, released, unsaid \* history, for the properties

remote  == <<objects, used>>
tfstate == <<sid, sval, ident>>
flight  == <<cfg, plan, work, target, resp, importing>>
history == <<edits, edited, quiet, owned, leaked, released, unsaid>>
vars    == <<remote, tfstate, pc, flight, outcome, history>>

Blank   == [a \in Attrs |-> Zero]
NoVals  == [a \in Attrs |-> Null]
NoEdits == [a \in Attrs |-> NoEdit]
Phases  == {"idle", "imported", "readDone", "createHook", "createSend", "createSent",
            "updateHook", "updateSend", "updateSent", "delete"}

TypeOK ==
  /\ objects \in [Ids -> [Attrs -> Values] \cup {Absent}]
  /\ used \in SUBSET Ids
  /\ sid \in Ids \cup {NoId, NoState}
  /\ sval \in [Attrs -> Values \cup {Null}]      \* no Unknown ever reaches the state
  /\ ident \in Ids \cup {NoId}
  /\ pc \in Phases
  /\ cfg \in [Attrs -> Values \cup {Null}]
  /\ plan \in [Attrs -> Values \cup {Null, Unknown}]
  /\ work \in [Attrs -> Values \cup {Null, Unknown}]
  /\ target \in Ids \cup {NoId}
  /\ resp \in [Attrs -> Values]
  /\ importing \in BOOLEAN
  /\ outcome \in {"none", "ok", "error"}
  /\ edits \in 0..MaxEdits
  /\ edited \in [Attrs -> Values \cup {NoEdit}]
  /\ quiet \in BOOLEAN
  /\ owned \in SUBSET Ids /\ leaked \in SUBSET Ids /\ released \in SUBSET Ids
  /\ unsaid \in SUBSET Attrs

-----------------------------------------------------------------------------
(* The Spec's pure functions.                                               *)

\* Field.SetInPlan: null and unknown both mean absent; a ReadOnly field is never set.
SetInPlan(p, a) == a \notin ReadOnly /\ p[a] \in Values

\* Mutants of MaskFields: one names every field, one takes a zero for an absence.
MaskEverything(p) == Field \cup Hook
MaskNonZero(p)    == {a \in Field : SetInPlan(p, a) /\ p[a] # Zero} \cup Hook

\* Spec.maskFields: the wires of the Fields the plan set, and every AlwaysWire.
MaskFields(p) == {a \in Field : SetInPlan(p, a)} \cup Hook

\* Spec.ToSDK over a fresh struct: what the model does not carry stays at its Go zero.
ToSDK(m) == [a \in Attrs |-> IF a \in Field /\ SetInPlan(m, a) THEN m[a] ELSE Zero]

\* BeforeSend: the wires of the attributes no Field claims, derived from the effective model.
BeforeSend(effective, sdk) ==
  [a \in Attrs |-> IF a \in Hook /\ effective[a] \in Values THEN effective[a] ELSE sdk[a]]

\* A wire value as the model holds it: NullZero reads a zero as an absence.
Decode(a, v) == IF v = Zero /\ a \in NullZero THEN Null ELSE v

\* Mutant of ToModel: the answer fills only what the model lacks.
ToModelFill(sdk, m) ==
  [a \in Attrs |-> IF a \in Field /\ m[a] \notin Values THEN Decode(a, sdk[a]) ELSE m[a]]

\* Spec.ToModel: every Field takes the answer; what no Field claims is left alone.
ToModel(sdk, m) == [a \in Attrs |-> IF a \in Field THEN Decode(a, sdk[a]) ELSE m[a]]

\* Mutant of AfterReceive: an absent hook-owned attribute keeps the model's value, typed or not.
AfterReceiveUntyped(sdk, m) ==
  [a \in Attrs |->
     IF a \in Field \/ (a \in HookOwned /\ m[a] \notin Values) THEN m[a] ELSE Decode(a, sdk[a])]

\* AfterReceive: decodes the unclaimed attributes, and reconciles the hook-owned ones --
\* only where the model already carries them, an absent one stays (typed) null.
AfterReceive(sdk, m) ==
  [a \in Attrs |->
     IF a \in Field THEN m[a]
     ELSE IF a \in HookOwned /\ m[a] \notin Values THEN Null
     ELSE Decode(a, sdk[a])]

\* Mutants of ApplyPlanToState: uncovered values are forgotten; or an unknown one is copied.
ApplyOwnOnly(p, m)  == [a \in Attrs |-> IF a \in Field /\ SetInPlan(p, a) THEN p[a] ELSE m[a]]
ApplyUnknown(p, m)  == [a \in Attrs |-> IF a \notin HookOwned \cup ReadOnly /\ p[a] # Null
                                        THEN p[a] ELSE m[a]]

\* Spec.ApplyPlanToState: applyOwnFieldsToState, then copyUncoveredPlanValues, which skips
\* the hook-owned attributes.
ApplyPlanToState(p, m) ==
  [a \in Attrs |->
     IF \/ a \in Field /\ SetInPlan(p, a)
        \/ a \in Hook /\ p[a] \in Values
     THEN p[a] ELSE m[a]]

\* Spec.UnwritableWires: the empty slots, which the encoder will not emit.
UnwritableWires(sdk) == {a \in Slots : sdk[a] = Zero}

\* The object an apply sends, and the mask it sends it under.
Sent(m)          == BeforeSend(m, ToSDK(m))
UpdateMask(p, m) == MaskFields(p) \ UnwritableWires(Sent(m))

\* UpdateFields on the controller: named wires are replaced, the others kept.
Store(old, sdk, mask) == [a \in Attrs |-> IF a \in mask \ Discards THEN sdk[a] ELSE old[a]]

\* The explicit zeros of a plan.
Zeros(p) == {a \in (Field \ ReadOnly) \cup Hook : p[a] = Zero}

\* The model after the answer: ToModel, the hook, then the plan over the response.
Recorded(p, m, sdk) == ApplyPlanToState(p, AfterReceive(sdk, ToModel(sdk, m)))

-----------------------------------------------------------------------------
(* Terraform core and the practitioner (external).                          *)

Configs == {c \in [Attrs -> Values \cup {Null}] : \A a \in ReadOnly : c[a] = Null}

\* A configured attribute plans its value; a Computed one plans what the state holds
\* (UseStateForUnknown) or Unknown; any other plans null.
Plans(c, known) ==
  {p \in [Attrs -> Values \cup {Null, Unknown}] :
     \A a \in Attrs :
       IF c[a] \in Values THEN p[a] = c[a]
       ELSE IF a \in Computed THEN p[a] = Unknown \/ (known /\ p[a] = sval[a])
       ELSE p[a] = Null}

Init ==
  /\ objects = [i \in Ids |-> IF i \in Preexisting THEN Blank ELSE Absent]
  /\ used = Preexisting
  /\ sid = NoState /\ sval = NoVals /\ ident = NoId
  /\ pc = "idle" /\ outcome = "none"
  /\ cfg = NoVals /\ plan = NoVals /\ work = NoVals
  /\ target = NoId /\ resp = Blank /\ importing = FALSE
  /\ edits = 0 /\ edited = NoEdits /\ quiet = TRUE
  /\ owned = {} /\ leaked = {} /\ released = {} /\ unsaid = {}

\* An RPC returns: nothing of it stays behind but what it left in state and controller.
Return(o) ==
  /\ pc' = "idle" /\ outcome' = o
  /\ cfg' = NoVals /\ plan' = NoVals /\ work' = NoVals
  /\ target' = NoId /\ resp' = Blank /\ importing' = FALSE

\* The resource enters the state under id i, or leaves it.
Track(i, vals) ==
  /\ sid' = i /\ sval' = vals
  /\ owned' = owned \cup {i} /\ leaked' = leaked \ {i} /\ released' = released \ {i}
Untrack ==
  /\ sid' = NoState /\ sval' = NoVals /\ ident' = NoId /\ edited' = NoEdits

-----------------------------------------------------------------------------
(* Create.                                                                  *)

\* Create up to the hooks: the plan is the model the object is built from.
BeginCreate(c, p) ==
  /\ pc = "idle" /\ sid = NoState
  /\ pc' = "createHook" /\ cfg' = c /\ plan' = p /\ work' = p
  /\ UNCHANGED <<remote, tfstate, target, resp, importing, outcome, history>>

\* Prefetch and BeforeSend of a create.  A masked create finds the object it adopts and
\* writes the hook-owned wires the configuration declares, ahead of the object itself.
CreateHook ==
  /\ pc = "createHook"
  /\ pc' = "createSend"
  /\ IF MaskedCreate
     THEN \E i \in {j \in Ids : objects[j] # Absent} :
            /\ target' = i
            /\ objects' = [objects EXCEPT ![i] =
                 Store(@, cfg, {a \in HookOwned : cfg[a] \in Values})]
     ELSE UNCHANGED <<objects, target>>
  /\ UNCHANGED <<used, tfstate, cfg, plan, work, resp, importing, outcome, history>>

\* createObject through Backend.Create: a whole new object.  A wire left at its zero, or one
\* the controller does not store, takes the controller's default d.
CreatePost(i, d) ==
  /\ pc = "createSend" /\ ~MaskedCreate /\ i \notin used
  /\ LET made == [a \in Attrs |-> IF Sent(work)[a] = Zero \/ a \in Discards THEN d
                                 ELSE Sent(work)[a]]
     IN  objects' = [objects EXCEPT ![i] = made] /\ resp' = made
  /\ used' = used \cup {i}
  /\ pc' = "createSent" /\ target' = i
  /\ owned' = owned \cup {i} /\ quiet' = TRUE /\ unsaid' = Zeros(plan)
  /\ UNCHANGED <<tfstate, cfg, plan, work, importing, outcome, edits, edited, leaked, released>>

\* createObject through Backend.CreateFields: the plan's wires over an existing object.
CreatePatch ==
  /\ pc = "createSend" /\ MaskedCreate /\ objects[target] # Absent
  /\ MaskFields(plan) # {}
  /\ objects' = [objects EXCEPT ![target] = Store(@, Sent(work), MaskFields(plan))]
  /\ resp' = objects'[target]
  /\ pc' = "createSent"
  /\ owned' = owned \cup {target} /\ quiet' = TRUE /\ unsaid' = {}
  /\ UNCHANGED <<used, tfstate, cfg, plan, work, target, importing, outcome,
                 edits, edited, leaked, released>>

\* The tail of Create: the answer, the hook, the plan over both; then identity and state.
FinishCreate ==
  /\ pc = "createSent"
  /\ Track(target, Recorded(plan, work, resp))
  /\ ident' = target
  /\ Return("ok")
  /\ UNCHANGED <<remote, edits, edited, quiet, unsaid>>

\* ToModel or AfterReceive reports an error: Create returns without State.Set, and the
\* object it has just created is in no state.
CreateTailFails ==
  /\ pc = "createSent"
  /\ leaked' = leaked \cup {target}
  /\ Return("error")
  /\ UNCHANGED <<remote, tfstate, edits, edited, quiet, owned, released, unsaid>>

-----------------------------------------------------------------------------
(* Read and ImportState.                                                    *)

\* ImportState of an id: the id and the identity are set, the read that follows fills the rest.
ImportById(i) ==
  /\ pc = "idle" /\ sid = NoState
  /\ sid' = i /\ ident' = i /\ sval' = NoVals
  /\ pc' = "imported" /\ importing' = TRUE
  /\ UNCHANGED <<remote, cfg, plan, work, target, resp, outcome, history>>

\* ImportState of a name: only the name attribute is set, and no identity.
ImportByName(n) ==
  /\ pc = "idle" /\ sid = NoState
  /\ sid' = NoId /\ ident' = NoId /\ sval' = [NoVals EXCEPT ![NameAttr] = n]
  /\ pc' = "imported" /\ importing' = TRUE
  /\ UNCHANGED <<remote, cfg, plan, work, target, resp, outcome, history>>

\* Mutant of Found: the name is tried whenever the schema has one.
FoundByName == {i \in Ids : objects[i] # Absent /\ objects[i][NameAttr] = sval[NameAttr]}

\* The objects Read may answer with: by id, or by name when the state holds no id.
Found ==
  IF sid = NoId THEN {i \in Ids : objects[i] # Absent /\ objects[i][NameAttr] = sval[NameAttr]}
  ELSE {i \in Ids : i = sid /\ objects[i] # Absent}

\* Backend.Read or ReadByName answers.
ReadObject(i) ==
  /\ \/ pc = "idle" /\ sid # NoState
     \/ pc = "imported"
  /\ i \in Found
  /\ pc' = "readDone" /\ target' = i /\ resp' = objects[i] /\ quiet' = TRUE /\ unsaid' = {}
  /\ UNCHANGED <<remote, tfstate, cfg, plan, work, importing, outcome,
                 edits, edited, owned, leaked, released>>

\* Read by id of an object the controller no longer has: removed from state, so that the
\* next plan creates it.  By name it is an error, and the import is discarded.
ReadNotFound ==
  /\ \/ pc = "idle" /\ sid # NoState
     \/ pc = "imported"
  /\ Found = {}
  /\ Untrack
  /\ Return(IF sid = NoId THEN "error" ELSE "ok")
  /\ UNCHANGED <<remote, edits, quiet, owned, leaked, released, unsaid>>

\* Mutant of ReadFails: any error is taken for a deletion.
ReadFailsForgets ==
  /\ pc = "idle" /\ sid # NoState
  /\ Untrack /\ Return("error")
  /\ UNCHANGED <<remote, edits, quiet, owned, leaked, released, unsaid>>

\* Any other read error leaves the state alone: core discards what a failing read answered,
\* and with the read that completes an import the import.
ReadFails ==
  /\ \/ pc = "idle" /\ sid # NoState
     \/ pc \in {"imported", "readDone"}
  /\ IF importing THEN Untrack ELSE UNCHANGED <<tfstate, edited>>
  /\ Return("error")
  /\ UNCHANGED <<remote, edits, quiet, owned, leaked, released, unsaid>>

\* The tail of Read: the answer and the hook over the state, no plan.  The identity is
\* written only when none is stored.
FinishRead ==
  /\ pc = "readDone"
  /\ Track(target, AfterReceive(resp, ToModel(resp, sval)))
  /\ ident' = IF ident = NoId THEN target ELSE ident
  /\ Return("ok")
  /\ UNCHANGED <<remote, edits, edited, quiet, unsaid>>

-----------------------------------------------------------------------------
(* Update.                                                                  *)

\* Update up to the hooks: the state with the plan applied is the model the object is built
\* from.  An empty mask and an empty id are refused before anything is sent.
BeginUpdate(c, p) ==
  /\ pc = "idle" /\ sid \in Ids
  /\ p # sval                                   \* core calls Update only on a diff
  /\ MaskFields(p) # {}
  /\ pc' = "updateHook" /\ cfg' = c /\ plan' = p /\ target' = sid
  /\ work' = ApplyPlanToState(p, sval)
  /\ UNCHANGED <<remote, tfstate, resp, importing, outcome, history>>

\* BeforeSend of an update: the hook-owned wires the configuration declares are written by
\* calls of their own, before the masked write.
UpdateHook ==
  LET declared == {a \in HookOwned : cfg[a] \in Values}
  IN  /\ pc = "updateHook"
      /\ declared # {} => objects[target] # Absent
      /\ pc' = "updateSend"
      /\ objects' = IF declared = {} THEN objects
                    ELSE [objects EXCEPT ![target] = Store(@, cfg, declared)]
      /\ edited' = [a \in Attrs |-> IF a \in declared THEN NoEdit ELSE edited[a]]
      /\ UNCHANGED <<used, tfstate, cfg, plan, work, target, resp, importing, outcome,
                     edits, quiet, owned, leaked, released, unsaid>>

\* The edits an update writes over: those of what the configuration sets, and of what it puts
\* back from a state that has not read the edit (a Computed attribute planned from state, a
\* wire a hook derives from the model).
Claimed ==
  {a \in (Field \ ReadOnly) \cup Hook :
     \/ cfg[a] \in Values
     \/ (a \in Hook \/ plan[a] \in Values) /\ sval[a] # Decode(a, edited[a])}

\* UpdateFields under the mask the plan and the encoder leave.
UpdateSend ==
  /\ pc = "updateSend" /\ objects[target] # Absent
  /\ UpdateMask(plan, work) # {}
  /\ objects' = [objects EXCEPT ![target] = Store(@, Sent(work), UpdateMask(plan, work))]
  /\ resp' = objects'[target]
  /\ pc' = "updateSent" /\ quiet' = TRUE /\ unsaid' = Zeros(plan) \cap Slots
  /\ edited' = [a \in Attrs |-> IF a \in Claimed THEN NoEdit ELSE edited[a]]
  /\ UNCHANGED <<used, tfstate, cfg, plan, work, target, importing, outcome,
                 edits, owned, leaked, released>>

\* The tail of Update.  The state is set whether the hook reports an error or not; a hook
\* that fails leaves what it owns as the model had it.
FinishUpdate(hookFails) ==
  /\ pc = "updateSent"
  /\ LET model == ToModel(resp, work)
         heard == IF hookFails THEN model ELSE AfterReceive(resp, model)
     IN  Track(target, ApplyPlanToState(plan, heard))
  /\ ident' = target
  /\ Return(IF hookFails THEN "error" ELSE "ok")
  /\ UNCHANGED <<remote, edits, edited, quiet, unsaid>>

-----------------------------------------------------------------------------
(* Delete, and whatever ends an RPC early.                                  *)

\* BeforeDelete refuses: the state lets go, the object stays.
Release ==
  /\ pc = "idle" /\ sid \in Ids
  /\ released' = released \cup {sid}
  /\ Untrack /\ Return("ok")
  /\ UNCHANGED <<remote, edits, quiet, owned, leaked, unsaid>>

\* BeforeDelete lets the delete proceed.
BeginDelete ==
  /\ pc = "idle" /\ sid \in Ids
  /\ pc' = "delete" /\ target' = sid
  /\ UNCHANGED <<remote, tfstate, cfg, plan, work, resp, importing, outcome, history>>

\* Backend.Delete succeeds, or answers NotFound, which is a success too.
DeleteSend ==
  /\ pc = "delete"
  /\ objects' = [objects EXCEPT ![target] = Absent]
  /\ Untrack /\ Return("ok")
  /\ UNCHANGED <<used, edits, quiet, owned, leaked, released, unsaid>>

\* Mutant of DeleteLost: an error of Backend.Delete releases the state like a success.
DeleteErrorForgets ==
  /\ pc = "delete"
  /\ Untrack /\ Return("error")
  /\ UNCHANGED <<remote, edits, quiet, owned, leaked, released, unsaid>>

\* The controller deletes the object but the answer is lost: the state keeps it.
DeleteLost ==
  /\ pc = "delete"
  /\ objects' = [objects EXCEPT ![target] = Absent]
  /\ Return("error")
  /\ UNCHANGED <<used, tfstate, edits, edited, quiet, owned, leaked, released, unsaid>>

\* An error return, a context that expires, a lost answer or a killed process: the state
\* stays as the RPC found it, and the controller as far as the RPC had come.
Abort ==
  /\ pc \in {"createHook", "createSend", "createSent",
             "updateHook", "updateSend", "updateSent", "delete"}
  /\ leaked' = IF pc = "createSent" THEN leaked \cup {target} ELSE leaked
  /\ Return("error")
  /\ UNCHANGED <<remote, tfstate, edits, edited, quiet, owned, released, unsaid>>

-----------------------------------------------------------------------------
(* The administrator (external).                                            *)

AdminEdit(i, a, v) ==
  /\ edits < MaxEdits /\ objects[i] # Absent /\ objects[i][a] # v
  /\ edits' = edits + 1 /\ quiet' = FALSE
  /\ objects' = [objects EXCEPT ![i] = [@ EXCEPT ![a] = v]]
  /\ edited' = IF i = sid THEN [edited EXCEPT ![a] = v] ELSE edited
  /\ UNCHANGED <<used, tfstate, pc, flight, outcome, owned, leaked, released, unsaid>>

AdminDelete(i) ==
  /\ edits < MaxEdits /\ objects[i] # Absent
  /\ edits' = edits + 1 /\ quiet' = FALSE
  /\ objects' = [objects EXCEPT ![i] = Absent]
  /\ edited' = IF i = sid THEN NoEdits ELSE edited
  /\ UNCHANGED <<used, tfstate, pc, flight, outcome, owned, leaked, released, unsaid>>

Next ==
  \/ \E c \in Configs : \E p \in Plans(c, FALSE) : BeginCreate(c, p)
  \/ CreateHook
  \/ \E i \in Ids, d \in Values : CreatePost(i, d)
  \/ CreatePatch \/ FinishCreate \/ CreateTailFails
  \/ \E i \in Ids : ImportById(i) \/ ReadObject(i) \/ AdminDelete(i)
  \/ \E n \in Values \ {Zero} : ImportByName(n)
  \/ ReadNotFound \/ ReadFails \/ FinishRead
  \/ \E c \in Configs : \E p \in Plans(c, TRUE) : BeginUpdate(c, p)
  \/ UpdateHook \/ UpdateSend
  \/ \E hookFails \in BOOLEAN : FinishUpdate(hookFails)
  \/ Release \/ BeginDelete \/ DeleteSend \/ DeleteLost \/ Abort
  \/ \E i \in Ids, a \in Attrs, v \in Values : AdminEdit(i, a, v)

Spec == Init /\ [][Next]_vars


-----------------------------------------------------------------------------
(* Properties.                                                              *)

\* An apply that reports success ends here.
Applied == pc \in {"createSent", "updateSent"} /\ pc' = "idle" /\ outcome' = "ok"

\* "Plan wins over response, for anything the plan set": an apply that reports success
\* records every value the plan holds, whatever the controller answered, so Terraform never
\* rejects it as an inconsistent result.  (resource.go, the tails of Create and Update.)
PlanWins ==
  [][Applied => \A a \in Attrs \ (HookOwned \cup ReadOnly) :
                  plan[a] \in Values => sval'[a] = plan[a]]_vars

\* What a masked apply reports as done is what the controller holds: every value the plan
\* sets, an explicit zero included, unless the encoder has no way to say it or the controller
\* drops it.  (maskFields and UnwritableWires against the encoder's omitempty.)
AppliedReachesController ==
  [][Applied /\ quiet /\ (MaskedCreate \/ pc = "updateSent") =>
       \A a \in (Field \ ReadOnly) \cup Hook :
         plan[a] \in Values /\ a \notin Discards /\ ~(a \in Slots /\ plan[a] = Zero)
           => objects[target][a] = plan[a]]_vars

\* Until somebody edits the object, the state a successful RPC leaves is what the next refresh
\* reads: no diff comes back on its own, over any sequence of applies, imports, failed
\* updates and refreshes.  Excepted are a written value the controller drops, a hook-owned
\* attribute nobody manages, an explicit zero the decoder reads as null, and an explicit zero
\* the write had no way to say: one a POST leaves to the controller's default (the next apply
\* says it) and an empty slot taken out of the mask (UnwritableWires: the diff returns for
\* ever).  A refresh ends the last three.
StateMirrorsController ==
  pc = "idle" /\ outcome = "ok" /\ quiet /\ sid \in Ids /\ objects[sid] # Absent =>
    \A a \in Attrs \ Discards :
      \/ sval[a] = Decode(a, objects[sid][a])
      \/ sval[a] = Null /\ a \in HookOwned
      \/ sval[a] = Zero /\ a \in NullZero /\ objects[sid][a] = Zero
      \/ sval[a] = Zero /\ a \in unsaid

\* An administrator's edit of an attribute the configuration leaves out survives every apply,
\* for as long as Terraform tracks the object: an edit a refresh has read survives whatever
\* the attribute is, one it has not read wherever the plan carries no value from state and no
\* hook rewrites the wire (Claimed).  (maskFields, UpdateFields, BeforeSend.)
AdminEditSurvives ==
  sid \in Ids /\ objects[sid] # Absent =>
    \A a \in Attrs : edited[a] # NoEdit => objects[sid][a] = edited[a]

\* An object Terraform wrote and the controller still holds is in the state, is one a create is
\* about to record, was let go on request, or was lost by a create that reported its failure:
\* no read error, lost answer or race with a deletion drops it in silence.
NoSilentOrphan ==
  \A i \in owned : objects[i] # Absent =>
    \/ sid = i \/ i \in leaked \/ i \in released
    \/ pc = "createSent" /\ target = i

\* The identity stored beside a resource always names the object its state describes: neither
\* a refresh nor an apply moves a tracked resource to another object.  (HasStoredIdentity,
\* Read's choice between Backend.Read and ReadByName.)
IdentityMatchesState == sid \in Ids => ident = sid

=============================================================================
