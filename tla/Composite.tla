------------------------------ MODULE Composite ------------------------------
(***************************************************************************)
(* unifi_setting: one resource over many controller documents              *)
(* (internal/resourcekit/composite.go, spec_section.go).                   *)
(*                                                                         *)
(* A section is one attribute of the resource.  It is written to a primary *)
(* document and perhaps an Extra one, each under a mask of its own.  An    *)
(* apply writes the configured sections' documents in order, stops at the  *)
(* first error, and records nothing until it has read every one back.      *)
(*                                                                         *)
(* One action is one call to the controller, so an administrator's edit or *)
(* an error can fall between any two.  What a section's Write leaves on    *)
(* the plan is overwritten by the read that follows, and is not modelled.  *)
(***************************************************************************)
EXTENDS Naturals, Sequences, SequencesExt, Subsequences

CONSTANTS
    Sections, Docs, Attrs,
    SectionOf, DocOf,   \* a document's section, an attribute's document
    Order,              \* the documents in write order
    Extra,              \* documents that are not their section's primary one
    OptionalOnly,       \* sections a configuration can drop; the others are Computed
    Kept,               \* attributes planned from state when left out (UseStateForUnknown)
    Conditioned,        \* attributes AfterReceive nulls where the prior model has none
    Restored,           \* of those, the ones never read back: ssh_password
    NullZero,           \* attributes that read a zero as null
    Carried,            \* documents written by fetch-then-patch: usg_geo
    ZeroIfAbsent,       \* Extras whose Backend.Read answers a zero document for none
    Gated,              \* documents an older controller does not expose
    InitiallyPresent,   \* documents the controller holds before the first apply
    Configs,            \* the configurations applied
    Values, Zero, Null, NoState,
    MaxEdits            \* bound on the administrator's edits

Sec(a) == SectionOf[DocOf[a]]

\* The resource: the sections that are not null, and their attributes.
Models == [claims : SUBSET Sections, set : [Attrs -> Values \cup {Null}]]
WellFormed(m) == \A a \in Attrs : m.set[a] # Null => Sec(a) \in m.claims

ASSUME CompositeAssumption ==
    /\ SectionOf \in [Docs -> Sections] /\ DocOf \in [Attrs -> Docs]
    /\ Order \in Seq(Docs) /\ ToSet(Order) = Docs
    /\ Extra \subseteq Docs /\ Carried \subseteq Docs
    /\ ZeroIfAbsent \subseteq Extra /\ Gated \subseteq Extra
    /\ Docs \ Extra \subseteq InitiallyPresent /\ InitiallyPresent \subseteq Docs
    /\ Gated \cap InitiallyPresent = {}
    /\ OptionalOnly \subseteq Sections
    /\ Kept \cup Conditioned \cup NullZero \subseteq Attrs /\ Restored \subseteq Conditioned
    /\ Zero \in Values /\ Null \notin Values /\ {Null, NoState} \cap Models = {}
    /\ \A c \in Configs : c \in Models /\ WellFormed(c)
    /\ MaxEdits \in Nat

VARIABLES
    exposed,     \* the documents this controller lets be written
    stored,      \* the controller: every attribute's wire
    present,     \* the documents it holds
    state,       \* the resource in state, or NoState
    phase,       \* "idle", "write", "put" (a fetched document goes back), "read"
    config,      \* the configuration of the apply in flight, Null in a refresh
    prior,       \* the plan of an apply, the state of a refresh
    todo,        \* documents still to be written, or read
    fetched,     \* what fetch-then-patch fetched
    model,       \* the attributes read so far
    edits, undisturbed, fresh, applied, outcome   \* history, for the properties

ctlVars == <<stored, present>>
rpcVars == <<phase, config, prior, todo, fetched, model>>
vars == <<exposed, stored, present, state, phase, config, prior, todo, fetched, model,
          edits, undisturbed, fresh, applied, outcome>>

Nothing == [claims |-> {}, set |-> [a \in Attrs |-> Null]]
Unread == [a \in Attrs |-> Null]
Blank == [a \in Attrs |-> Zero]

-----------------------------------------------------------------------------
(* What the code computes.                                                 *)

\* What the state holds of a section or attribute the configuration leaves out.
Known == IF state = NoState THEN Nothing ELSE state

\* The plan: a Computed section left out keeps what the state holds, whole; in
\* a configured section an attribute left out is unknown, unless it is Kept.
Planned(c) ==
    LET claims == c.claims \cup (Known.claims \ OptionalOnly)
    IN  [claims |-> claims,
         set |-> [a \in Attrs |->
            IF c.set[a] # Null THEN c.set[a]
            ELSE IF Sec(a) \in claims /\ (Sec(a) \notin c.claims \/ a \in Kept)
                 THEN Known.set[a] ELSE Null]]

\* Terraform calls Update only when the configuration disagrees with the state.
Differs(c) ==
    \/ c.claims \ Known.claims # {}
    \/ (Known.claims \cap OptionalOnly) \ c.claims # {}
    \/ \E a \in Attrs : Sec(a) \in c.claims /\ c.set[a] # Known.set[a]
                        /\ (c.set[a] # Null \/ a \in Restored)

\* Mutant of Mask: a zero is taken for an absence.
MaskNonZero(d) == {a \in Attrs : DocOf[a] = d /\ prior.set[a] \notin {Null, Zero}}

\* Spec.maskFields of one document: the attributes the plan set.
Mask(d) == {a \in Attrs : DocOf[a] = d /\ prior.set[a] # Null}

\* A document whose mask is empty is skipped, without an error.
WriteCalls(p) ==
    At(Order, {i \in DOMAIN Order : \E a \in Attrs : DocOf[a] = Order[i] /\ p.set[a] # Null})

\* Mutant of ReadCalls: import and refresh claim every section.
ReadEverything(p) == Order

\* Composite.read: an unconfigured section is set to null without a call.
ReadCalls(p) == At(Order, {i \in DOMAIN Order : SectionOf[Order[i]] \in p.claims})

Decode(a) == IF stored[a] = Zero /\ a \in NullZero THEN Null ELSE stored[a]

\* Mutants of Received: nothing is conditioned on the prior model; the prior
\* model outranks what was read.
ReceivedAll(a) == model[a]
ReceivedPrior(a) ==
    IF prior.set[a] # Null THEN prior.set[a]
    ELSE IF a \in Conditioned THEN Null ELSE model[a]

\* The sections' AfterReceive, over what was read and the prior model.
Received(a) ==
    IF a \in Restored THEN prior.set[a]
    ELSE IF a \in Conditioned /\ prior.set[a] = Null THEN Null
    ELSE model[a]

-----------------------------------------------------------------------------
Init ==
    /\ exposed \in {Docs, Docs \ Gated}
    /\ stored = Blank /\ present = InitiallyPresent
    /\ state = NoState
    /\ phase = "idle" /\ config = Null /\ prior = Nothing /\ todo = <<>>
    /\ fetched = Blank /\ model = Unread
    /\ edits = 0 /\ undisturbed = TRUE /\ fresh = {} /\ applied = Nothing
    /\ outcome = "none"

Return(o) ==
    /\ phase' = "idle" /\ config' = Null /\ prior' = Nothing /\ todo' = <<>>
    /\ fetched' = Blank /\ model' = Unread
    /\ outcome' = o

\* Create and Update differ in what is known beforehand.
StartApply(c) ==
    /\ phase = "idle"
    /\ state # NoState => Differs(c)
    /\ phase' = "write" /\ config' = c
    /\ prior' = Planned(c) /\ todo' = WriteCalls(Planned(c))
    /\ undisturbed' = TRUE /\ fresh' = {} /\ outcome' = "none"
    /\ UNCHANGED <<exposed, ctlVars, state, fetched, model, edits, applied>>

\* Mutant of WriteDoc: a document the controller refuses is passed over.
WriteDocLeniently ==
    /\ phase = "write" /\ todo # <<>>
    /\ LET d == Head(todo)
           lands == IF d \in exposed THEN Mask(d) ELSE {}
       IN  /\ d \notin Carried
           /\ stored' = [a \in Attrs |-> IF a \in lands THEN prior.set[a] ELSE stored[a]]
           /\ present' = IF d \in exposed THEN present \cup {d} ELSE present
    /\ todo' = Tail(todo)
    /\ UNCHANGED <<exposed, state, phase, config, prior, fetched, model, edits,
                   undisturbed, fresh, applied, outcome>>

\* A masked write.  A document the controller has not held so far comes to be.
WriteDoc ==
    /\ phase = "write" /\ todo # <<>>
    /\ LET d == Head(todo) IN
         /\ d \in exposed \ Carried
         /\ stored' = [a \in Attrs |-> IF a \in Mask(d) THEN prior.set[a] ELSE stored[a]]
         /\ present' = present \cup {d}
    /\ todo' = Tail(todo)
    /\ UNCHANGED <<exposed, state, phase, config, prior, fetched, model, edits,
                   undisturbed, fresh, applied, outcome>>

\* usgGeoKitBackend.UpdateFields fetches the document (none is as good as an
\* empty one), and puts it back whole with the masked members replaced.
FetchDoc ==
    /\ phase = "write" /\ todo # <<>> /\ Head(todo) \in Carried
    /\ phase' = "put" /\ fetched' = stored
    /\ UNCHANGED <<exposed, ctlVars, state, config, prior, todo, model, edits,
                   undisturbed, fresh, applied, outcome>>

\* Mutant of PutDoc: the document goes out as the model alone would have it.
PutFromModel ==
    /\ phase = "put" /\ Head(todo) \in exposed
    /\ LET d == Head(todo) IN
         /\ stored' = [a \in Attrs |-> IF DocOf[a] # d THEN stored[a]
                                       ELSE IF a \in Mask(d) THEN prior.set[a] ELSE Zero]
         /\ present' = present \cup {d}
    /\ phase' = "write" /\ todo' = Tail(todo) /\ fetched' = Blank
    /\ UNCHANGED <<exposed, state, config, prior, model, edits, undisturbed, fresh,
                   applied, outcome>>

PutDoc ==
    /\ phase = "put" /\ Head(todo) \in exposed
    /\ LET d == Head(todo) IN
         /\ stored' = [a \in Attrs |-> IF DocOf[a] # d THEN stored[a]
                                       ELSE IF a \in Mask(d) THEN prior.set[a] ELSE fetched[a]]
         /\ present' = present \cup {d}
    /\ phase' = "write" /\ todo' = Tail(todo) /\ fetched' = Blank
    /\ UNCHANGED <<exposed, state, config, prior, model, edits, undisturbed, fresh,
                   applied, outcome>>

\* Everything is written: the documents are read back under the same plan.
StartReadBack ==
    /\ phase = "write" /\ todo = <<>>
    /\ phase' = "read" /\ todo' = ReadCalls(prior)
    /\ UNCHANGED <<exposed, ctlVars, state, config, prior, fetched, model, edits,
                   undisturbed, fresh, applied, outcome>>

\* Refresh: the state takes the plan's part.
StartRefresh ==
    /\ phase = "idle" /\ state # NoState
    /\ phase' = "read" /\ prior' = state /\ todo' = ReadCalls(state)
    /\ fresh' = {} /\ outcome' = "none"
    /\ UNCHANGED <<exposed, ctlVars, state, config, fetched, model, edits, undisturbed, applied>>

\* An absent primary document is an error; an absent Extra leaves its
\* attributes null, or reads as zeros where the backend absorbs the absence.
ReadDoc ==
    /\ phase = "read" /\ todo # <<>>
    /\ LET d == Head(todo) IN
         /\ d \in present \cup Extra
         /\ model' = [a \in Attrs |->
                IF DocOf[a] = d /\ d \in present \cup ZeroIfAbsent
                THEN Decode(a) ELSE model[a]]
         /\ fresh' = fresh \cup {d}
    /\ todo' = Tail(todo)
    /\ UNCHANGED <<exposed, ctlVars, state, phase, config, prior, fetched, edits,
                   undisturbed, applied, outcome>>

\* State is set once every section has been read.
FinishRead ==
    /\ phase = "read" /\ todo = <<>>
    /\ state' = [claims |-> prior.claims, set |-> [a \in Attrs |-> Received(a)]]
    /\ applied' = IF config = Null THEN applied ELSE prior
    /\ Return(IF config = Null THEN "refreshed" ELSE "applied")
    /\ UNCHANGED <<exposed, ctlVars, edits, undisturbed, fresh>>

\* The first error ends the call; what was written stays, the state as it was.
FailCall ==
    /\ phase # "idle"
    /\ Return("failed")
    /\ UNCHANGED <<exposed, ctlVars, state, edits, undisturbed, fresh, applied>>

\* An import sets the id alone: the read that follows finds every section null.
Import ==
    /\ phase = "idle" /\ state = NoState
    /\ state' = Nothing /\ applied' = Nothing /\ outcome' = "none"
    /\ UNCHANGED <<exposed, ctlVars, rpcVars, edits, undisturbed, fresh>>

\* Delete undoes nothing on the controller.
Delete ==
    /\ phase = "idle" /\ state # NoState
    /\ state' = NoState /\ applied' = Nothing /\ outcome' = "none"
    /\ UNCHANGED <<exposed, ctlVars, rpcVars, edits, undisturbed, fresh>>

\* An administrator edits a setting in the controller's own interface.
Edit(a, v) ==
    /\ edits < MaxEdits /\ edits' = edits + 1
    /\ DocOf[a] \in present /\ v # stored[a]
    /\ stored' = [stored EXCEPT ![a] = v]
    /\ undisturbed' = FALSE /\ fresh' = fresh \ {DocOf[a]}
    /\ UNCHANGED <<exposed, present, state, rpcVars, applied, outcome>>

Next ==
    \/ \E c \in Configs : StartApply(c)
    \/ WriteDoc \/ FetchDoc \/ PutDoc \/ StartReadBack
    \/ StartRefresh \/ ReadDoc \/ FinishRead \/ FailCall
    \/ Import \/ Delete
    \/ \E a \in Attrs, v \in Values : Edit(a, v)

Spec == Init /\ [][Next]_vars

-----------------------------------------------------------------------------
(* Properties.                                                             *)

\* Every variable holds a value the program can hold there; an attribute is
\* only ever set in a section that is not null.
TypeOK ==
    /\ exposed \in SUBSET Docs /\ stored \in [Attrs -> Values] /\ present \in SUBSET Docs
    /\ state = NoState \/ (state \in Models /\ WellFormed(state))
    /\ phase \in {"idle", "write", "put", "read"}
    /\ config = Null \/ config \in Configs
    /\ prior \in Models /\ WellFormed(prior)
    /\ todo \in Seq(Docs) /\ (phase = "put" => todo # <<>>)
    /\ fetched \in [Attrs -> Values]
    /\ model \in [Attrs -> Values \cup {Null}]
    /\ edits \in 0..MaxEdits /\ undisturbed \in BOOLEAN
    /\ fresh \in SUBSET Docs
    /\ applied \in Models /\ WellFormed(applied)
    /\ outcome \in {"none", "applied", "refreshed", "failed"}

\* An apply nobody disturbed that reports success has put every planned value,
\* an explicit zero included, on the controller and back into state, across all
\* documents and after any number of applies that failed half way; Terraform
\* never finds an inconsistent result.  (A zero that reads as null is excepted.)
AppliedLands ==
    outcome = "applied" /\ undisturbed =>
        \A a \in Attrs : applied.set[a] # Null =>
            /\ stored[a] = applied.set[a]
            /\ \/ state.set[a] = applied.set[a]
               \/ a \in NullZero /\ applied.set[a] = Zero

\* After an apply or a refresh, state tells of every document not edited since
\* it was read what the controller holds; so drift, and what a failed apply left
\* behind, is in the next plan.  A null says nothing, and a secret is the plan's.
StateTellsTruth ==
    outcome \in {"applied", "refreshed"} /\ state # NoState =>
        \A a \in Attrs \ Restored :
            DocOf[a] \in fresh /\ state.set[a] # Null => state.set[a] = stored[a]

\* State tracks what the last successful apply planned and nothing else: a
\* section is null unless applied, a conditioned attribute is null unless set,
\* and neither a failed apply nor a refresh loses one that was.
ManagedOnly ==
    state # NoState =>
        /\ state.claims = applied.claims
        /\ \A a \in Conditioned : state.set[a] # Null => applied.set[a] # Null
        /\ \A a \in Attrs \ NullZero : applied.set[a] # Null => state.set[a] # Null

\* No write disturbs an attribute the plan does not set, in the document it
\* writes or in any other, a document put back whole included -- unless the
\* document was edited between the fetch and the put.
UnplannedUntouched ==
    [][(WriteDoc \/ PutDoc) /\ (phase = "put" => fetched = stored) =>
        \A a \in Attrs : stored'[a] # stored[a] => prior.set[a] # Null]_vars
=============================================================================
