--------------------------- MODULE AttributeCycle ---------------------------
(***************************************************************************)
(* One attribute of a managed surface, taken through plan, apply and       *)
(* refresh, for every combination of schema and field the provider serves. *)
(*                                                                         *)
(* ResourceKit has the engine's control with a few kinds of attribute;     *)
(* here the control is one step per call and the data is complete: every   *)
(* row of the four surface modules, the plan modifiers and defaults that   *)
(* make the plan, the encoder that may drop a zero, the controller that    *)
(* fills in what it was not sent, and Terraform core, which refuses an     *)
(* apply whose result is not what was planned.                             *)
(***************************************************************************)
EXTENDS SettingSurfaces, NetworkSurfaces, PolicySurfaces, DeviceSurfaces

CONSTANTS
  MaxEdits,      \* edits of the controller by somebody else
  MaxReconfigs   \* changes of the configuration

ASSUME CycleAssumption == MaxEdits \in Nat /\ MaxReconfigs \in Nat

-----------------------------------------------------------------------------
(* Shapes: what two attributes must share to be treated alike.             *)

Surfaces == SettingSpecs \cup NetworkSpecs \cup PolicySpecs \cup DeviceSpecs

FieldOf(s, a) == CHOOSE f \in s.fields : f.name = a.name

\* Every field, and every member of an object, is of a kind that has its traits, and
\* a member the check of OmitZero reports is pinned.
ASSUME ServedAssumption ==
  \A s \in Surfaces : \A f \in s.fields : Offered(f) /\ NestedOmitZeroAgrees(f)

\* How a section of unifi_setting that is not in the configuration is planned: the attribute
\* it is in the schema keeps its value, is computed again, or is nulled.
SectionPlan(s) ==
  LET section == { a \in SettingSections : "setting_" \o a.name = s.name }
  IN  IF \E a \in section : "stable" \in a.traits THEN "kept"
      ELSE IF \E a \in section : a.presence = "both" THEN "computed" ELSE "nulled"

Shape(s, position, a, kind, traits) ==
  [mode |-> s.mode, position |-> position, section |-> SectionPlan(s),
   presence |-> a.presence, type |-> a.type, traits |-> a.traits,
   field |-> [kind |-> kind, traits |-> traits]]

\* Attributes with a field of their own; a scattered object is judged by its members.
TopShapes(s) ==
  { Shape(s, "top", a, FieldOf(s, a).kind, FieldOf(s, a).traits) :
      a \in { b \in s.schema : \E f \in s.fields :
                f.name = b.name /\ f.kind \notin MemberKinds \cup {"ScatteredObjectField"} } }

\* "destination.port" is a member of the object "destination" carries.
MemberOf(a, f) ==
  Len(a.name) > Len(f.name) /\ SubSeq(a.name, 1, Len(f.name) + 1) = f.name \o "."

Lists == {"List", "Set", "ObjectList", "ObjectSet"}

\* Where in the field g that carries it the member a is: in an element of a list, in an object
\* inside the object, or in the object itself.
PositionIn(s, g, a) ==
  LET above == { p \in s.schema : MemberOf(a, p) }
  IN  IF \E p \in above : p.type \in Lists THEN "list"
      ELSE IF \E p \in above : p.name # g.name THEN "nested"
      ELSE IF g.kind = "ObjectField" THEN "object" ELSE "scattered"

\* An object inside an object is judged by its members too.  A member that has no row is one
\* whose conversion depends on another attribute.
MemberShapes(s) ==
  UNION { { Shape(s, PositionIn(s, g, a), a, FieldOf(s, a).kind, FieldOf(s, a).traits) :
              a \in { b \in s.schema : /\ MemberOf(b, g) /\ b.type # "Object"
                                      /\ \E f \in s.fields : f.name = b.name } } :
          g \in { f \in s.fields : /\ f.kind \in {"ObjectField", "ScatteredObjectField", "ObjectListField"}
                                  /\ "readOnly" \notin f.traits } }

ServedShapes == UNION { TopShapes(s) \cup MemberShapes(s) : s \in Surfaces }

\* TestEveryKitSurfaceOmitsAZeroTheControllerRejects.
ASSUME CensusAssumption == \A sh \in ServedShapes : OmitZeroAgrees(sh, sh.field)

\* What the conformance checks would accept in the place of what is served: a descriptor
\* author may give a field any elision they do not report.  port_profile's
\* lldpmed_notify_enabled, an Optional Bool no check speaks of, is left to its hook.
Redeclared(sh) ==
  { [sh EXCEPT !.field.traits = (@ \ {"null", "omit"}) \cup t] :
      t \in SUBSET (IF sh.field.kind = "Int64PtrField" THEN {"null", "omit"} ELSE {"null"}) }

HasElide(sh) == sh.position = "top" /\ sh.field.kind \notin NamesNoElide
                /\ "readDefault" \notin sh.field.traits

\* An Optional Bool is left to its hook.
Followed == { sh \in ServedShapes : ~(sh.type = "Bool" /\ sh.presence = "optional") }

Shapes ==
  Followed \cup { r \in UNION { Redeclared(sh) : sh \in { x \in Followed : HasElide(x) } } :
                    Approved(r, r.field) }

\* The check of OmitZero is silent where the controller publishes no pattern, or no test runs it:
\* of such a number an author may leave OmitZero off, as none of what is served does.
Unchecked(sh) == sh \notin Followed /\ sh.field.traits \cap {"refused", "omit"} = {}

-----------------------------------------------------------------------------
VARIABLES
  shape,      \* the attribute this behaviour follows
  open,       \* what its WriteWhen answers
  drops,      \* its JSON tag says omitempty, where the kind leaves that open
  cfg,        \* its value in the configuration
  declared,   \* the section it is in is in the configuration
  held,       \* what the controller holds
  managed,    \* the resource is in the Terraform state
  tainted,    \* and marked to be made again
  tracked,    \* the section it is in is in the Terraform state
  state,      \* the attribute in the Terraform state
  plan, creating, nudged, \* the plan in hand: the value, a create, another attribute changes
  derived,    \* and that other one is the sibling the controller derives this attribute from
  pc,         \* "idle" or "planned"
  outcome,    \* of the last apply: "none", "ok", "rejected" by the controller, and refused
              \* by Terraform core as "inconsistent" or "unknown"
  silent,     \* the last answer did not carry the object the attribute is a member of
  given,      \* how much of it the applied plan gave: "whole", "none", or, of an object inside
              \* an object, only the "outer" one
  applies,    \* applies that succeeded since the configuration or the controller changed
  raced,      \* somebody edited the controller since the plan
  edits, reconfigs

inputs == <<shape, open, drops>>
tf     == <<managed, tainted, tracked, state>>
vars   == <<inputs, cfg, declared, held, tf, plan, creating, nudged, derived, pc, outcome,
            silent, given, applies, raced, edits, reconfigs>>

Nonzero(type)  == IF type = "Bool" THEN {"a"} ELSE {"a", "b"}
Respelled(v, w) == v = "A" /\ w = "a"          \* one address written in two ways
AsWritten(v)   == v                            \* mutant of Canonical
Canonical(v)   == IF v = "A" THEN "a" ELSE v

HasZero(sh)    == sh.type \notin {"Object", "ObjectList", "ObjectSet"}
                  \/ sh.field.kind \in {"ObjectListField"} \cup MemberKinds
AcceptsZero(sh) == HasZero(sh) /\ sh.traits \cap {"refusesZero", "typed", "duration"} = {}
RefusesZero(sh) == "refusesZero" \in sh.traits /\ sh.type = "Int64"   \* no plan gives the zero

HasDefault(sh) == sh.traits \cap {"default", "zeroDefault"} # {}
DefaultOf(sh)  == IF "zeroDefault" \in sh.traits THEN Zero ELSE "a"
IsComputed(sh) == sh.presence \in {"both", "computed"}

\* What a practitioner may write, and what a controller may hold.
Configs(sh) ==
  IF sh.presence = "computed" THEN {Null}
  ELSE Nonzero(sh.type) \cup (IF AcceptsZero(sh) THEN {Zero} ELSE {})
       \cup (IF sh.presence = "required" THEN {} ELSE {Null})
       \cup (IF "keepPrior" \in sh.field.traits THEN {"A"} ELSE {})
Holdings(sh) ==
  Nonzero(sh.type) \cup {Absent} \cup (IF HasZero(sh) /\ ~RefusesZero(sh) THEN {Zero} ELSE {})

(* What the rows have in common, which the proofs rest on.                 *)

\* Where an attribute is, and of what kind.  Only the members of objects, and only in them,
\* have the traits of members; no plan modifier of a section looks at a sibling, and an address
\* that may be spelled in two ways is Required.
Placed(sh) ==
  /\ sh.position \in {"top", "object", "scattered", "nested", "list"}
  /\ sh.presence \in {"required", "optional", "both", "computed", "block"}
  /\ sh.field.kind \in DOMAIN KindOf
  /\ sh.position = "top" => /\ sh.field.kind \notin MemberKinds
                            /\ sh.field.traits \cap (MemberTraits \ {"null", "omit", "refused", "pinned"}) = {}
  /\ sh.mode # "composite" => sh.section = "nulled"
  /\ sh.mode = "composite" => "sibling" \notin sh.traits /\ "readDefault" \notin sh.field.traits
  /\ "macs" \in sh.traits \/ "keepPrior" \in sh.field.traits =>
       /\ sh.presence = "required" /\ ~HasDefault(sh)
       /\ "macs" \in sh.traits /\ "replace" \notin sh.traits

\* The kinds that put a value of their own in the place of a Bool nobody gave: the field reads
\* one, and its section has a default for it.
StandsInForBool(sh) ==
  LET K == KindOf[sh.field.kind]
  IN  sh.type = "Bool" /\ "b" \in {K.null, K.unknown, K.zero} =>
        /\ sh.mode = "composite" /\ sh.section = "kept" /\ HasDefault(sh)
        /\ sh.field.traits \cap {"null", "absentIsNull", "keepNull", "merged", "readDefault"} = {}
        /\ ~K.pointer /\ K.blank = Zero /\ K.zero # "b"

\* A number whose zero is refused is left out where it is unset, and where it is Unknown.
RefusedIsUnset(sh) ==
  LET K == KindOf[sh.field.kind]
  IN  RefusesZero(sh) =>
        IF "zeroDefault" \in sh.traits THEN sh.position = "scattered"
        ELSE /\ K.pointer /\ K.null = Unset /\ K.zero # "b" /\ "absentIsZero" \notin sh.field.traits
             /\ K.unknown = Zero /\ (IsComputed(sh) \/ sh.mode = "composite") =>
                  /\ "omit" \in sh.field.traits
                  /\ HasElide(sh) => /\ sh.field.kind = "Int64PtrField"
                                     /\ sh.field.traits \cap {"readOnly", "pinned"} = {}

\* An attribute nobody has to give does not read as its zero.
OptionalReadsNull(sh) ==
  sh.position = "top" /\ sh.presence \in {"optional", "block"} /\ ~HasDefault(sh)
    => Blank(sh.field, "a") # Zero

\* The fields and members that say something of their own, and the attributes that are planned
\* as what they were read as: a default that is read is no plan of an update, what is carried or
\* kept as null is not cleared, and what is written whole is not planned as Unknown.
KeptAsRead(sh) ==
  LET K == KindOf[sh.field.kind]
  IN  /\ "readDefault" \in sh.field.traits =>
           sh.position = "top" /\ sh.traits \cap {"stable", "stableNonNull", "sibling"} = {}
      /\ "carried" \in sh.field.traits =>
           sh.mode # "composite" /\ (sh.presence = "required" \/ sh.field.kind = "generated")
      /\ "keepNull" \in sh.field.traits => sh.position = "scattered" /\ K.pointer /\ K.null = Unset
      /\ "whole" \in sh.field.traits =>
           /\ sh.field.traits \cap {"readOnly", "gated"} = {}
           /\ IsComputed(sh) /\ ~HasDefault(sh) /\ sh.field.kind \notin {"inferred", "generated"}
                => "stable" \in sh.traits
      /\ sh.position \in {"scattered", "nested"} => sh.mode # "composite"
      /\ sh.section = "kept" => sh.position \in {"top", "list"}
      /\ sh.position = "object" => sh.field.traits \cap {"readOnly", "gated"} = {}
      /\ sh.position = "object" /\ sh.mode = "composite" =>
           \/ sh.presence = "required" \/ HasDefault(sh)
           \/ sh.field.kind = "value" /\ sh.type \notin {"Bool"} \cup Lists

ASSUME ShapesAssumption ==
  \A sh \in Followed : /\ Placed(sh) /\ StandsInForBool(sh) /\ RefusedIsUnset(sh)
                       /\ OptionalReadsNull(sh) /\ KeptAsRead(sh)

TypeOK ==
  /\ shape \in Shapes /\ open \in BOOLEAN /\ drops \in BOOLEAN
  /\ cfg \in Configs(shape) /\ declared \in BOOLEAN
  /\ held \in Holdings(shape) \cup {Zero}
  /\ managed \in BOOLEAN /\ tainted \in BOOLEAN /\ tracked \in BOOLEAN
  /\ state \in {Null, Zero, "a", "b", "A"}      \* never Unknown
  /\ plan \in {Null, Unknown, Zero, "a", "b", "A"}
  /\ creating \in BOOLEAN /\ nudged \in BOOLEAN /\ derived \in BOOLEAN
  /\ pc \in {"idle", "planned"}
  /\ outcome \in {"none", "ok", "rejected", "inconsistent", "unknown"}
  /\ silent \in BOOLEAN /\ given \in {"whole", "outer", "none"}
  /\ applies \in 0..2 /\ raced \in BOOLEAN
  /\ edits \in 0..MaxEdits /\ reconfigs \in 0..MaxReconfigs

Composite == shape.mode = "composite"
InSection == Composite => declared

Init ==
  /\ shape \in Shapes
  /\ open \in IF "gated" \in shape.field.traits THEN BOOLEAN ELSE {TRUE}
  /\ drops \in IF \/ shape.field.kind \in {"BoolField", "ObjectListField", "StringListField",
                                         "Int64ListField", "StringSetField"}
                  \/ shape.field.kind = "value" /\ shape.type \in {"Bool"} \cup Lists
               THEN BOOLEAN ELSE {TRUE}
  /\ cfg \in Configs(shape) /\ declared \in IF Composite THEN BOOLEAN ELSE {TRUE}
  /\ held \in Holdings(shape)
  /\ managed = FALSE /\ tainted = FALSE /\ tracked = FALSE /\ state = Null
  /\ plan = Null /\ creating = FALSE /\ nudged = FALSE /\ derived = FALSE /\ pc = "idle"
  /\ outcome = "none" /\ silent = FALSE /\ given = "whole" /\ applies = 0 /\ raced = FALSE
  /\ edits = 0 /\ reconfigs = 0

-----------------------------------------------------------------------------
(* Terraform core and the framework (external): refresh, then plan.        *)

\* What a refresh leaves in state; a section nobody declared stays out of it.
Refreshed ==
  IF managed /\ (Composite => tracked)
  THEN ToModel(shape.field, "a", Respelled(state, held), held, state)
  ELSE Null

\* The stored set is kept where the configuration names the same addresses.
KeepEquivalentMACs(seen) == IF seen # Null /\ Canonical(seen) = Canonical(cfg) THEN seen ELSE cfg

\* A value the controller derives from a sibling is kept unless the sibling is changing.
UseStateUnlessSiblingChanges(seen, siblingChanges) == IF siblingChanges THEN Unknown ELSE seen

\* The plan modifiers' answer for an Optional+Computed or Computed attribute the
\* configuration leaves out and something else in the resource changes.
Modified(seen, siblingChanges) ==
  IF "sibling" \in shape.traits THEN UseStateUnlessSiblingChanges(seen, siblingChanges)
  ELSE IF "stable" \in shape.traits \/ ("stableNonNull" \in shape.traits /\ seen # Null) THEN seen
  ELSE Unknown

Planned(seen, create, nudge, siblingChanges) ==
  IF ~InSection THEN
    IF shape.section = "nulled" \/ ~tracked \/ create THEN Null
    ELSE IF shape.section = "kept" \/ ~nudge THEN seen ELSE Unknown
  ELSE IF cfg # Null THEN
    IF "macs" \in shape.traits /\ ~create THEN KeepEquivalentMACs(seen) ELSE cfg
  ELSE IF HasDefault(shape) THEN DefaultOf(shape)
  ELSE IF ~IsComputed(shape) THEN Null
  ELSE IF create THEN Unknown
  ELSE IF nudge THEN Modified(seen, siblingChanges) ELSE seen

\* RequiresReplace: the object is made again, and planned as if there were none.
Replaces(seen) == "replace" \in shape.traits /\ cfg # Null /\ cfg # seen

MakePlan(nudge, siblingChanges) ==
  LET seen   == Refreshed
      create == ~managed \/ tainted \/ Replaces(seen)
      \* a section that enters the configuration is itself a change of the resource
      nudge2 == nudge \/ siblingChanges \/ (Composite /\ declared /\ ~tracked)
  IN  /\ pc = "idle" /\ pc' = "planned"
      /\ state' = seen
      /\ creating' = create /\ nudged' = nudge2 /\ derived' = siblingChanges
      /\ plan' = Planned(seen, create, nudge2, siblingChanges)
      /\ raced' = FALSE /\ outcome' = "none"
      /\ UNCHANGED <<inputs, cfg, declared, held, managed, tainted, tracked, silent,
                     given, applies, edits, reconfigs>>

Discard ==
  /\ pc = "planned" /\ pc' = "idle"
  /\ UNCHANGED <<inputs, cfg, declared, held, tf, plan, creating, nudged, derived, outcome,
                 silent, given, applies, raced, edits, reconfigs>>

Reconfigure(c, d) ==
  /\ pc = "idle" /\ reconfigs < MaxReconfigs /\ <<c, d>> # <<cfg, declared>>
  /\ cfg' = c /\ declared' = d /\ reconfigs' = reconfigs + 1 /\ applies' = 0
  /\ UNCHANGED <<inputs, held, tf, plan, creating, nudged, derived, pc, outcome, silent, given,
                 raced, edits>>

AdminEdit(v) ==
  /\ edits < MaxEdits /\ v # held
  /\ held' = v /\ edits' = edits + 1 /\ applies' = 0
  /\ raced' = (raced \/ pc = "planned")
  /\ UNCHANGED <<inputs, cfg, declared, tf, plan, creating, nudged, derived, pc, outcome,
                 silent, given, reconfigs>>

-----------------------------------------------------------------------------
(* The apply.                                                              *)

\* What the plan says of the object the attribute is a member of: a value of the member's own
\* gives it; where the member is null or unknown the object may be in the plan or not.
Givens ==
  IF shape.position = "top" \/ plan \notin {Null, Unknown} THEN {"whole"}
  ELSE {"whole", "none"} \cup (IF shape.position = "nested" THEN {"outer"} ELSE {})

\* The model ToSDK is given: the plan on a create, on an update state with the plan laid over it.
\* A section is written from the plan.
Working(g) ==
  IF creating \/ Composite THEN IF g = "whole" THEN plan ELSE Null
  ELSE IF g # "whole" THEN state
  ELSE CopyPlanToState(shape.position, shape.field, open, plan, state)

\* ToSDK leaves an object that is not there alone.
Encoded(g) == IF g = "none" THEN Unset ELSE ToSDK(shape.field, open, Working(g))

\* go-unifi (external): the encoder drops a plain zero with omitempty, never a pointer to one,
\* and a nil pointer always.
OnWire(v) == IF shape.field.kind \in PointerKinds \/ v \notin {Unset, Zero} THEN v
             ELSE IF drops THEN Unset ELSE Zero

\* A masked name the struct says nothing for goes out as its zero; one UnwritableWires names,
\* a nil pointer of a network, does not.
NamedOnWire(v) == IF v # Unset THEN v
                  ELSE IF shape.position # "top" /\ shape.field.kind \in PointerKinds THEN Unset
                  ELSE Zero

\* The member's own wire is in the mask.
Named(g) == g # "none" /\ ("whole" \in shape.field.traits \/ SetInPlan(shape.field, open, plan))

\* Mutants of Masked: a zero is taken for an absence; every name is in the mask.
MaskedNonzero(g) ==
  IF ~Named(g) \/ (plan = Zero /\ shape.position = "top") THEN Unset ELSE NamedOnWire(Encoded(g))
MaskedAlways(g) == IF Encoded(g) = Unset /\ ~Composite THEN Zero ELSE Encoded(g)

\* What an update sends.  The members of an object that has a struct of its own, and of a list's
\* elements, go out with it; a scattered member has a wire of its own.
Masked(g) ==
  IF shape.position \in {"object", "list"}
  THEN IF g = "none" THEN Unset ELSE OnWire(Encoded(g))
  ELSE IF Named(g) THEN NamedOnWire(Encoded(g)) ELSE Unset

\* A plain create sends the whole object; unifi_device and a section write under a mask what is
\* there already; a WAN is created, or adopted under a mask.
PlainCreate(adopts) == creating /\ (shape.mode = "post" \/ (shape.mode = "adopt" /\ ~adopts))

Sent(adopts, g) == IF PlainCreate(adopts) THEN OnWire(Encoded(g)) ELSE Masked(g)

\* What the controller then holds (external): it fills in what a create or a new element of a
\* list left out, and what it derives from an attribute that changed.
Stored(adopts, g, filled) ==
  IF Sent(adopts, g) # Unset THEN Canonical(Sent(adopts, g))
  ELSE IF derived \/ PlainCreate(adopts) \/ (shape.position = "list" /\ g # "none") THEN filled
  ELSE held

\* The tail of Create and Update: the answer, then the plan over it.  An answer that is quiet
\* has nothing of the object.  A section is read back and nothing is laid over it.
Answered(now, prior, g, quiet) ==
  LET model == ToModel(shape.field, "a", Respelled(prior, now), now, prior)
      read  == IF ~quiet THEN model
               ELSE IF "mergedWhole" \in shape.field.traits THEN Resolved(prior) ELSE Absent
  IN  IF Composite THEN model
      ELSE IF g = "whole" THEN CopyPlanToState(shape.position, shape.field, open, plan, read)
      ELSE IF read = Absent THEN Null ELSE read

Verdict(new) ==
  IF new = Unknown THEN "unknown"
  ELSE IF plan # Unknown /\ new # plan THEN "inconsistent" ELSE "ok"

\* A document nothing of which is written or read: a section out of plan and state.
LeavesSectionOut == Composite /\ ~declared /\ (shape.section # "kept" \/ ~tracked \/ creating)

Apply(adopts, g, filled, quiet) ==
  LET now   == IF LeavesSectionOut THEN held ELSE Stored(adopts, g, filled)
      prior == IF creating \/ (Composite /\ plan # Unknown) THEN plan
               ELSE IF Composite THEN state ELSE Working(g)
      new   == IF LeavesSectionOut THEN Null ELSE Answered(now, prior, g, quiet)
  IN  /\ pc = "planned" /\ pc' = "idle"
      /\ creating \/ nudged \/ plan # state
      /\ IF RefusesZero(shape) /\ Sent(adopts, g) = Zero /\ ~LeavesSectionOut
         THEN /\ outcome' = "rejected" /\ applies' = 0
              /\ UNCHANGED <<held, tf>>
         ELSE /\ held' = now
              /\ outcome' = Verdict(new)
              /\ state' = IF new = Unknown THEN Null ELSE new
              /\ managed' = TRUE
              /\ tainted' = (creating /\ outcome' # "ok")
              /\ tracked' = ~LeavesSectionOut
              /\ applies' = IF outcome' = "ok" /\ ~raced THEN IF applies = 2 THEN 2 ELSE applies + 1 ELSE 0
      /\ silent' = quiet /\ given' = g
      /\ UNCHANGED <<inputs, cfg, declared, plan, creating, nudged, derived, raced, edits, reconfigs>>

\* An answer is quiet where nothing of the object is in it, unless its read makes the object
\* whatever the answer, or keeps from the prior object what the answer leaves out.
Quiets ==
  IF shape.position \in {"object", "scattered", "nested"}
     /\ shape.field.traits \cap {"built", "merged"} = {}
  THEN BOOLEAN ELSE {FALSE}

Next ==
  \/ \E nudge \in BOOLEAN,
        siblingChanges \in IF "sibling" \in shape.traits THEN BOOLEAN ELSE {FALSE} :
       MakePlan(nudge, siblingChanges)
  \/ Discard
  \/ \E c \in Configs(shape), d \in IF Composite THEN BOOLEAN ELSE {TRUE} : Reconfigure(c, d)
  \/ \E v \in Holdings(shape) : AdminEdit(v)
  \/ \E adopts \in IF shape.mode = "adopt" THEN BOOLEAN ELSE {FALSE},
        g \in Givens, filled \in Holdings(shape), quiet \in Quiets :
       Apply(adopts, g, filled, quiet)

Spec == Init /\ [][Next]_vars

-----------------------------------------------------------------------------
(* Properties.                                                             *)

Top == shape.position = "top"

\* What the practitioner asks for, with the schema's default for what is left out.
Wanted == IF cfg # Null THEN cfg ELSE IF HasDefault(shape) THEN DefaultOf(shape) ELSE Null

\* A zero that is asked for and that the field reads back as something else.
ZeroReadsElse == Wanted = Zero /\ ToModel(shape.field, "a", FALSE, Zero, Null) # Zero

\* One apply is enough, except that a create may not send a zero: then it takes a second.
Converging == applies = 2 \/ (applies = 1 /\ Wanted # Zero)

Writable == open /\ "readOnly" \notin shape.field.traits

\* After an apply every attribute and every member has a known value, but for those the merge
\* of plan and answer does not reach: in the elements of a list, which have nothing to merge by,
\* in an object inside an object, and in an object the answer does not carry.
\* (ObjectField, ScatteredObjectField and ObjectListField.CopyPlanToState.)
UnknownOnlyUnmerged == outcome = "unknown" => shape.position \in {"list", "nested"} \/ silent

\* No number goes out as a zero its attribute's validators refuse, not for a value still Unknown
\* and not for one that is unset: not as the provider is, and not with any other elision that
\* the conformance checks accept, where they know of the refusal.  The one that does is
\* the schema's own: a WAN's egress_qos.priority has a default of 0 and a validator of 1 to 7.
\* (omit_zero_check.go, and wlan_descriptor.go where it is silent.)
RefusedZeroNotSent ==
  outcome = "rejected" =>
    \/ shape.position = "scattered" /\ "zeroDefault" \in shape.traits
    \/ Unchecked(shape)

\* Terraform core refuses the result of an apply only where the plan holds null and the
\* controller a value (an Optional attribute left out, a member of a section that is new in the
\* configuration, or one of a section that somebody edited after the plan), where a section
\* reads a zero back as null, or where the attribute was planned but not written (a closed
\* WriteWhen, a read-only field that has a default or whose value changed after the plan).
OnlyUnsetIsRefused ==
  outcome = "inconsistent" /\ Top =>
    \/ plan = Null /\ \/ state \notin {Null, Zero}
                      \/ IsComputed(shape) /\ (Composite \/ raced)
                      \/ Composite /\ raced
    \/ Composite /\ plan = Zero /\ state = Null
    \/ ~Writable /\ (raced \/ plan # Null)

\* Plans converge: once an apply has succeeded and nothing else changed, the next plan asks for
\* nothing, and what was asked for, an explicit zero included, is what the controller holds.
\* A zero the field reads back as null is planned for ever, and an attribute that is replaced
\* rather than updated never gets a zero its create does not send.  Of a member: what was asked
\* for is held, but for a zero, which the object's own encoding may drop.  (Elide against the
\* schema; the merge of plan and state.)
Converges ==
  InSection /\ Writable /\ Converging /\ ~("replace" \in shape.traits /\ Wanted = Zero) =>
    /\ Top /\ pc = "planned" /\ ~nudged /\ ~ZeroReadsElse => plan = state
    /\ Wanted # Null /\ (Top \/ Wanted # Zero) => held = Canonical(Wanted)

\* An update gives an attribute that is neither configured nor defaulted another value only to
\* put back what the plan read: an edit made since, or one the decode hid by keeping the prior
\* member.  A member of an object that is written whole is cleared where the plan says so.  So a
\* section left out of the configuration, planned whole from state and written again, never
\* gets a value it did not have.  Not so a list's new elements, nor what the provider makes
\* itself.  (maskFields, the plan modifiers.)
Meaning(v) == IF v \in {Absent, Zero} THEN Null ELSE Canonical(v)

UnsetIsOnlyPutBack ==
  [][shape.position # "list" /\ shape.field.kind \notin {"inferred", "generated"}
       /\ pc = "planned" /\ pc' = "idle" /\ ~creating /\ ~derived
       /\ (~InSection \/ (cfg = Null /\ ~HasDefault(shape)))
       => \/ Meaning(held') = Meaning(held)
          \/ (raced \/ "merged" \in shape.field.traits) /\ Meaning(held') = Meaning(state)
          \/ ~Top /\ Meaning(held') = Null /\ plan = Null /\ state # Null]_vars

\* "there is no plan value to carry": what a read-only field's attribute is planned as is what
\* the controller answers, unless somebody changed it meanwhile.  (field.go, readOnlyField.)
ReadOnlyIsNotPlanned ==
  Top /\ outcome = "inconsistent" /\ "readOnly" \in shape.field.traits => raced
=============================================================================
