------------------------------ MODULE SurfaceKit ------------------------------
(***************************************************************************)
(* What one attribute of a surface is, and what the kit does with it.      *)
(*                                                                         *)
(* A surface declares its attributes twice: the schema says who may give   *)
(* the value (presence), its type and what plans it; the descriptor gives  *)
(* the field that carries it between the Terraform model and the SDK       *)
(* struct.  Here both are rows [name, ...].  The values of an attribute    *)
(* are abstracted to what the kit tells apart: Null, Unknown, the Go zero  *)
(* of its type ("", false, 0, []), and the others.                         *)
(*                                                                         *)
(* traits of a schema row                                                  *)
(*   "default", "zeroDefault"   it has a default, which is its zero or not *)
(*   "stable", "stableNonNull"  UseStateForUnknown, UseNonNullState...     *)
(*   "sibling", "macs"          the provider's own two plan modifiers      *)
(*   "replace"                  RequiresReplace                            *)
(*   "refusesZero"              a validator or the type refuses the zero   *)
(*   "typed", "duration"        a custom string type that refuses ""       *)
(* traits of a field: "null" (NullZero), "omit" (OmitZero), "readOnly",    *)
(*   "readDefault", "gated" (WriteWhen), "keepPrior"; and of its wire:     *)
(*   "refused" (the check of OmitZero is run over it, and finds a pattern  *)
(*   of the controller that no zero matches), "pinned" (knownOmitZeroGaps) *)
(* traits of a member of an object: "null"; "whole" (its wire goes out      *)
(*   whenever the object does); "built" (the read always makes the object);*)
(*   "merged", "mergedWhole" (what the answer leaves out is kept from the   *)
(*   prior object); "keepNull" (a null of the prior object is kept);        *)
(*   "carried" (a known value of the prior object is kept for an empty one);*)
(*   "absentIsZero", "absentIsNull"; "omit", "readOnly", "refused", "pinned"*)
(***************************************************************************)
EXTENDS Naturals, Sequences, FiniteSets

Null    == "null"
Unknown == "unknown"
Zero    == "zero"
Unset   == "unset"     \* ToSDK wrote nothing: the SDK struct holds its Go zero or nil
Absent  == "absent"    \* the controller's document has no such key

-----------------------------------------------------------------------------
(* Rows.                                                                   *)

Attr(presence, type, traits, names) ==
  { [name |-> n, presence |-> presence, type |-> type, traits |-> traits] : n \in names }

Required(type, traits, names)         == Attr("required", type, traits, names)
Optional(type, traits, names)         == Attr("optional", type, traits, names)
OptionalComputed(type, traits, names) == Attr("both", type, traits, names)
Computed(type, traits, names)         == Attr("computed", type, traits, names)
Block(type, traits, names)            == Attr("block", type, traits, names)

Fields(kind, traits, names) ==
  { [name |-> n, kind |-> kind, traits |-> traits] : n \in names }

(* The hand-written fields win over the generated ones that claim the same *)
(* name on the wire.                                                       *)
Override(generated, overrides) ==
  { f \in generated : \A o \in overrides : o.name # f.name } \cup overrides

Surface(name, mode, schema, fields) ==
  [name |-> name, mode |-> mode, schema |-> schema, fields |-> fields]

-----------------------------------------------------------------------------
(* The kinds of field.  What ToSDK puts in the SDK struct for a null, an   *)
(* unknown and a zero (null, unknown, zero), what ToModel makes of a zero  *)
(* that is not elided (blank), whether an absent key is told apart from a  *)
(* zero (pointer), and the traits a field of this kind may be given.       *)

Value(offers) ==
  [null |-> Unset, unknown |-> Unset, zero |-> Zero, blank |-> Zero, pointer |-> FALSE,
   offers |-> offers]

Pointer(offers) == [Value(offers) EXCEPT !.pointer = TRUE]

\* The slice is emptied before the value is looked at: [] is sent, never null.
Seeded(offers)  == [Value(offers) EXCEPT !.null = Zero, !.unknown = Zero]

StringField     == Value({"null", "readDefault", "gated"})
BoolField       == Value({"gated"})                            \* a false is a value
Int64Field      == Value({"null"})
Float64Field    == Value({"null"})
\* ValueInt64Pointer makes of an unknown number a pointer to zero, and not a nil.
Int64PtrField   == [Pointer({"null", "omit", "refused", "pinned"}) EXCEPT !.unknown = Zero]
DurationField   == Value({"null"})
StringListField == Seeded({"null"})
Int64ListField  == Seeded({"null"})
StringSetField  == Seeded({"null", "keepPrior"})
BoolPtrField    == [Pointer({}) EXCEPT !.unknown = Zero]
DurationPtrField == Pointer({"null"})
StringLikeField == Value({"null", "gated"})
\* "" is what the controller refuses: it is not sent, and reads as null.
StringLikePtrField == [Pointer({}) EXCEPT !.zero = Unset, !.blank = Null]
ObjectField     == Pointer({"null"})
ObjectListField == Value({"null"})
ScatteredObjectField == Value({"null"})

\* The members of an object: what its Encode and Decode do with each.  A value is assigned, a
\* pointer only where the member is known; a bare pointer is ValueStringPointer on whatever is
\* there, which makes of an Unknown a pointer to its zero.
MemberTraits    == {"null", "omit", "whole", "built", "merged", "mergedWhole", "keepNull",
                    "carried", "absentIsZero", "absentIsNull", "refused", "pinned"}
ValueMember     == Value(MemberTraits)
PointerMember   == Pointer(MemberTraits)
BareMember      == [Pointer(MemberTraits) EXCEPT !.unknown = Zero]
\* Slots that are emptied when the member is not there; empty ones read as null.
EmptiedMember   == [Pointer(MemberTraits) EXCEPT !.null = Zero, !.unknown = Zero, !.blank = Null]
\* "" is not written (knownNonEmptyIn), nor is its wire in the mask.
ElidedMember    == [Pointer(MemberTraits) EXCEPT !.zero = Unset]
\* The provider's own value stands in for the one that is not given.
InferredMember  == [Value(MemberTraits) EXCEPT !.null = "b", !.unknown = "b"]
GeneratedMember == [Pointer(MemberTraits) EXCEPT !.null = "b", !.unknown = "b", !.zero = "b"]

KindOf ==
  [ StringField |-> StringField, BoolField |-> BoolField, Int64Field |-> Int64Field,
    Float64Field |-> Float64Field, Int64PtrField |-> Int64PtrField,
    DurationField |-> DurationField, StringListField |-> StringListField,
    Int64ListField |-> Int64ListField, StringSetField |-> StringSetField,
    BoolPtrField |-> BoolPtrField, DurationPtrField |-> DurationPtrField,
    StringLikeField |-> StringLikeField, StringLikePtrField |-> StringLikePtrField,
    ObjectField |-> ObjectField, ObjectListField |-> ObjectListField,
    ScatteredObjectField |-> ScatteredObjectField, value |-> ValueMember,
    pointer |-> PointerMember, bare |-> BareMember, emptied |-> EmptiedMember,
    elided |-> ElidedMember, inferred |-> InferredMember, generated |-> GeneratedMember ]

MemberKinds  == {"value", "pointer", "bare", "emptied", "elided", "inferred", "generated"}

PointerKinds == { k \in DOMAIN KindOf : KindOf[k].pointer }

\* Any kind may be wrapped in ReadOnly.
Offered(f) == f.traits \subseteq KindOf[f.kind].offers \cup {"readOnly"}

-----------------------------------------------------------------------------
(* Elision: what an SDK zero means.                                        *)

\* The kinds that make no claim of what a zero means.
NamesNoElide == { k \in DOMAIN KindOf : "null" \notin KindOf[k].offers }

CustomTypeRejectsEmpty(a) == a.traits \cap {"typed", "duration"} # {}

ZeroIsRejected(a, elidesTheEmptyString) ==
  /\ a.type = "String"
  /\ IF CustomTypeRejectsEmpty(a) THEN elidesTheEmptyString ELSE "refusesZero" \in a.traits

ZeroIsTheDefault(a) == a.type = "String" /\ "zeroDefault" \in a.traits

\* Mutant of DerivedElide: a zero is never taken for an absence.
KeepEveryZero(a, elidesTheEmptyString) == FALSE

(* TRUE is NullZero. *)
DerivedElide(a, elidesTheEmptyString) ==
  \/ a.presence \in {"optional", "block"}
  \/ /\ a.presence = "both"
     /\ ZeroIsRejected(a, elidesTheEmptyString)
     /\ ~ZeroIsTheDefault(a)

\* Mutant of OmitZeroAgrees: what the controller computes is taken for never written.
OmitZeroUnlessComputed(a, f) ==
  /\ f.kind = "Int64PtrField" /\ "readOnly" \notin f.traits
  /\ "refused" \in f.traits /\ a.presence \notin {"both", "computed"}
  => f.traits \cap {"omit", "pinned"} # {}

(* The conformance checks, one attribute at a time: TRUE where the check   *)
(* reports nothing.                                                        *)
ElideAgrees(a, f) ==
  \/ f.kind \in NamesNoElide
  \/ "readDefault" \in f.traits /\ a.presence = "both"
  \/ /\ "readDefault" \notin f.traits
     /\ ("null" \in f.traits) = DerivedElide(a, f.kind \in {"StringField", "StringLikeField"})

(* The check knows the patterns the controller publishes, and nothing of    *)
(* the schema: a wire that has none, as those of a WLAN's minimum data     *)
(* rates, passes whatever its validators or the controller refuse.  Of the *)
(* sections of unifi_setting the census walks none, and the tests of four  *)
(* run the check: device_supervision, global_ap, netflow and radius.       *)
OmitZeroAgrees(a, f) ==
  f.kind = "Int64PtrField" /\ "readOnly" \notin f.traits /\ "refused" \in f.traits
  => f.traits \cap {"omit", "pinned"} # {}

\* A member that is a pointer has no OmitZero to look at: each one is reported, whatever its
\* object's Encode does, and has to be pinned.
NestedOmitZeroAgrees(f) ==
  f.kind \in MemberKinds /\ KindOf[f.kind].pointer /\ "refused" \in f.traits => "pinned" \in f.traits

-----------------------------------------------------------------------------
(* The conversions.                                                        *)

ReadOnly(f) == "readOnly" \in f.traits

Closed(f, open) == ReadOnly(f) \/ ("gated" \in f.traits /\ ~open)

\* The value the SDK struct carries after ToSDK.
ToSDK(f, open, v) ==
  IF Closed(f, open) \/ (v \in {Unknown, Zero} /\ "omit" \in f.traits) THEN Unset
  ELSE CASE v = Null    -> KindOf[f.kind].null
         [] v = Unknown -> KindOf[f.kind].unknown
         [] v = Zero    -> KindOf[f.kind].zero
         [] OTHER       -> v

\* What an SDK zero reads as: ReadDefault goes before the elision.
Blank(f, def) ==
  IF "readDefault" \in f.traits THEN def
  ELSE IF "null" \in f.traits THEN Null ELSE KindOf[f.kind].blank

\* A member still Unknown in the prior object is taken for null.
Resolved(prior) == IF prior = Unknown THEN Null ELSE prior

\* The value the model takes for what the controller reports; respelled says that the prior
\* value is what the controller reports, written differently.
ToModel(f, def, respelled, raw, prior) ==
  IF "keepPrior" \in f.traits /\ respelled THEN prior
  ELSE IF "keepNull" \in f.traits /\ prior = Null THEN Null
  ELSE IF "merged" \in f.traits /\ (raw = Absent \/ (raw = Zero /\ f.kind = "value"))
  THEN Resolved(prior)
  ELSE IF "carried" \in f.traits /\ raw \in {Absent, Zero} /\ prior \notin {Null, Unknown, Zero}
  THEN prior
  ELSE CASE raw = Absent -> IF "absentIsZero" \in f.traits THEN Zero
                            ELSE IF KindOf[f.kind].pointer \/ "absentIsNull" \in f.traits
                            THEN Null ELSE Blank(f, def)
         [] raw = Zero   -> Blank(f, def)
         [] OTHER        -> raw

SetInPlan(f, open, v) ==
  ~Closed(f, open) /\ v \notin {Null, Unknown}

\* Mutant of CopyPlanToState: an object is replaced whole.
CopyWholesale(position, f, open, plan, state) ==
  IF position = "top" /\ ~SetInPlan(f, open, plan) THEN state ELSE plan

\* An object is merged member by member, unless the answer carried none (a state of Absent).
\* A scattered one keeps its null members too: nobody left them out on purpose.
MergeMember(plan, state)          == IF plan = Unknown /\ state # Absent THEN state ELSE plan
MergeScatteredMember(plan, state) == IF plan = Null /\ state # Absent THEN state
                                     ELSE MergeMember(plan, state)

\* What state holds once the plan is laid over it, for an attribute of its own and for a member
\* of an object.  The merge goes one level deep: an object inside it is copied whole, as is a
\* list, whose elements have nothing to merge by.
CopyPlanToState(position, f, open, plan, state) ==
  CASE position = "top"       -> IF SetInPlan(f, open, plan) THEN plan ELSE state
    [] position = "object"    -> MergeMember(plan, state)
    [] position = "scattered" -> MergeScatteredMember(plan, state)
    [] position \in {"nested", "list"} -> plan

(* A read of an object whose attribute is blank must not give a value the  *)
(* attribute's own type refuses.                                           *)
ZeroReadAgrees(a, f) ==
  CustomTypeRejectsEmpty(a) /\ "duration" \notin a.traits /\ a.presence # "required"
    => ToModel(f, "a", FALSE, Zero, Null) # Zero

Approved(a, f) == ElideAgrees(a, f) /\ OmitZeroAgrees(a, f) /\ ZeroReadAgrees(a, f)
=============================================================================
