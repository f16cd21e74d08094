------------------------ MODULE AttributeCycle_proofs ------------------------
(***************************************************************************)
(* Proofs about AttributeCycle, for any number of edits and of changes of  *)
(* the configuration.                                                      *)
(***************************************************************************)
EXTENDS AttributeCycle, TLAPS

-----------------------------------------------------------------------------
(* The kinds of field.                                                       *)

FieldTraits == MemberTraits \cup {"readDefault", "gated", "keepPrior"}

\* What the fields of a kind may write and read.
Kind == [null : {Unset, Zero, "b"}, unknown : {Unset, Zero, "b"}, zero : {Unset, Zero, "b"},
         blank : {Zero, Null}, pointer : BOOLEAN, offers : SUBSET FieldTraits]

\* A kind that differs from another in one respect is a kind.
LEMMA KindChanged ==
  ASSUME NEW k \in Kind
  PROVE  /\ \A w \in {Unset, Zero, "b"} : /\ [k EXCEPT !.null = w] \in Kind
                                         /\ [k EXCEPT !.unknown = w] \in Kind
                                         /\ [k EXCEPT !.zero = w] \in Kind
         /\ [k EXCEPT !.blank = Null] \in Kind /\ [k EXCEPT !.pointer = TRUE] \in Kind
  BY DEF Kind

\* So are those that the surfaces are made of.
LEMMA KindsMade ==
  ASSUME NEW o \in SUBSET FieldTraits
  PROVE  Value(o) \in Kind /\ Pointer(o) \in Kind /\ Seeded(o) \in Kind
  <1>1. Value(o) \in Kind
    BY DEF Value, Kind
  <1>2. Pointer(o) \in Kind
    BY <1>1, KindChanged, Zenon DEF Pointer
  <1>3. [Value(o) EXCEPT !.null = Zero] \in Kind
    BY <1>1, KindChanged, Zenon
  <1>4. [[Value(o) EXCEPT !.null = Zero] EXCEPT !.unknown = Zero] \in Kind
    BY <1>3, KindChanged, Zenon
  <1>5. Seeded(o) = [[Value(o) EXCEPT !.null = Zero] EXCEPT !.unknown = Zero]
    BY Zenon DEF Seeded
  <1> QED
    BY <1>1, <1>2, <1>4, <1>5, Zenon

\* Every kind of field, and every kind of member, is one.
LEMMA KindsType == \A k \in DOMAIN KindOf : KindOf[k] \in Kind
  <1>0. /\ {"null", "readDefault", "gated"} \in SUBSET FieldTraits /\ {"gated"} \in SUBSET FieldTraits
        /\ {"null"} \in SUBSET FieldTraits /\ {"null", "gated"} \in SUBSET FieldTraits /\ {} \in SUBSET FieldTraits
        /\ {"null", "keepPrior"} \in SUBSET FieldTraits
        /\ {"null", "omit", "refused", "pinned"} \in SUBSET FieldTraits
        /\ MemberTraits \in SUBSET FieldTraits
    BY DEF FieldTraits, MemberTraits
  <1>1. /\ StringField \in Kind /\ BoolField \in Kind /\ Int64Field \in Kind
        /\ Float64Field \in Kind /\ DurationField \in Kind /\ StringLikeField \in Kind
        /\ ObjectListField \in Kind /\ ScatteredObjectField \in Kind /\ ValueMember \in Kind
    BY <1>0, KindsMade, Zenon DEF StringField, BoolField, Int64Field, Float64Field, DurationField,
      StringLikeField, ObjectListField, ScatteredObjectField, ValueMember
  <1>2. /\ StringListField \in Kind /\ Int64ListField \in Kind /\ StringSetField \in Kind
        /\ DurationPtrField \in Kind /\ ObjectField \in Kind /\ PointerMember \in Kind
    BY <1>0, KindsMade, Zenon DEF StringListField, Int64ListField, StringSetField,
      DurationPtrField, ObjectField, PointerMember
  <1>3. Pointer({"null", "omit", "refused", "pinned"}) \in Kind /\ Pointer({}) \in Kind
        /\ Pointer(MemberTraits) \in Kind /\ Value(MemberTraits) \in Kind
    BY <1>0, KindsMade, Zenon
  <1>4. Int64PtrField \in Kind /\ BoolPtrField \in Kind /\ BareMember \in Kind
    BY <1>3, KindChanged, Zenon DEF Int64PtrField, BoolPtrField, BareMember
  <1>5. [Pointer({}) EXCEPT !.zero = Unset] \in Kind /\ ElidedMember \in Kind
    BY <1>3, KindChanged, Zenon DEF ElidedMember
  <1>6. StringLikePtrField \in Kind
    BY <1>5, KindChanged, Zenon DEF StringLikePtrField
  <1>7. /\ [Pointer(MemberTraits) EXCEPT !.null = Zero] \in Kind
        /\ [[Pointer(MemberTraits) EXCEPT !.null = Zero] EXCEPT !.unknown = Zero] \in Kind
    BY <1>3, KindChanged, Zenon
  <1>8. EmptiedMember \in Kind
    BY <1>7, KindChanged, Zenon DEF EmptiedMember
  <1>9. /\ [Value(MemberTraits) EXCEPT !.null = "b"] \in Kind
        /\ [Pointer(MemberTraits) EXCEPT !.null = "b"] \in Kind
    BY <1>3, KindChanged, Zenon
  <1>10. InferredMember \in Kind
         /\ [[Pointer(MemberTraits) EXCEPT !.null = "b"] EXCEPT !.unknown = "b"] \in Kind
    BY <1>9, KindChanged, Zenon DEF InferredMember
  <1>11. GeneratedMember \in Kind
    BY <1>10, KindChanged, Zenon DEF GeneratedMember
  <1> QED
    BY <1>1, <1>2, <1>4, <1>5, <1>6, <1>8, <1>10, <1>11 DEF KindOf

\* No kind of field that an attribute of its own may have puts a value of its own there.
LEMMA TopKinds ==
  \A k \in DOMAIN KindOf \ MemberKinds :
    "b" \notin {KindOf[k].null, KindOf[k].unknown, KindOf[k].zero}
  <1>1. \A o : Value(o).null = Unset /\ Value(o).unknown = Unset /\ Value(o).zero = Zero
    BY DEF Value
  <1>2. \A o : Pointer(o).null = Unset /\ Pointer(o).unknown = Unset /\ Pointer(o).zero = Zero
    BY DEF Pointer, Value
  <1>3. \A o : Seeded(o).null = Zero /\ Seeded(o).unknown = Zero /\ Seeded(o).zero = Zero
    BY DEF Seeded, Value
  <1>4. /\ Int64PtrField.null = Unset /\ Int64PtrField.unknown = Zero /\ Int64PtrField.zero = Zero
        /\ BoolPtrField.null = Unset /\ BoolPtrField.unknown = Zero /\ BoolPtrField.zero = Zero
        /\ StringLikePtrField.null = Unset /\ StringLikePtrField.unknown = Unset
        /\ StringLikePtrField.zero = Unset
    BY DEF Int64PtrField, BoolPtrField, StringLikePtrField, Pointer, Value
  <1>5. Unset # "b" /\ Zero # "b"
    BY DEF Unset, Zero
  <1> QED
    BY <1>1, <1>2, <1>3, <1>4, <1>5 DEF KindOf, MemberKinds, StringField, BoolField, Int64Field,
      Float64Field, DurationField, StringListField, Int64ListField, StringSetField, DurationPtrField,
      StringLikeField, ObjectField, ObjectListField, ScatteredObjectField

-----------------------------------------------------------------------------
(* The shapes.                                                               *)

\* A shape that is served is a row of eight columns, two of them the field's.
LEMMA ServedRows ==
  ASSUME NEW sh \in ServedShapes
  PROVE  sh = [mode |-> sh.mode, position |-> sh.position, section |-> sh.section,
               presence |-> sh.presence, type |-> sh.type, traits |-> sh.traits,
               field |-> [kind |-> sh.field.kind, traits |-> sh.field.traits]]
  <1>1. \A s, position, a, kind, traits : LET r == Shape(s, position, a, kind, traits) IN
          r = [mode |-> r.mode, position |-> r.position, section |-> r.section,
               presence |-> r.presence, type |-> r.type, traits |-> r.traits,
               field |-> [kind |-> r.field.kind, traits |-> r.field.traits]]
    BY DEF Shape
  <1>2. \E s, position, a, kind, traits : sh = Shape(s, position, a, kind, traits)
    <2>1. PICK s \in Surfaces : sh \in TopShapes(s) \cup MemberShapes(s)
      BY Zenon DEF ServedShapes
    <2>2. CASE sh \in TopShapes(s)
      BY <2>2, Zenon DEF TopShapes
    <2>3. CASE sh \in MemberShapes(s)
      <3>1. PICK g \in s.fields :
              sh \in { Shape(s, PositionIn(s, g, a), a, FieldOf(s, a).kind, FieldOf(s, a).traits) :
                         a \in { b \in s.schema : /\ MemberOf(b, g) /\ b.type # "Object"
                                                 /\ \E f \in s.fields : f.name = b.name } }
        BY <2>3 DEF MemberShapes
      <3> QED
        BY <3>1, Zenon
    <2> QED
      BY <2>1, <2>2, <2>3
  <1> QED
    BY <1>1, <1>2, Zenon

\* A shape that is not served differs from one that is only in its elisions, and the
\* conformance checks accept it.
LEMMA ShapesMade ==
  ASSUME NEW sh \in Shapes, sh \notin Followed
  PROVE  \E x \in Followed :
           /\ HasElide(x) /\ Approved(sh, sh.field)
           /\ sh.mode = x.mode /\ sh.position = x.position /\ sh.section = x.section
           /\ sh.presence = x.presence /\ sh.type = x.type /\ sh.traits = x.traits
           /\ sh.field.kind = x.field.kind
           /\ \A t : t \notin {"null", "omit"} => (t \in sh.field.traits <=> t \in x.field.traits)
  <1>1. PICK x \in Followed : HasElide(x) /\ sh \in Redeclared(x) /\ Approved(sh, sh.field)
    BY Zenon DEF Shapes
  <1>2. PICK t : t \subseteq {"null", "omit"} /\ sh = [x EXCEPT !.field.traits = (@ \ {"null", "omit"}) \cup t]
    BY <1>1 DEF Redeclared
  <1>3. x = [mode |-> x.mode, position |-> x.position, section |-> x.section,
             presence |-> x.presence, type |-> x.type, traits |-> x.traits,
             field |-> [kind |-> x.field.kind, traits |-> x.field.traits]]
    BY ServedRows, Zenon DEF Followed
  <1>4. /\ sh.mode = x.mode /\ sh.position = x.position /\ sh.section = x.section
        /\ sh.presence = x.presence /\ sh.type = x.type /\ sh.traits = x.traits
        /\ sh.field.kind = x.field.kind
        /\ sh.field.traits = (x.field.traits \ {"null", "omit"}) \cup t
    BY <1>2, <1>3
  <1> QED
    BY <1>1, <1>2, <1>4

\* What is served and what is accepted in its place are placed alike.
LEMMA ShapesPlaced ==
  ASSUME NEW sh \in Shapes
  PROVE  Placed(sh) /\ StandsInForBool(sh)
  <1>1. CASE sh \in Followed
    BY <1>1, ShapesAssumption
  <1>2. CASE sh \notin Followed
    <2>1. PICK x \in Followed :
           /\ HasElide(x)
           /\ sh.mode = x.mode /\ sh.position = x.position /\ sh.section = x.section
           /\ sh.presence = x.presence /\ sh.type = x.type /\ sh.traits = x.traits
           /\ sh.field.kind = x.field.kind
           /\ \A t : t \notin {"null", "omit"} => (t \in sh.field.traits <=> t \in x.field.traits)
      BY <1>2, ShapesMade
    <2>2. Placed(x) /\ StandsInForBool(x) /\ x.position = "top" /\ x.field.kind \notin MemberKinds
      BY <2>1, ShapesAssumption DEF HasElide, Placed
    <2>3. HasDefault(sh) = HasDefault(x)
      BY <2>1 DEF HasDefault
    <2>4. Placed(sh)
      <3>1. sh.field.traits \cap (MemberTraits \ {"null", "omit", "refused", "pinned"}) = {}
        BY <2>1, <2>2 DEF Placed
      <3> QED
        BY <2>1, <2>2, <2>3, <3>1 DEF Placed
    <2>5. "b" \notin {KindOf[x.field.kind].null, KindOf[x.field.kind].unknown, KindOf[x.field.kind].zero}
      BY <2>2, TopKinds DEF Placed
    <2> QED
      BY <2>1, <2>4, <2>5 DEF StandsInForBool
  <1> QED
    BY <1>1, <1>2

\* A number whose zero is refused is left out: of what is accepted the check of OmitZero says so,
\* where it is not silent.
LEMMA RefusedLeftOut ==
  ASSUME NEW sh \in Shapes, RefusesZero(sh)
  PROVE  LET K == KindOf[sh.field.kind] IN
         IF "zeroDefault" \in sh.traits THEN sh.position = "scattered"
         ELSE /\ K.pointer /\ K.null = Unset /\ K.zero # "b" /\ "absentIsZero" \notin sh.field.traits
              /\ K.unknown = Zero /\ (IsComputed(sh) \/ sh.mode = "composite")
                   => "omit" \in sh.field.traits \/ Unchecked(sh)
  <1>1. CASE sh \in Followed
    BY <1>1, ShapesAssumption, Zenon DEF RefusedIsUnset
  <1>2. CASE sh \notin Followed
    <2>1. PICK x \in Followed :
           /\ HasElide(x) /\ Approved(sh, sh.field)
           /\ sh.mode = x.mode /\ sh.position = x.position /\ sh.section = x.section
           /\ sh.presence = x.presence /\ sh.type = x.type /\ sh.traits = x.traits
           /\ sh.field.kind = x.field.kind
           /\ \A t : t \notin {"null", "omit"} => (t \in sh.field.traits <=> t \in x.field.traits)
      BY <1>2, ShapesMade
    <2>2. RefusesZero(x) /\ IsComputed(x) = IsComputed(sh) /\ RefusedIsUnset(x)
      BY <2>1, ShapesAssumption DEF RefusesZero, IsComputed
    <2>3. OmitZeroAgrees(sh, sh.field)
      BY <2>1 DEF Approved
    <2>4. ASSUME "omit" \notin sh.field.traits, "refused" \in sh.field.traits,
                 sh.field.kind = "Int64PtrField", "readOnly" \notin x.field.traits,
                 "pinned" \notin x.field.traits
          PROVE  FALSE
      BY <2>1, <2>3, <2>4 DEF OmitZeroAgrees
    <2>5. "omit" \in sh.field.traits \/ "refused" \in sh.field.traits \/ Unchecked(sh)
      BY <1>2 DEF Unchecked
    <2> QED
      BY <2>1, <2>2, <2>4, <2>5 DEF RefusedIsUnset, RefusesZero
  <1> QED
    BY <1>1, <1>2

\* An attribute nobody has to give does not read as its zero: of what is accepted the check of
\* elisions says so.
LEMMA OptionalElides ==
  ASSUME NEW sh \in Shapes
  PROVE  OptionalReadsNull(sh)
  <1>1. CASE sh \in Followed
    BY <1>1, ShapesAssumption
  <1>2. CASE sh \notin Followed
    <2> SUFFICES ASSUME sh.presence \in {"optional", "block"} PROVE Blank(sh.field, "a") # Zero
      BY DEF OptionalReadsNull
    <2>1. PICK x \in Followed :
           /\ HasElide(x) /\ Approved(sh, sh.field)
           /\ sh.field.kind = x.field.kind
           /\ \A t : t \notin {"null", "omit"} => (t \in sh.field.traits <=> t \in x.field.traits)
      BY <1>2, ShapesMade
    <2>2. sh.field.kind \notin NamesNoElide /\ "readDefault" \notin sh.field.traits
      BY <2>1 DEF HasElide
    <2>3. ElideAgrees(sh, sh.field)
      BY <2>1 DEF Approved
    <2>4. "null" \in sh.field.traits
      BY <2>2, <2>3 DEF ElideAgrees, DerivedElide
    <2> QED
      BY <2>2, <2>4 DEF Blank, Null, Zero
  <1> QED
    BY <1>1, <1>2

-----------------------------------------------------------------------------
(* The conversions.                                                          *)

Known == {Null, Zero, "a", "b", "A"}

\* What a read makes of a document and a prior value: never anything unknown, and nothing that
\* is in neither, but for nulls, zeros and defaults.
LEMMA ReadValues ==
  ASSUME NEW f, f.kind \in DOMAIN KindOf, NEW respelled \in BOOLEAN,
         NEW raw \in {Absent, Zero, "a", "b"}, NEW prior \in Known \cup {Unknown},
         respelled => prior = "A"
  PROVE  LET m == ToModel(f, "a", respelled, raw, prior) IN
         m \in Known /\ (m = "b" => "b" \in {raw, prior}) /\ (m = "A" => prior = "A")
  <1>1. KindOf[f.kind].blank \in {Zero, Null}
    BY KindsType DEF Kind
  <1>2. Blank(f, "a") \in {"a", Zero, Null}
    BY <1>1 DEF Blank
  <1> QED
    BY <1>2 DEF ToModel, Resolved, Known, Null, Unknown, Zero, Absent

\* What is written of a value: the value, a zero, nothing, or a value of the kind's own.
LEMMA WrittenValues ==
  ASSUME TypeOK, NEW v \in Known \cup {Unknown}
  PROVE  LET K == KindOf[shape.field.kind]
             w == ToSDK(shape.field, open, v) IN
         /\ w \in {Unset, Zero, "a", "b", "A"} /\ (w \in {"a", "A"} => w = v)
         /\ w = "b" => v = "b" \/ /\ "b" \in {K.null, K.unknown, K.zero}
                                  /\ v \in {Null, Unknown, Zero}
                                  /\ v = Zero => K.zero = "b"
  <1> DEFINE K == KindOf[shape.field.kind]
  <1>1. K.null \in {Unset, Zero, "b"} /\ K.unknown \in {Unset, Zero, "b"} /\ K.zero \in {Unset, Zero, "b"}
    BY KindsType, ShapesPlaced DEF Kind, TypeOK, Placed
  <1> HIDE DEF K
  <1>2. ToSDK(shape.field, open, v) \in {Unset, K.null, K.unknown, K.zero, v} /\
        (ToSDK(shape.field, open, v) = v \/ v \in {Null, Unknown, Zero} \/ ToSDK(shape.field, open, v) = Unset)
        /\ (v = Zero => ToSDK(shape.field, open, v) \in {Unset, K.zero})
        /\ (v = Null => ToSDK(shape.field, open, v) \in {Unset, K.null})
        /\ (v = Unknown => ToSDK(shape.field, open, v) \in {Unset, K.unknown})
    BY DEF ToSDK, K, Null, Unknown, Zero
  <1> QED
    BY <1>1, <1>2 DEF Known, Null, Unknown, Zero, Unset, K

-----------------------------------------------------------------------------
(* The inductive invariant.                                                  *)

\* The known values of an attribute, an address in its other spelling among them.
Vals(sh) == Nonzero(sh.type) \cup {Zero, "A"}
Holds(sh) == Nonzero(sh.type) \cup {Zero, Absent}

\* An attribute holds what its type can hold, and a respelled address only where one is kept.
RangeOK ==
  /\ state \in {Null} \cup Vals(shape) /\ plan \in {Null, Unknown} \cup Vals(shape)
  /\ "A" \in {cfg, state, plan} => "keepPrior" \in shape.field.traits

\* A section is tracked in a resource that is managed, and what is in neither is null.
TrackedOK ==
  /\ ~Composite => declared
  /\ tracked => managed
  /\ ~managed \/ ~tracked => state = Null
  /\ managed /\ ~Composite => tracked

\* The plan in hand is the one made of this state.
PlanOK ==
  pc = "planned" =>
    /\ plan = Planned(state, creating, nudged, derived)
    /\ creating = (~managed \/ tainted \/ Replaces(state))
    /\ derived => nudged /\ "sibling" \in shape.traits
    /\ Composite /\ declared /\ ~tracked => nudged

\* Nothing has to stand in for a Bool that is tracked.
OwnOK ==
  tracked /\ shape.type = "Bool" /\ "b" \in {KindOf[shape.field.kind].null, KindOf[shape.field.kind].unknown}
    => state # Null

\* The inductive invariant.
CycleInv == TypeOK /\ RangeOK /\ TrackedOK /\ PlanOK /\ OwnOK

\* A merge takes the plan's value or the other.
LEMMA MergedEither ==
  ASSUME NEW position \in {"top", "object", "scattered", "nested", "list"}, NEW f, NEW p, NEW s
  PROVE  CopyPlanToState(position, f, open, p, s) \in {p, s}
  BY DEF CopyPlanToState, MergeMember, MergeScatteredMember

\* What the model ToSDK is given may hold.
LEMMA WorkingValues ==
  ASSUME CycleInv, NEW g
  PROVE  Working(g) \in {Null, plan, state}
  <1>1. shape.position \in {"top", "object", "scattered", "nested", "list"}
    BY ShapesPlaced DEF CycleInv, TypeOK, Placed
  <1> QED
    BY <1>1, MergedEither DEF Working

\* What an apply sends is nothing, a zero, or a value of the attribute's type: what stands in for
\* a Bool is never asked for.
LEMMA SentValues ==
  ASSUME CycleInv, pc = "planned", NEW adopts \in BOOLEAN, NEW g \in Givens, ~LeavesSectionOut
  PROVE  Sent(adopts, g) \in {Unset, Zero, "A"} \cup Nonzero(shape.type)
  <1> DEFINE K == KindOf[shape.field.kind]
             w == Encoded(g)
  <1>1. Placed(shape) /\ StandsInForBool(shape) /\ shape.field.kind \in DOMAIN KindOf
    BY ShapesPlaced DEF CycleInv, TypeOK, Placed
  <1>2. Working(g) \in {Null, plan, state} /\ Working(g) \in Known \cup {Unknown}
    BY WorkingValues DEF CycleInv, RangeOK, Vals, Nonzero, Known
  <1>3. w \in {Unset, Zero, "a", "b", "A"}
    <2>1. \A v \in Known \cup {Unknown} : ToSDK(shape.field, open, v) \in {Unset, Zero, "a", "b", "A"}
      BY WrittenValues DEF CycleInv
    <2> QED
      BY <1>2, <2>1 DEF Encoded
  <1>4. w = "b" => shape.type # "Bool"
    <2> SUFFICES ASSUME w = "b", shape.type = "Bool" PROVE FALSE
      OBVIOUS
    <2>1. g # "none" /\ Working(g) # "b"
      BY <1>2 DEF Encoded, CycleInv, RangeOK, Vals, Nonzero, Unset, Null, Unknown, Zero
    <2>2. "b" \in {K.null, K.unknown, K.zero} /\ Working(g) \in {Null, Unknown, Zero}
          /\ (Working(g) = Zero => K.zero = "b")
      BY <1>1, <1>2, <2>1, WrittenValues DEF Encoded, CycleInv
    <2>3. shape.mode = "composite" /\ shape.section = "kept" /\ HasDefault(shape) /\ K.zero # "b"
          /\ Working(g) \in {Null, Unknown}
      BY <1>1, <2>2 DEF StandsInForBool, Unset, Null, Unknown, Zero
    <2>4. plan \notin {Null, Unknown}
      <3>1. CASE declared
        BY <2>3, <3>1 DEF CycleInv, PlanOK, Planned, InSection, Composite, DefaultOf, Replaces, KeepEquivalentMACs, Null, Zero, Unknown, TypeOK, Configs, Nonzero, RangeOK, Vals
      <3>2. CASE ~declared
        BY <2>2, <2>3, <3>2 DEF CycleInv, PlanOK, Planned, InSection, Composite, LeavesSectionOut, OwnOK, RangeOK, Vals, Nonzero, Null, Zero, Unknown
      <3> QED
        BY <3>1, <3>2
    <2>5. g = "whole"
      BY <2>4 DEF Givens
    <2> QED
      BY <2>3, <2>4, <2>5 DEF Working, Composite
  <1>5. w \in {Unset, Zero, "A"} \cup Nonzero(shape.type)
    BY <1>3, <1>4 DEF Nonzero
  <1> HIDE DEF w
  <1> QED
    BY <1>5 DEF Sent, OnWire, Masked, NamedOnWire, w

\* What the controller holds after an apply it can hold.
LEMMA StoredValues ==
  ASSUME CycleInv, pc = "planned", NEW adopts \in BOOLEAN, NEW g \in Givens, ~LeavesSectionOut,
         NEW filled \in Holdings(shape)
  PROVE  Stored(adopts, g, filled) \in Holdings(shape) \cup {Zero}
  <1>1. Sent(adopts, g) \in {Unset, Zero, "A"} \cup Nonzero(shape.type)
    BY SentValues
  <1>2. "a" \in Nonzero(shape.type) /\ Nonzero(shape.type) \subseteq Holdings(shape)
    BY DEF Nonzero, Holdings
  <1>3. \A v \in {Zero, "A"} \cup Nonzero(shape.type) : Canonical(v) \in Holdings(shape) \cup {Zero}
    BY <1>2 DEF Canonical, Nonzero, Zero
  <1> QED
    BY <1>1, <1>3 DEF Stored, CycleInv, TypeOK

\* What an apply leaves in state is a value of the attribute's type, or still Unknown.
LEMMA AnsweredValues ==
  ASSUME CycleInv, NEW now \in Holdings(shape) \cup {Zero}, NEW g \in Givens, NEW quiet \in Quiets,
         NEW prior \in {Null, plan, state}
  PROVE  /\ Answered(now, prior, g, quiet) \in {Null, Unknown} \cup Vals(shape)
         /\ Answered(now, prior, g, quiet) = "A" => "A" \in {prior, plan}
  <1> DEFINE model == ToModel(shape.field, "a", Respelled(prior, now), now, prior)
             read  == IF ~quiet THEN model
                      ELSE IF "mergedWhole" \in shape.field.traits THEN Resolved(prior) ELSE Absent
  <1>1. Placed(shape) /\ StandsInForBool(shape) /\ shape.field.kind \in DOMAIN KindOf
    BY ShapesPlaced DEF CycleInv, TypeOK, Placed
  <1>2. now \in {Absent, Zero, "a", "b"} /\ (now = "b" => "b" \in Nonzero(shape.type))
    BY DEF Holdings, Nonzero, Absent, Zero
  <1>3. prior \in {Null, Unknown} \cup Vals(shape) /\ prior \in Known \cup {Unknown}
    BY DEF CycleInv, RangeOK, Vals, Nonzero, Known
  <1>4. Respelled(prior, now) \in BOOLEAN /\ (Respelled(prior, now) => prior = "A")
    BY DEF Respelled
  <1>5. model \in Known /\ (model = "b" => "b" \in {now, prior}) /\ (model = "A" => prior = "A")
    BY <1>1, <1>2, <1>3, <1>4, ReadValues
  <1>6. model \in {Null} \cup Vals(shape)
    BY <1>2, <1>3, <1>5 DEF Vals, Nonzero, Known, Null, Unknown
  <1> HIDE DEF model
  <1>7. read \in {Null, Absent} \cup Vals(shape) /\ (read = "A" => prior = "A")
    BY <1>3, <1>5, <1>6 DEF Resolved, Absent, Null, Unknown
  <1>8. read = Absent => quiet
    <2>1. model # Absent
      BY <1>6 DEF Vals, Nonzero, Null, Zero, Absent
    <2> QED
      BY <2>1
  <1>9. plan \in {Null, Unknown} \cup Vals(shape)
    BY DEF CycleInv, RangeOK
  <1>10. read = Absent => shape.position # "top"
    BY <1>8 DEF Quiets
  <1>11. ASSUME g = "whole"
         PROVE  LET new == CopyPlanToState(shape.position, shape.field, open, plan, read)
                IN  new \in {plan, read} /\ (new = Absent => FALSE)
    BY <1>1, <1>9, <1>10 DEF Placed, CopyPlanToState, MergeMember, MergeScatteredMember, Vals, Nonzero, Null, Unknown, Zero, Absent
  <1> HIDE DEF read
  <1>12. Answered(now, prior, g, quiet) =
           IF Composite THEN model
           ELSE IF g = "whole" THEN CopyPlanToState(shape.position, shape.field, open, plan, read)
           ELSE IF read = Absent THEN Null ELSE read
    BY DEF Answered, model, read
  <1> QED
    BY <1>5, <1>6, <1>7, <1>9, <1>11, <1>12 DEF Null

\* What stands in for a Bool reads one: never null.
LEMMA OwnReads ==
  ASSUME shape \in Shapes, shape.type = "Bool",
         "b" \in {KindOf[shape.field.kind].null, KindOf[shape.field.kind].unknown},
         NEW raw \in {Absent, Zero, "a", "b"}, NEW prior
  PROVE  ToModel(shape.field, "a", Respelled(prior, raw), raw, prior) # Null
  <1>1. Placed(shape) /\ StandsInForBool(shape)
    BY ShapesPlaced
  <1>2. /\ shape.field.traits \cap {"null", "absentIsNull", "keepNull", "merged", "readDefault"} = {}
        /\ ~KindOf[shape.field.kind].pointer /\ KindOf[shape.field.kind].blank = Zero
    BY <1>1 DEF StandsInForBool
  <1>3. /\ "null" \notin shape.field.traits /\ "absentIsNull" \notin shape.field.traits
        /\ "keepNull" \notin shape.field.traits /\ "merged" \notin shape.field.traits
        /\ "readDefault" \notin shape.field.traits
    BY <1>2
  <1>4. Blank(shape.field, "a") = Zero
    BY <1>2, <1>3 DEF Blank
  <1>5. Zero # Null /\ Absent # Null /\ "A" # Null
    BY DEF Zero, Null, Absent
  <1>6. raw # Null
    BY DEF Null, Absent, Zero
  <1> QED
    BY <1>2, <1>3, <1>4, <1>5, <1>6 DEF ToModel, Respelled

\* What a refresh leaves in state is a value of the attribute's type.
LEMMA RefreshedValues ==
  ASSUME CycleInv
  PROVE  /\ Refreshed \in {Null} \cup Vals(shape)
         /\ Refreshed = "A" => state = "A"
         /\ ~managed \/ ~tracked => Refreshed = Null
  <1>1. CASE managed /\ (Composite => tracked)
    <2>1. shape.field.kind \in DOMAIN KindOf
      BY ShapesPlaced DEF CycleInv, TypeOK, Placed
    <2>2. held \in {Absent, Zero, "a", "b"} /\ (held = "b" => "b" \in Nonzero(shape.type))
      BY DEF CycleInv, TypeOK, Holdings, Nonzero, Absent, Zero
    <2>3. state \in {Null} \cup Vals(shape) /\ state \in Known
      BY DEF CycleInv, RangeOK, Vals, Nonzero, Known
    <2>4. Respelled(state, held) \in BOOLEAN /\ (Respelled(state, held) => state = "A")
      BY DEF Respelled
    <2>5. /\ Refreshed \in Known /\ (Refreshed = "b" => "b" \in {held, state})
          /\ (Refreshed = "A" => state = "A")
      BY <1>1, <2>1, <2>2, <2>3, <2>4, ReadValues DEF Refreshed
    <2>6. tracked
      BY <1>1 DEF CycleInv, TrackedOK
    <2> QED
      BY <1>1, <2>2, <2>3, <2>5, <2>6 DEF Vals, Nonzero, Known, Null, Unknown
  <1>2. CASE ~(managed /\ (Composite => tracked))
    BY <1>2 DEF Refreshed, Null
  <1> QED
    BY <1>1, <1>2

\* And so is what is planned, or it is Unknown.
LEMMA PlannedValues ==
  ASSUME CycleInv, NEW seen \in {Null} \cup Vals(shape), NEW create, NEW nudge, NEW sibling
  PROVE  /\ Planned(seen, create, nudge, sibling) \in {Null, Unknown} \cup Vals(shape)
         /\ Planned(seen, create, nudge, sibling) = "A" => "A" \in {seen, cfg}
  <1>1. cfg \in {Null} \cup Vals(shape)
    BY DEF CycleInv, TypeOK, Configs, Vals, Nonzero
  <1>2. DefaultOf(shape) \in Vals(shape) /\ DefaultOf(shape) # "A"
    BY DEF DefaultOf, Vals, Nonzero, Zero
  <1>3. KeepEquivalentMACs(seen) \in {seen, cfg} /\ Modified(seen, sibling) \in {seen, Unknown}
    BY DEF KeepEquivalentMACs, Modified, UseStateUnlessSiblingChanges
  <1>4. Null # "A" /\ Unknown # "A"
    BY DEF Null, Unknown
  <1> QED
    BY <1>1, <1>2, <1>3, <1>4 DEF Planned

\* The attribute starts in the invariant.
LEMMA CycleInit == Init => CycleInv
  <1> SUFFICES ASSUME Init PROVE CycleInv
    OBVIOUS
  <1>1. open \in BOOLEAN /\ drops \in BOOLEAN /\ declared \in BOOLEAN
    BY DEF Init
  <1>2. TypeOK
    <2>1. 0 \in 0..MaxEdits /\ 0 \in 0..MaxReconfigs /\ 0 \in 0..2
      BY CycleAssumption
    <2> QED
      BY <1>1, <2>1 DEF Init, TypeOK, Null
  <1>3. RangeOK
    BY DEF Init, RangeOK, Vals, Nonzero, Null, Configs, Zero
  <1>4. TrackedOK
    BY DEF Init, TrackedOK
  <1>5. PlanOK /\ OwnOK
    BY DEF Init, PlanOK, OwnOK
  <1> QED
    BY <1>2, <1>3, <1>4, <1>5 DEF CycleInv

\* A plan is made of what the refresh left.
LEMMA PlanStep ==
  ASSUME CycleInv, NEW nudge \in BOOLEAN,
         NEW siblingChanges \in IF "sibling" \in shape.traits THEN BOOLEAN ELSE {FALSE},
         MakePlan(nudge, siblingChanges)
  PROVE  CycleInv'
  <1>1. /\ state' = Refreshed
        /\ creating' = (~managed \/ tainted \/ Replaces(state'))
        /\ nudged' = (nudge \/ siblingChanges \/ (Composite /\ declared /\ ~tracked))
        /\ derived' = siblingChanges /\ pc' = "planned"
        /\ plan' = Planned(state', creating', nudged', derived')
        /\ UNCHANGED <<shape, open, drops, cfg, declared, held, managed, tainted, tracked>>
    BY DEF MakePlan, inputs
  <1>2. siblingChanges \in BOOLEAN /\ (siblingChanges => "sibling" \in shape.traits)
    OBVIOUS
  <1>3. /\ state' \in {Null} \cup Vals(shape) /\ (state' = "A" => state = "A")
        /\ (~managed \/ ~tracked => state' = Null)
    BY <1>1, RefreshedValues
  <1>4. plan' \in {Null, Unknown} \cup Vals(shape) /\ (plan' = "A" => "A" \in {state', cfg})
    BY <1>1, <1>3, PlannedValues
  <1>5. TypeOK'
    <2>1. state' \in {Null, Zero, "a", "b", "A"} /\ plan' \in {Null, Unknown, Zero, "a", "b", "A"}
      BY <1>3, <1>4 DEF Vals, Nonzero
    <2>2. creating' \in BOOLEAN /\ nudged' \in BOOLEAN /\ derived' \in BOOLEAN
      BY <1>1, <1>2 DEF CycleInv, TypeOK, Composite, Replaces
    <2> QED
      BY <1>1, <2>1, <2>2 DEF MakePlan, CycleInv, TypeOK
  <1>6. RangeOK'
    BY <1>1, <1>3, <1>4 DEF CycleInv, RangeOK, Vals
  <1>7. TrackedOK'
    BY <1>1, <1>3 DEF CycleInv, TrackedOK, Composite
  <1>8. PlanOK'
    <2>1. Planned(state', creating', nudged', derived') = Planned(state, creating, nudged, derived)'
      BY <1>1 DEF Planned, InSection, Composite, KeepEquivalentMACs, Modified
    <2>2. Replaces(state') = Replaces(state)'
      BY <1>1 DEF Replaces
    <2> QED
      BY <1>1, <1>2, <2>1, <2>2 DEF PlanOK, Composite
  <1>9. OwnOK'
    <2> SUFFICES ASSUME tracked, shape.type = "Bool",
                        "b" \in {KindOf[shape.field.kind].null, KindOf[shape.field.kind].unknown}
                 PROVE  state' # Null
      BY <1>1 DEF OwnOK
    <2>1. managed /\ shape \in Shapes
      BY DEF CycleInv, TrackedOK, TypeOK
    <2>2. held \in {Absent, Zero, "a", "b"}
      BY DEF CycleInv, TypeOK, Holdings, Nonzero, Absent, Zero
    <2>3. Refreshed = ToModel(shape.field, "a", Respelled(state, held), held, state)
      BY <2>1 DEF Refreshed
    <2> QED
      BY <1>1, <2>1, <2>2, <2>3, OwnReads
  <1> QED
    BY <1>5, <1>6, <1>7, <1>8, <1>9 DEF CycleInv

\* A discarded plan leaves everything else as it was.
LEMMA DiscardStep == ASSUME CycleInv, Discard PROVE CycleInv'
  BY DEF Discard, CycleInv, TypeOK, RangeOK, TrackedOK, PlanOK, OwnOK, Composite, inputs, tf

\* A new configuration is one the schema takes.
LEMMA ReconfigureStep ==
  ASSUME CycleInv, NEW c \in Configs(shape), NEW d \in IF Composite THEN BOOLEAN ELSE {TRUE},
         Reconfigure(c, d)
  PROVE  CycleInv'
  <1>1. /\ UNCHANGED <<shape, open, drops, held, managed, tainted, tracked, state, plan, creating,
                        nudged, derived, pc, outcome, silent, given, raced, edits>>
        /\ cfg' = c /\ declared' = d /\ reconfigs' = reconfigs + 1 /\ applies' = 0 /\ pc = "idle"
        /\ reconfigs < MaxReconfigs
    BY DEF Reconfigure, inputs, tf
  <1>2. d \in BOOLEAN /\ (~Composite => d)
    OBVIOUS
  <1>3. reconfigs' \in 0..MaxReconfigs /\ applies' \in 0..2
    BY <1>1, CycleAssumption DEF CycleInv, TypeOK
  <1>4. TypeOK'
    BY <1>1, <1>2, <1>3 DEF CycleInv, TypeOK
  <1>5. c = "A" => "keepPrior" \in shape.field.traits
    BY DEF Configs, Nonzero, Null, Zero
  <1>6. RangeOK'
    BY <1>1, <1>5 DEF CycleInv, RangeOK
  <1>7. TrackedOK' /\ PlanOK' /\ OwnOK'
    BY <1>1, <1>2 DEF CycleInv, TrackedOK, PlanOK, OwnOK, Composite
  <1> QED
    BY <1>4, <1>6, <1>7 DEF CycleInv

\* An edit only changes what the controller holds.
LEMMA EditStep ==
  ASSUME CycleInv, NEW v \in Holdings(shape), AdminEdit(v)
  PROVE  CycleInv'
  <1>1. /\ UNCHANGED <<shape, open, drops, cfg, declared, managed, tainted, tracked, state, plan,
                        creating, nudged, derived, pc, outcome, silent, given, reconfigs>>
        /\ held' = v /\ edits' = edits + 1 /\ applies' = 0 /\ edits < MaxEdits
        /\ raced' = (raced \/ pc = "planned")
    BY DEF AdminEdit, inputs, tf
  <1>2. edits' \in 0..MaxEdits /\ applies' \in 0..2
    BY <1>1, CycleAssumption DEF CycleInv, TypeOK
  <1>3. TypeOK'
    BY <1>1, <1>2 DEF CycleInv, TypeOK
  <1>4. RangeOK' /\ TrackedOK' /\ OwnOK'
    BY <1>1 DEF CycleInv, RangeOK, TrackedOK, OwnOK, Composite
  <1>5. PlanOK'
    <2>1. Planned(state, creating, nudged, derived)' = Planned(state, creating, nudged, derived)
          /\ Replaces(state)' = Replaces(state)
      BY <1>1 DEF Planned, InSection, Composite, KeepEquivalentMACs, Modified, Replaces
    <2> QED
      BY <1>1, <2>1 DEF CycleInv, PlanOK, Composite
  <1> QED
    BY <1>3, <1>4, <1>5 DEF CycleInv

\* What an apply that is not rejected leaves: in the controller, and in state.
NowOf(adopts, g, filled) == IF LeavesSectionOut THEN held ELSE Stored(adopts, g, filled)
PriorOf(g) ==
  IF creating \/ (Composite /\ plan # Unknown) THEN plan
  ELSE IF Composite THEN state ELSE Working(g)
NewOf(adopts, g, filled, quiet) ==
  IF LeavesSectionOut THEN Null ELSE Answered(NowOf(adopts, g, filled), PriorOf(g), g, quiet)

Refused(adopts, g) == RefusesZero(shape) /\ Sent(adopts, g) = Zero /\ ~LeavesSectionOut

\* The two ends of an apply.
LEMMA ApplyEnds ==
  ASSUME NEW adopts, NEW g, NEW filled, NEW quiet, Apply(adopts, g, filled, quiet)
  PROVE  LET new == NewOf(adopts, g, filled, quiet) IN
         /\ UNCHANGED <<shape, open, drops, cfg, declared, plan, creating, nudged, derived, raced,
                        edits, reconfigs>>
         /\ pc = "planned" /\ pc' = "idle" /\ silent' = quiet /\ given' = g
         /\ creating \/ nudged \/ plan # state
         /\ \/ /\ Refused(adopts, g) /\ outcome' = "rejected" /\ applies' = 0
               /\ UNCHANGED <<held, managed, tainted, tracked, state>>
            \/ /\ ~Refused(adopts, g)
               /\ held' = NowOf(adopts, g, filled) /\ outcome' = Verdict(new)
               /\ state' = IF new = Unknown THEN Null ELSE new
               /\ managed' = TRUE /\ tainted' = (creating /\ outcome' # "ok")
               /\ tracked' = ~LeavesSectionOut
               /\ applies' = IF outcome' = "ok" /\ ~raced
                             THEN IF applies = 2 THEN 2 ELSE applies + 1 ELSE 0
  BY DEF Apply, NowOf, PriorOf, NewOf, Refused, inputs, tf

\* What they leave is of the attribute's type.
LEMMA NewValues ==
  ASSUME CycleInv, pc = "planned", NEW adopts \in BOOLEAN, NEW g \in Givens,
         NEW filled \in Holdings(shape), NEW quiet \in Quiets
  PROVE  LET new == NewOf(adopts, g, filled, quiet) IN
         /\ NowOf(adopts, g, filled) \in Holdings(shape) \cup {Zero}
         /\ PriorOf(g) \in {Null, plan, state}
         /\ new \in {Null, Unknown} \cup Vals(shape)
         /\ new = "A" => "A" \in {state, plan}
  <1>1. NowOf(adopts, g, filled) \in Holdings(shape) \cup {Zero}
    BY StoredValues DEF NowOf, CycleInv, TypeOK
  <1>2. PriorOf(g) \in {Null, plan, state}
    BY WorkingValues DEF PriorOf
  <1> DEFINE new == NewOf(adopts, g, filled, quiet)
  <1>3. CASE LeavesSectionOut
    BY <1>1, <1>2, <1>3 DEF NewOf, Null
  <1>4. CASE ~LeavesSectionOut
    BY <1>1, <1>2, <1>4, AnsweredValues DEF NewOf, Null
  <1> QED
    BY <1>3, <1>4

\* An apply keeps the invariant.
LEMMA ApplyStep ==
  ASSUME CycleInv, NEW adopts \in IF shape.mode = "adopt" THEN BOOLEAN ELSE {FALSE},
         NEW g \in Givens, NEW filled \in Holdings(shape), NEW quiet \in Quiets,
         Apply(adopts, g, filled, quiet)
  PROVE  CycleInv'
  <1> DEFINE new == NewOf(adopts, g, filled, quiet)
             now == NowOf(adopts, g, filled)
  <1>1. /\ UNCHANGED <<shape, open, drops, cfg, declared, plan, creating, nudged, derived, raced,
                       edits, reconfigs>>
        /\ pc = "planned" /\ pc' = "idle" /\ silent' = quiet /\ given' = g
    BY ApplyEnds
  <1>2. adopts \in BOOLEAN /\ quiet \in BOOLEAN /\ g \in {"whole", "outer", "none"}
    BY DEF Quiets, Givens
  <1>3. PlanOK'
    BY <1>1 DEF PlanOK
  <1>4. CASE Refused(adopts, g)
    <2>1. outcome' = "rejected" /\ applies' = 0 /\ UNCHANGED <<held, managed, tainted, tracked, state>>
      BY <1>4, ApplyEnds
    <2>2. TypeOK'
      BY <1>1, <1>2, <2>1 DEF CycleInv, TypeOK
    <2>3. RangeOK' /\ TrackedOK' /\ OwnOK'
      BY <1>1, <2>1 DEF CycleInv, RangeOK, TrackedOK, OwnOK, Composite
    <2> QED
      BY <1>3, <2>2, <2>3 DEF CycleInv
  <1>5. CASE ~Refused(adopts, g)
    <2>1. /\ held' = now /\ outcome' = Verdict(new)
          /\ state' = IF new = Unknown THEN Null ELSE new
          /\ managed' = TRUE /\ tainted' = (creating /\ outcome' # "ok")
          /\ tracked' = ~LeavesSectionOut
          /\ applies' = IF outcome' = "ok" /\ ~raced
                        THEN IF applies = 2 THEN 2 ELSE applies + 1 ELSE 0
      BY <1>5, ApplyEnds
    <2>2. /\ now \in Holdings(shape) \cup {Zero}
          /\ new \in {Null, Unknown} \cup Vals(shape) /\ (new = "A" => "A" \in {state, plan})
      BY <1>1, <1>2, NewValues
    <2> HIDE DEF new, now
    <2>3. state' \in {Null} \cup Vals(shape) /\ (state' = "A" => "A" \in {state, plan})
      BY <2>1, <2>2 DEF Null
    <2>4. TypeOK'
      <3>1. state' \in {Null, Zero, "a", "b", "A"}
        BY <2>3 DEF Vals, Nonzero
      <3>2. applies' \in 0..2
        BY <2>1 DEF CycleInv, TypeOK
      <3>3. outcome' \in {"none", "ok", "rejected", "inconsistent", "unknown"}
        BY <2>1 DEF Verdict
      <3>4. tainted' \in BOOLEAN /\ tracked' \in BOOLEAN /\ managed' \in BOOLEAN
        BY <2>1 DEF CycleInv, TypeOK, LeavesSectionOut, Composite
      <3>5. held' \in Holdings(shape) \cup {Zero}
        BY <2>1, <2>2
      <3> QED
        BY <1>1, <1>2, <3>1, <3>2, <3>3, <3>4, <3>5 DEF CycleInv, TypeOK
    <2>5. RangeOK'
      BY <1>1, <2>3 DEF CycleInv, RangeOK, Vals
    <2>6. TrackedOK'
      <3>1. LeavesSectionOut => state' = Null /\ Composite
        BY <2>1 DEF LeavesSectionOut, new, NewOf, Null, Unknown
      <3> QED
        BY <1>1, <2>1, <3>1 DEF CycleInv, TrackedOK, Composite
    <2>7. OwnOK'
      <3> SUFFICES ASSUME ~LeavesSectionOut, shape.type = "Bool",
                          "b" \in {KindOf[shape.field.kind].null, KindOf[shape.field.kind].unknown}
                   PROVE  state' # Null
        BY <1>1, <2>1 DEF OwnOK
      <3>1. shape \in Shapes /\ Placed(shape) /\ StandsInForBool(shape)
        BY ShapesPlaced DEF CycleInv, TypeOK
      <3>2. Composite
        BY <3>1 DEF StandsInForBool, Composite
      <3>3. new = ToModel(shape.field, "a", Respelled(PriorOf(g), now), now, PriorOf(g))
        BY <3>2 DEF new, now, NewOf, Answered
      <3>4. now \in {Absent, Zero, "a", "b"}
        BY <2>2 DEF Holdings, Nonzero, Absent, Zero
      <3>5. PriorOf(g) \in {Null, plan, state} /\ PriorOf(g) \in Known \cup {Unknown}
        BY <1>1, <1>2, NewValues DEF CycleInv, RangeOK, Vals, Nonzero, Known
      <3>6. new \in Known
        <4>1. shape.field.kind \in DOMAIN KindOf
          BY <3>1 DEF Placed
        <4>2. Respelled(PriorOf(g), now) \in BOOLEAN /\ (Respelled(PriorOf(g), now) => PriorOf(g) = "A")
          BY DEF Respelled
        <4> QED
          BY <3>3, <3>4, <3>5, <4>1, <4>2, ReadValues
      <3>7. new # Null
        BY <3>1, <3>3, <3>4, OwnReads
      <3> QED
        BY <2>1, <3>6, <3>7 DEF Known, Unknown, Null, Zero
    <2> QED
      BY <1>3, <2>4, <2>5, <2>6, <2>7 DEF CycleInv
  <1> QED
    BY <1>4, <1>5

\* The invariant is inductive.
THEOREM CycleInvariant == Spec => []CycleInv
  <1>1. CycleInv /\ [Next]_vars => CycleInv'
    <2> SUFFICES ASSUME CycleInv, [Next]_vars PROVE CycleInv'
      OBVIOUS
    <2>1. CASE \E nudge \in BOOLEAN,
                  siblingChanges \in IF "sibling" \in shape.traits THEN BOOLEAN ELSE {FALSE} :
                 MakePlan(nudge, siblingChanges)
      BY <2>1, PlanStep
    <2>2. CASE Discard
      BY <2>2, DiscardStep
    <2>3. CASE \E c \in Configs(shape), d \in IF Composite THEN BOOLEAN ELSE {TRUE} :
                 Reconfigure(c, d)
      BY <2>3, ReconfigureStep
    <2>4. CASE \E v \in Holdings(shape) : AdminEdit(v)
      BY <2>4, EditStep
    <2>5. CASE \E adopts \in IF shape.mode = "adopt" THEN BOOLEAN ELSE {FALSE},
                  g \in Givens, filled \in Holdings(shape), quiet \in Quiets :
                 Apply(adopts, g, filled, quiet)
      BY <2>5, ApplyStep
    <2>6. CASE UNCHANGED vars
      BY <2>6 DEF vars, inputs, tf, CycleInv, TypeOK, RangeOK, TrackedOK, PlanOK, OwnOK,
        Planned, InSection, Composite, KeepEquivalentMACs, Modified, Replaces
    <2> QED
      BY <2>1, <2>2, <2>3, <2>4, <2>5, <2>6 DEF Next
  <1> QED
    BY CycleInit, <1>1, PTL DEF Spec

-----------------------------------------------------------------------------
(* The theorems.                                                             *)

\* Every variable keeps its type, and nothing Unknown enters state.
THEOREM TypeCorrect == Spec => []TypeOK
  <1>1. CycleInv => TypeOK
    BY DEF CycleInv
  <1> QED
    BY CycleInvariant, <1>1, PTL

\* An attribute comes out of an apply Unknown only where plan and answer are not merged.
LEMMA UnknownLeft ==
  ASSUME CycleInv, pc = "planned", NEW adopts \in BOOLEAN, NEW g \in Givens,
         NEW filled \in Holdings(shape), NEW quiet \in Quiets,
         NewOf(adopts, g, filled, quiet) = Unknown
  PROVE  shape.position \in {"list", "nested"} \/ quiet
  <1> DEFINE now   == NowOf(adopts, g, filled)
             prior == PriorOf(g)
             model == ToModel(shape.field, "a", Respelled(prior, now), now, prior)
             read  == IF ~quiet THEN model
                      ELSE IF "mergedWhole" \in shape.field.traits THEN Resolved(prior) ELSE Absent
  <1> SUFFICES ASSUME ~quiet, shape.position \notin {"list", "nested"} PROVE FALSE
    OBVIOUS
  <1>1. Placed(shape)
    BY ShapesPlaced DEF CycleInv, TypeOK
  <1>2. model \in Known
    <2>1. now \in {Absent, Zero, "a", "b"}
      BY NewValues DEF Holdings, Nonzero, Absent, Zero
    <2>2. prior \in Known \cup {Unknown}
      BY NewValues DEF CycleInv, RangeOK, Vals, Nonzero, Known
    <2>3. Respelled(prior, now) \in BOOLEAN /\ (Respelled(prior, now) => prior = "A")
      BY DEF Respelled
    <2> QED
      BY <1>1, <2>1, <2>2, <2>3, ReadValues DEF Placed
  <1>3. read = model /\ model # Unknown /\ model # Absent
    BY <1>2 DEF Known, Null, Zero, Unknown, Absent
  <1>4. ~LeavesSectionOut /\ Answered(now, prior, g, quiet) = Unknown
    BY DEF NewOf, Null, Unknown
  <1>5. Answered(now, prior, g, quiet) =
           IF Composite THEN model
           ELSE IF g = "whole" THEN CopyPlanToState(shape.position, shape.field, open, plan, read)
           ELSE IF read = Absent THEN Null ELSE read
    BY DEF Answered
  <1> HIDE DEF model, read
  <1>6. CopyPlanToState(shape.position, shape.field, open, plan, read) # Unknown
    BY <1>1, <1>3 DEF Placed, CopyPlanToState, SetInPlan, MergeMember, MergeScatteredMember
  <1> QED
    BY <1>3, <1>4, <1>5, <1>6

\* UnknownOnlyUnmerged: after an apply every attribute and every member has a known value, but
\* where the merge of plan and answer does not reach.
THEOREM UnknownOnlyWhereUnmerged == Spec => []UnknownOnlyUnmerged
  <1>1. Init => UnknownOnlyUnmerged
    BY DEF Init, UnknownOnlyUnmerged
  <1>2. CycleInv /\ UnknownOnlyUnmerged /\ [Next]_vars => UnknownOnlyUnmerged'
    <2> SUFFICES ASSUME CycleInv, UnknownOnlyUnmerged, [Next]_vars PROVE UnknownOnlyUnmerged'
      OBVIOUS
    <2>1. ASSUME NEW nudge \in BOOLEAN, NEW siblingChanges \in BOOLEAN, MakePlan(nudge, siblingChanges)
          PROVE  UnknownOnlyUnmerged'
      BY <2>1 DEF MakePlan, UnknownOnlyUnmerged
    <2>2. CASE Discard
      BY <2>2 DEF Discard, UnknownOnlyUnmerged, inputs
    <2>3. ASSUME NEW c, NEW d, Reconfigure(c, d) PROVE UnknownOnlyUnmerged'
      BY <2>3 DEF Reconfigure, UnknownOnlyUnmerged, inputs
    <2>4. ASSUME NEW v, AdminEdit(v) PROVE UnknownOnlyUnmerged'
      BY <2>4 DEF AdminEdit, UnknownOnlyUnmerged, inputs
    <2>5. ASSUME NEW adopts \in IF shape.mode = "adopt" THEN BOOLEAN ELSE {FALSE},
                 NEW g \in Givens, NEW filled \in Holdings(shape), NEW quiet \in Quiets,
                 Apply(adopts, g, filled, quiet)
          PROVE  UnknownOnlyUnmerged'
      <3>1. adopts \in BOOLEAN
        OBVIOUS
      <3>2. /\ pc = "planned" /\ silent' = quiet /\ shape' = shape
            /\ outcome' = "rejected" \/ outcome' = Verdict(NewOf(adopts, g, filled, quiet))
        <4>1. pc = "planned" /\ silent' = quiet /\ shape' = shape
          BY <2>5, ApplyEnds
        <4>2. CASE Refused(adopts, g)
          BY <2>5, <4>1, <4>2, ApplyEnds
        <4>3. CASE ~Refused(adopts, g)
          BY <2>5, <4>1, <4>3, ApplyEnds
        <4> QED
          BY <4>1, <4>2, <4>3
      <3>3. outcome' = "unknown" => NewOf(adopts, g, filled, quiet) = Unknown
        BY <3>2 DEF Verdict
      <3> QED
        BY <3>1, <3>2, <3>3, UnknownLeft DEF UnknownOnlyUnmerged
    <2>6. CASE UNCHANGED vars
      BY <2>6 DEF vars, inputs, UnknownOnlyUnmerged
    <2> QED
      BY <2>1, <2>2, <2>3, <2>4, <2>5, <2>6 DEF Next
  <1> QED
    BY CycleInvariant, <1>1, <1>2, PTL DEF Spec

-----------------------------------------------------------------------------
(* Refused zeros.                                                            *)

\* The number whose zero is kept out: an attribute refuses it, has not got it as its default, and
\* the check of OmitZero is not silent.
KeptOut == RefusesZero(shape) /\ "zeroDefault" \notin shape.traits /\ ~Unchecked(shape)

\* Such a number is zero nowhere.
ZeroFree ==
  /\ KeptOut =>
       held # Zero /\ state # Zero /\ plan # Zero /\ outcome # "rejected"
  /\ outcome = "rejected" => RefusesZero(shape)

\* It is not sent as one: not by the plan's value, and not for want of it.
LEMMA RefusedNotSent ==
  ASSUME CycleInv, ZeroFree, pc = "planned", NEW adopts \in BOOLEAN, NEW g \in Givens,
         KeptOut, ~LeavesSectionOut
  PROVE  Sent(adopts, g) # Zero
  <1> DEFINE K == KindOf[shape.field.kind]
             w == Encoded(g)
  <1>1. shape \in Shapes /\ Placed(shape)
    BY ShapesPlaced DEF CycleInv, TypeOK
  <1>2. /\ K.pointer /\ K.null = Unset /\ K.zero # "b" /\ "absentIsZero" \notin shape.field.traits
        /\ (K.unknown = Zero /\ (IsComputed(shape) \/ Composite) => "omit" \in shape.field.traits)
    BY <1>1, RefusedLeftOut DEF Composite, KeptOut
  <1>3. shape.field.kind \in PointerKinds
    BY <1>1, <1>2 DEF PointerKinds, Placed
  <1> HIDE DEF K
  <1>4. Working(g) \in {Null, plan, state} /\ Working(g) # Zero
    BY WorkingValues DEF ZeroFree, Null, Zero
  <1>5. plan = Unknown => IsComputed(shape) \/ Composite
    <2> SUFFICES ASSUME plan = Unknown, ~IsComputed(shape), ~Composite PROVE FALSE
      OBVIOUS
    <2>1. InSection /\ plan = Planned(state, creating, nudged, derived)
      BY DEF CycleInv, TrackedOK, PlanOK, InSection
    <2>2. cfg # Unknown /\ state # Unknown /\ DefaultOf(shape) # Unknown /\ Null # Unknown
      BY DEF CycleInv, TypeOK, Configs, Nonzero, Null, Zero, Unknown, DefaultOf
    <2> QED
      BY <2>1, <2>2 DEF Planned, KeepEquivalentMACs
  <1>6. state # Unknown
    BY DEF CycleInv, TypeOK, Unknown, Null, Zero
  <1>7. \A v \in {Null, plan, state} : v # Zero => ToSDK(shape.field, open, v) # Zero
    <2> TAKE v \in {Null, plan, state}
    <2> HAVE v # Zero
    <2>1. v = Unknown => K.unknown # Zero \/ "omit" \in shape.field.traits
      BY <1>2, <1>5, <1>6 DEF Null, Unknown
    <2>2. Unset # Zero /\ Null # Unknown
      BY DEF Unset, Zero, Null, Unknown
    <2> QED
      BY <1>2, <2>1, <2>2 DEF ToSDK, K
  <1>8. w # Zero
    BY <1>4, <1>7 DEF Encoded, Unset, Zero
  <1>9. ASSUME Named(g), shape.position = "top" PROVE w # Unset
    <2>1. SetInPlan(shape.field, open, plan)
      BY <1>1, <1>9 DEF Named, Placed, MemberTraits
    <2>2. g = "whole"
      BY <1>9 DEF Givens
    <2>3. Working(g) = plan
      BY <1>9, <2>1, <2>2 DEF Working, CopyPlanToState
    <2>4. plan \notin {Null, Unknown, Zero, Unset} /\ ~Closed(shape.field, open)
      BY <2>1 DEF SetInPlan, ZeroFree, CycleInv, RangeOK, Vals, Nonzero, Unset, Null, Unknown, Zero
    <2> QED
      BY <2>2, <2>3, <2>4 DEF Encoded, ToSDK
  <1> HIDE DEF w
  <1>10. NamedOnWire(w) = Zero => w = Unset /\ shape.position = "top"
    BY <1>3, <1>8 DEF NamedOnWire, Unset, Zero
  <1>11. OnWire(w) = w
    BY <1>3 DEF OnWire
  <1> QED
    BY <1>8, <1>9, <1>10, <1>11 DEF Sent, Masked, w, Unset, Zero

\* A read of what is not zero does not make one.
LEMMA NoZeroRead ==
  ASSUME shape \in Shapes, KeptOut,
         NEW raw, raw # Zero, NEW prior, prior # Zero
  PROVE  ToModel(shape.field, "a", Respelled(prior, raw), raw, prior) # Zero
  <1>1. KindOf[shape.field.kind].pointer /\ "absentIsZero" \notin shape.field.traits
    BY RefusedLeftOut, Zenon DEF KeptOut
  <1>2. Null # Zero /\ Unknown # Zero
    BY DEF Null, Zero, Unknown
  <1> QED
    BY <1>1, <1>2 DEF ToModel, Resolved

\* Every step keeps such a number from being zero.
LEMMA ZeroFreeStep == CycleInv /\ ZeroFree /\ [Next]_vars => ZeroFree'
  <1> SUFFICES ASSUME CycleInv, ZeroFree, [Next]_vars PROVE ZeroFree'
    OBVIOUS
  <1>0. shape \in Shapes
    BY DEF CycleInv, TypeOK
  <1>1. ASSUME NEW nudge \in BOOLEAN, NEW siblingChanges \in BOOLEAN, MakePlan(nudge, siblingChanges)
        PROVE  ZeroFree'
    <2>1. /\ shape' = shape /\ held' = held /\ outcome' = "none" /\ state' = Refreshed
          /\ plan' = Planned(state', creating', nudged', derived')
      BY <1>1 DEF MakePlan, inputs
    <2> SUFFICES ASSUME KeptOut
                 PROVE  state' # Zero /\ plan' # Zero
      BY <2>1 DEF ZeroFree, KeptOut
    <2>2. state' # Zero
      BY <1>0, <2>1, NoZeroRead DEF Refreshed, ZeroFree, Null, Zero
    <2>3. cfg # Zero /\ DefaultOf(shape) # Zero /\ Null # Zero /\ Unknown # Zero
      BY DEF KeptOut, RefusesZero, CycleInv, TypeOK, Configs, AcceptsZero, Nonzero, DefaultOf, Null, Zero, Unknown
    <2> QED
      BY <2>1, <2>2, <2>3 DEF Planned, KeepEquivalentMACs, Modified, UseStateUnlessSiblingChanges
  <1>2. CASE Discard
    BY <1>2 DEF Discard, ZeroFree, KeptOut, inputs, tf
  <1>3. ASSUME NEW c, NEW d, Reconfigure(c, d) PROVE ZeroFree'
    BY <1>3 DEF Reconfigure, ZeroFree, KeptOut, inputs, tf
  <1>4. ASSUME NEW v \in Holdings(shape), AdminEdit(v) PROVE ZeroFree'
    <2>1. RefusesZero(shape) => v # Zero
      BY DEF Holdings, Nonzero, Zero, Absent
    <2> QED
      BY <1>4, <2>1 DEF AdminEdit, ZeroFree, KeptOut, inputs, tf
  <1>5. ASSUME NEW adopts \in IF shape.mode = "adopt" THEN BOOLEAN ELSE {FALSE},
               NEW g \in Givens, NEW filled \in Holdings(shape), NEW quiet \in Quiets,
               Apply(adopts, g, filled, quiet)
        PROVE  ZeroFree'
    <2> DEFINE now == NowOf(adopts, g, filled)
               new == NewOf(adopts, g, filled, quiet)
    <2>1. adopts \in BOOLEAN /\ pc = "planned" /\ shape' = shape /\ plan' = plan
      BY <1>5, ApplyEnds
    <2>2. CASE Refused(adopts, g)
      <3>1. ~KeptOut
        BY <2>1, <2>2, RefusedNotSent DEF Refused
      <3> QED
        BY <2>1, <2>2, <3>1 DEF ZeroFree, KeptOut, Refused
    <2>3. CASE ~Refused(adopts, g)
      <3>1. /\ held' = now /\ outcome' = Verdict(new)
            /\ state' = IF new = Unknown THEN Null ELSE new
        BY <1>5, <2>3, ApplyEnds
      <3>2. outcome' # "rejected"
        BY <3>1 DEF Verdict
      <3> SUFFICES ASSUME KeptOut
                   PROVE  now # Zero /\ new # Zero
        BY <2>1, <3>1, <3>2 DEF ZeroFree, KeptOut, Null, Zero
      <3>3. filled # Zero
        BY DEF KeptOut, Holdings, Nonzero, Zero, Absent
      <3>4. now # Zero
        BY <2>1, <3>3, RefusedNotSent DEF now, NowOf, Stored, Canonical, ZeroFree, Zero
      <3>5. PriorOf(g) # Zero
        <4>1. PriorOf(g) \in {Null, plan, state}
          BY <2>1, NewValues
        <4> QED
          BY <4>1 DEF ZeroFree, Null, Zero
      <3>6. new # Zero
        <4> DEFINE model == ToModel(shape.field, "a", Respelled(PriorOf(g), now), now, PriorOf(g))
                   read  == IF ~quiet THEN model
                            ELSE IF "mergedWhole" \in shape.field.traits THEN Resolved(PriorOf(g))
                            ELSE Absent
        <4>1. model # Zero
          BY <1>0, <3>4, <3>5, NoZeroRead
        <4> HIDE DEF model
        <4>2. read # Zero
          BY <3>5, <4>1 DEF Resolved, Null, Zero, Absent
        <4> HIDE DEF read
        <4>3. CopyPlanToState(shape.position, shape.field, open, plan, read) # Zero
          <5>1. shape.position \in {"top", "object", "scattered", "nested", "list"}
            BY <1>0, ShapesPlaced DEF Placed
          <5> QED
            BY <4>2, <5>1, MergedEither DEF ZeroFree
        <4>4. Answered(now, PriorOf(g), g, quiet) \in
                {model, Null, read, CopyPlanToState(shape.position, shape.field, open, plan, read)}
          BY DEF Answered, model, read
        <4> QED
          BY <4>1, <4>2, <4>3, <4>4 DEF new, NewOf, Null, Zero
      <3> QED
        BY <3>4, <3>6
    <2> QED
      BY <2>2, <2>3
  <1>6. CASE UNCHANGED vars
    BY <1>6 DEF vars, inputs, tf, ZeroFree, KeptOut
  <1> QED
    BY <1>1, <1>2, <1>3, <1>4, <1>5, <1>6 DEF Next

\* RefusedZeroNotSent: no number goes out as a zero its attribute refuses, but the default of one,
\* and where an author left OmitZero off with the check of it silent.
THEOREM RefusedZeroKept == Spec => []RefusedZeroNotSent
  <1>1. Init => ZeroFree
    <2> SUFFICES ASSUME Init PROVE ZeroFree
      OBVIOUS
    <2>1. RefusesZero(shape) => held # Zero
      BY DEF Init, Holdings, Nonzero, Zero, Absent
    <2> QED
      BY <2>1 DEF Init, ZeroFree, KeptOut, Null, Zero
  <1>2. CycleInv /\ ZeroFree => RefusedZeroNotSent
    BY RefusedLeftOut, Zenon DEF ZeroFree, KeptOut, RefusedZeroNotSent, CycleInv, TypeOK
  <1> QED
    BY CycleInvariant, <1>1, <1>2, ZeroFreeStep, PTL DEF Spec

-----------------------------------------------------------------------------
(* Applies that Terraform core refuses.                                      *)

\* A read of what was read is the same.
LEMMA ReadTwice ==
  ASSUME NEW f, f.kind \in DOMAIN KindOf, NEW raw \in {Absent, Zero, "a", "b"}, NEW prior \in Known
  PROVE  LET m == ToModel(f, "a", Respelled(prior, raw), raw, prior)
         IN  ToModel(f, "a", Respelled(m, raw), raw, m) = m
  <1> DEFINE m == ToModel(f, "a", Respelled(prior, raw), raw, prior)
             plainly == CASE raw = Absent -> IF "absentIsZero" \in f.traits THEN Zero
                            ELSE IF KindOf[f.kind].pointer \/ "absentIsNull" \in f.traits
                            THEN Null ELSE Blank(f, "a")
                          [] raw = Zero   -> Blank(f, "a")
                          [] OTHER        -> raw
  <1>1. m \in Known /\ (m = "A" => prior = "A")
    <2>1. Respelled(prior, raw) \in BOOLEAN /\ (Respelled(prior, raw) => prior = "A")
      BY DEF Respelled
    <2> QED
      BY <2>1, ReadValues
  <1>2. \A respelled, p :
          ToModel(f, "a", respelled, raw, p) =
            IF "keepPrior" \in f.traits /\ respelled THEN p
            ELSE IF "keepNull" \in f.traits /\ p = Null THEN Null
            ELSE IF "merged" \in f.traits /\ (raw = Absent \/ (raw = Zero /\ f.kind = "value"))
            THEN Resolved(p)
            ELSE IF "carried" \in f.traits /\ raw \in {Absent, Zero} /\ p \notin {Null, Unknown, Zero}
            THEN p ELSE plainly
    BY DEF ToModel
  <1> HIDE DEF plainly
  <1>3. Resolved(prior) = prior /\ Resolved(m) = m
    BY <1>1 DEF Resolved, Known, Null, Unknown, Zero
  <1>4. m = IF "keepPrior" \in f.traits /\ Respelled(prior, raw) THEN prior
            ELSE IF "keepNull" \in f.traits /\ prior = Null THEN Null
            ELSE IF "merged" \in f.traits /\ (raw = Absent \/ (raw = Zero /\ f.kind = "value"))
            THEN prior
            ELSE IF "carried" \in f.traits /\ raw \in {Absent, Zero} /\ prior \notin {Null, Unknown, Zero}
            THEN prior ELSE plainly
    BY <1>2, <1>3
  <1>5. ToModel(f, "a", Respelled(m, raw), raw, m) =
            IF "keepPrior" \in f.traits /\ Respelled(m, raw) THEN m
            ELSE IF "keepNull" \in f.traits /\ m = Null THEN m
            ELSE IF "merged" \in f.traits /\ (raw = Absent \/ (raw = Zero /\ f.kind = "value"))
            THEN m
            ELSE IF "carried" \in f.traits /\ raw \in {Absent, Zero} /\ m \notin {Null, Unknown, Zero}
            THEN m ELSE plainly
    BY <1>2, <1>3
  <1>6. m = "A" \/ Respelled(m, raw) = FALSE
    BY DEF Respelled
  <1>7. CASE m = prior
    BY <1>4, <1>5, <1>7
  <1>8. CASE m # prior
    BY <1>4, <1>5, <1>8
  <1> QED
    BY <1>7, <1>8

\* A plan that no edit came after is made of what the controller still holds, and has no outcome.
SeenOK ==
  pc = "planned" => outcome = "none" /\ (~raced => state = Refreshed)

\* There is no plan to begin with.
LEMMA SeenInit == Init => SeenOK
  BY DEF Init, SeenOK

\* A plan is made of a refresh, and only an edit changes what is held under it.
LEMMA SeenStep == CycleInv /\ SeenOK /\ [Next]_vars => SeenOK'
  <1> SUFFICES ASSUME CycleInv, SeenOK, [Next]_vars PROVE SeenOK'
    OBVIOUS
  <1>1. ASSUME NEW nudge \in BOOLEAN, NEW siblingChanges \in BOOLEAN, MakePlan(nudge, siblingChanges)
        PROVE  SeenOK'
    <2>1. /\ UNCHANGED <<shape, held, managed, tracked>> /\ state' = Refreshed /\ outcome' = "none"
      BY <1>1 DEF MakePlan, inputs
    <2>2. Refreshed' = IF managed /\ (Composite => tracked)
                       THEN ToModel(shape.field, "a", Respelled(state', held), held, state') ELSE Null
      BY <2>1 DEF Refreshed, Composite
    <2>3. CASE managed /\ (Composite => tracked)
      <3>1. shape.field.kind \in DOMAIN KindOf
        BY ShapesPlaced DEF CycleInv, TypeOK, Placed
      <3>2. held \in {Absent, Zero, "a", "b"} /\ state \in Known
        BY DEF CycleInv, TypeOK, Holdings, Nonzero, Absent, Zero, Known
      <3>3. state' = ToModel(shape.field, "a", Respelled(state, held), held, state)
        BY <2>1, <2>3 DEF Refreshed
      <3> QED
        BY <2>1, <2>2, <2>3, <3>1, <3>2, <3>3, ReadTwice DEF SeenOK
    <2>4. CASE ~(managed /\ (Composite => tracked))
      BY <2>1, <2>2, <2>4 DEF SeenOK, Refreshed
    <2> QED
      BY <2>3, <2>4
  <1>2. CASE Discard
    BY <1>2 DEF Discard, SeenOK
  <1>3. ASSUME NEW c, NEW d, Reconfigure(c, d) PROVE SeenOK'
    BY <1>3 DEF Reconfigure, SeenOK
  <1>4. ASSUME NEW v, AdminEdit(v) PROVE SeenOK'
    <2>1. pc' = pc /\ outcome' = outcome /\ raced' = (raced \/ pc = "planned")
      BY <1>4 DEF AdminEdit
    <2> QED
      BY <2>1 DEF SeenOK
  <1>5. ASSUME NEW adopts, NEW g, NEW filled, NEW quiet, Apply(adopts, g, filled, quiet)
        PROVE  SeenOK'
    BY <1>5 DEF Apply, SeenOK
  <1>6. CASE UNCHANGED vars
    BY <1>6 DEF vars, inputs, tf, SeenOK, Refreshed, Composite
  <1> QED
    BY <1>1, <1>2, <1>3, <1>4, <1>5, <1>6 DEF Next

\* The three ways in which an apply of a known plan may end with something else.
RefusedFor(new) ==
  \/ plan = Null /\ \/ new \notin {Null, Zero}
                    \/ IsComputed(shape) /\ (Composite \/ raced)
                    \/ Composite /\ raced
  \/ Composite /\ plan = Zero /\ new = Null
  \/ ~Writable /\ (raced \/ plan # Null)

\* What is planned as null in the configuration is an attribute nobody gives: where it is not
\* Computed, nothing reads as its zero.
LEMMA PlannedNull ==
  ASSUME CycleInv, pc = "planned", Top, InSection, plan = Null
  PROVE  /\ cfg = Null /\ ~HasDefault(shape)
         /\ IsComputed(shape) => ~creating /\ ~derived /\ state = Null
         /\ ~IsComputed(shape) =>
              \A raw \in {Absent, Zero, "a", "b"} : \A prior \in Known :
                ToModel(shape.field, "a", Respelled(prior, raw), raw, prior) # Zero
  <1>1. plan = Planned(state, creating, nudged, derived) /\ (derived => nudged /\ "sibling" \in shape.traits)
    BY DEF CycleInv, PlanOK
  <1>2. KeepEquivalentMACs(state) = Null => cfg = Null
    BY DEF KeepEquivalentMACs
  <1>3. cfg = Null
    BY <1>1, <1>2 DEF Planned
  <1>4. ~HasDefault(shape)
    BY <1>1, <1>3 DEF Planned, DefaultOf, Null, Zero
  <1>5. ASSUME IsComputed(shape) PROVE ~creating /\ ~derived /\ state = Null
    <2>1. ~creating
      BY <1>1, <1>3, <1>4, <1>5 DEF Planned, Null, Unknown
    <2>2. IF nudged THEN Modified(state, derived) = Null ELSE state = Null
      BY <1>1, <1>3, <1>4, <1>5, <2>1 DEF Planned
    <2> QED
      BY <1>1, <2>1, <2>2 DEF Modified, UseStateUnlessSiblingChanges, Null, Unknown
  <1>6. ASSUME ~IsComputed(shape), NEW raw \in {Absent, Zero, "a", "b"}, NEW prior \in Known
        PROVE  ToModel(shape.field, "a", Respelled(prior, raw), raw, prior) # Zero
    <2>1. Placed(shape) /\ OptionalReadsNull(shape)
      BY ShapesPlaced, OptionalElides DEF CycleInv, TypeOK
    <2>2. shape.presence \in {"optional", "block"}
      BY <1>3, <1>6, <2>1 DEF Placed, IsComputed, CycleInv, TypeOK, Configs, Nonzero, Null, Zero
    <2>3. Blank(shape.field, "a") # Zero
      BY <1>4, <2>1, <2>2 DEF OptionalReadsNull, Top
    <2>4. "merged" \notin shape.field.traits /\ "absentIsZero" \notin shape.field.traits
      BY <2>1 DEF Placed, MemberTraits, Top
    <2>5. Null # Zero /\ (Respelled(prior, raw) => prior # Zero)
      BY DEF Null, Zero, Respelled
    <2> QED
      BY <1>6, <2>3, <2>4, <2>5 DEF ToModel
  <1> QED
    BY <1>3, <1>4, <1>5, <1>6

-----------------------------------------------------------------------------
(* What an apply sends.                                                      *)

\* An attribute that may be written.
LEMMA WritableIsOpen == Writable => ~Closed(shape.field, open)
  BY DEF Writable, Closed, ReadOnly

\* A value that is neither zero nor null is sent as it is, wherever the attribute is.
LEMMA SentValue ==
  ASSUME CycleInv, Writable, plan \in {"a", "b", "A"}, NEW adopts, NEW g \in Givens
  PROVE  Sent(adopts, g) = plan
  <1>1. plan \notin {Null, Unknown, Zero, Unset}
    BY DEF Null, Unknown, Zero, Unset
  <1>2. SetInPlan(shape.field, open, plan)
    BY <1>1, WritableIsOpen DEF SetInPlan
  <1>3. g = "whole"
    BY <1>1 DEF Givens
  <1>4. shape.position \in {"top", "object", "scattered", "nested", "list"}
    BY ShapesPlaced DEF CycleInv, TypeOK, Placed
  <1>5. CopyPlanToState(shape.position, shape.field, open, plan, state) = plan
    BY <1>1, <1>2, <1>4 DEF CopyPlanToState, MergeMember, MergeScatteredMember
  <1>6. Working(g) = plan
    BY <1>3, <1>5 DEF Working
  <1>7. Encoded(g) = plan
    BY <1>1, <1>3, <1>6, WritableIsOpen DEF Encoded, ToSDK
  <1>8. OnWire(plan) = plan /\ NamedOnWire(plan) = plan
    BY <1>1 DEF OnWire, NamedOnWire
  <1>9. Named(g) /\ g # "none"
    BY <1>2, <1>3 DEF Named
  <1> QED
    BY <1>7, <1>8, <1>9 DEF Sent, Masked

\* A zero is sent under a mask.
LEMMA SentZero ==
  ASSUME CycleInv, Writable, Top, plan = Zero, NEW adopts, NEW g \in Givens, ~PlainCreate(adopts)
  PROVE  Sent(adopts, g) = Zero
  <1>1. SetInPlan(shape.field, open, plan)
    BY WritableIsOpen DEF SetInPlan, Null, Zero, Unknown
  <1>2. g = "whole"
    BY DEF Givens, Top
  <1>3. Working(g) = Zero
    BY <1>1, <1>2 DEF Working, CopyPlanToState, Top
  <1>4. KindOf[shape.field.kind].zero \in {Unset, Zero}
    <2>1. shape.field.kind \in DOMAIN KindOf \ MemberKinds
      BY ShapesPlaced DEF CycleInv, TypeOK, Placed, Top
    <2> QED
      BY <2>1, KindsType, TopKinds DEF Kind
  <1>5. Encoded(g) \in {Unset, Zero}
    BY <1>2, <1>3, <1>4 DEF Encoded, ToSDK, Null, Zero, Unknown
  <1>6. NamedOnWire(Encoded(g)) = Zero
    BY <1>5 DEF NamedOnWire, Top
  <1> QED
    BY <1>1, <1>2, <1>6 DEF Sent, Masked, Named, Top

\* An attribute that the plan does not set is not in the mask.
LEMMA SentNothing ==
  ASSUME CycleInv, Top, ~SetInPlan(shape.field, open, plan), NEW adopts, NEW g, ~PlainCreate(adopts)
  PROVE  Sent(adopts, g) = Unset
  <1>1. "whole" \notin shape.field.traits
    BY ShapesPlaced DEF CycleInv, TypeOK, Placed, MemberTraits, Top
  <1> QED
    BY <1>1 DEF Sent, Masked, Named, Top

\* What an attribute of its own is after an apply: what was planned, where that is laid over the
\* answer, and else what is read.
LEMMA TopNew ==
  ASSUME CycleInv, Top, ~LeavesSectionOut, NEW adopts, NEW g \in Givens, NEW filled, NEW quiet \in Quiets
  PROVE  LET now   == NowOf(adopts, g, filled)
             prior == PriorOf(g)
             set   == SetInPlan(shape.field, open, plan) IN
         /\ now = Stored(adopts, g, filled)
         /\ prior = IF creating \/ (Composite /\ plan # Unknown) \/ (~Composite /\ set)
                    THEN plan ELSE state
         /\ NewOf(adopts, g, filled, quiet) =
              IF ~Composite /\ set THEN plan
              ELSE ToModel(shape.field, "a", Respelled(prior, now), now, prior)
  <1>1. g = "whole" /\ ~quiet
    BY DEF Givens, Quiets, Top
  <1> QED
    BY <1>1 DEF NowOf, NewOf, PriorOf, Working, Answered, CopyPlanToState, Top

\* Terraform core refuses an apply only in three ways.
LEMMA RefusedOnlyUnset ==
  ASSUME CycleInv, SeenOK, pc = "planned", Top, creating \/ nudged \/ plan # state,
         NEW adopts \in BOOLEAN, NEW g \in Givens, NEW filled \in Holdings(shape), NEW quiet \in Quiets,
         plan # Unknown, NewOf(adopts, g, filled, quiet) # plan
  PROVE  RefusedFor(NewOf(adopts, g, filled, quiet))
  <1> DEFINE now   == NowOf(adopts, g, filled)
             prior == PriorOf(g)
             new   == NewOf(adopts, g, filled, quiet)
             set   == SetInPlan(shape.field, open, plan)
  <1>1. shape \in Shapes /\ Placed(shape)
    BY ShapesPlaced DEF CycleInv, TypeOK
  <1>2. now \in {Absent, Zero, "a", "b"}
    BY NewValues DEF Holdings, Nonzero, Absent, Zero
  <1>3. state \in Known /\ plan \in Known /\ held \in {Absent, Zero, "a", "b"}
    BY DEF CycleInv, TypeOK, Known, Holdings, Nonzero, Absent, Zero
  <1>4. plan = Planned(state, creating, nudged, derived) /\ (derived => nudged /\ "sibling" \in shape.traits)
        /\ creating = (~managed \/ tainted \/ Replaces(state))
    BY DEF CycleInv, PlanOK
  <1>5. ~LeavesSectionOut
    <2> SUFFICES ASSUME LeavesSectionOut PROVE FALSE
      OBVIOUS
    <2>1. new = Null
      BY DEF NewOf
    <2>2. ~InSection
      BY DEF LeavesSectionOut, InSection
    <2>3. plan \in {Null, Unknown} \/ (plan = state /\ ~nudged /\ ~creating)
      BY <1>4, <2>2 DEF Planned, LeavesSectionOut
    <2> QED
      BY <2>1, <2>3
  <1>6. /\ now = Stored(adopts, g, filled)
        /\ prior = IF creating \/ (Composite /\ plan # Unknown) \/ (~Composite /\ set)
                    THEN plan ELSE state
        /\ new = IF ~Composite /\ set THEN plan
                 ELSE ToModel(shape.field, "a", Respelled(prior, now), now, prior)
    BY <1>5, TopNew
  <1>7. Composite => ~PlainCreate(adopts)
    BY DEF PlainCreate, Composite
  <1> HIDE DEF now, prior, new, set
  <1>8. CASE plan = Null
    <2>0. ~set
      BY <1>8 DEF set, SetInPlan
    <2> SUFFICES ASSUME new = Zero, ~(IsComputed(shape) /\ (Composite \/ raced)), ~(Composite /\ raced)
                 PROVE  FALSE
      BY <1>8 DEF RefusedFor, new
    <2>1. new = ToModel(shape.field, "a", Respelled(prior, now), now, prior)
      BY <1>6, <2>0
    <2>2. CASE InSection
      <3>1. IsComputed(shape)
        <4> SUFFICES ASSUME ~IsComputed(shape) PROVE FALSE
          OBVIOUS
        <4>1. prior \in Known
          BY <1>3, <1>6
        <4> QED
          BY <1>2, <1>8, <2>1, <2>2, <4>1, PlannedNull
      <3>2. ~creating /\ ~derived /\ state = Null
        BY <1>8, <2>2, <3>1, PlannedNull
      <3>3. ~Composite /\ ~raced
        BY <3>1
      <3>4. ~PlainCreate(adopts) /\ Sent(adopts, g) = Unset
        BY <2>0, <3>2, SentNothing DEF PlainCreate, set
      <3>5. now = held
        BY <1>1, <1>6, <3>2, <3>4 DEF Stored, Top
      <3>6. state = Refreshed /\ managed
        BY <1>4, <3>2, <3>3 DEF SeenOK
      <3>7. prior = state
        BY <1>6, <1>8, <3>2
      <3> QED
        BY <1>8, <2>1, <3>3, <3>5, <3>6, <3>7, <3>2 DEF Refreshed, Null, Zero
    <2>3. CASE ~InSection
      <3>1. Composite /\ ~declared /\ tracked /\ ~creating /\ ~raced /\ ~derived
        BY <1>1, <1>4, <1>5, <2>3 DEF InSection, LeavesSectionOut, Placed, Composite
      <3>2. plan = state
        BY <1>4, <1>5, <2>3, <3>1 DEF Planned, LeavesSectionOut, Null, Unknown
      <3>3. Sent(adopts, g) = Unset
        BY <1>7, <2>0, <3>1, SentNothing DEF set
      <3>4. now = held
        BY <1>1, <1>6, <1>7, <3>1, <3>3 DEF Stored, Top
      <3>5. state = Refreshed /\ managed
        BY <3>1 DEF SeenOK, CycleInv, TrackedOK
      <3>6. prior = state
        BY <1>6, <3>2
      <3> QED
        BY <1>8, <2>1, <3>1, <3>2, <3>4, <3>5, <3>6 DEF Refreshed, Null, Zero
    <2> QED
      BY <2>2, <2>3
  <1>9. CASE plan # Null
    <2> SUFFICES ASSUME Writable, ~(Composite /\ plan = Zero /\ new = Null)
                 PROVE  FALSE
      BY <1>9 DEF RefusedFor, new
    <2>1. set
      BY <1>9, WritableIsOpen DEF set, SetInPlan
    <2>2. Composite /\ prior = plan
      BY <1>6, <2>1 DEF new
    <2>3. new = ToModel(shape.field, "a", Respelled(plan, now), now, plan)
      BY <1>6, <2>2
    <2>4. /\ "merged" \notin shape.field.traits /\ "carried" \notin shape.field.traits
          /\ "keepNull" \notin shape.field.traits /\ "readDefault" \notin shape.field.traits
          /\ "absentIsZero" \notin shape.field.traits
      BY <1>1, <2>2 DEF Placed, MemberTraits, Top, Composite
    <2>5. CASE plan = Zero
      <3>1. now = Zero
        BY <1>6, <1>7, <2>2, <2>5, SentZero DEF Stored, Canonical, Zero, Unset
      <3>2. Blank(shape.field, "a") \in {Null, Zero}
        <4>1. KindOf[shape.field.kind].blank \in {Zero, Null}
          BY <1>1, KindsType DEF Placed, Kind
        <4> QED
          BY <2>4, <4>1 DEF Blank
      <3>3. new \in {Null, Zero}
        <4>1. Respelled(plan, now) = FALSE
          BY <2>5 DEF Respelled, Zero
        <4> QED
          BY <2>3, <2>4, <2>5, <3>1, <3>2, <4>1 DEF ToModel, Zero, Absent
      <3> QED
        BY <2>2, <2>5, <3>3 DEF new
    <2>6. CASE plan # Zero
      <3>1. plan \in {"a", "b", "A"}
        BY <1>3, <1>9, <2>6 DEF Known
      <3>2. now = Canonical(plan)
        BY <1>6, <3>1, SentValue DEF Stored, Unset
      <3>3. plan = "A" => "keepPrior" \in shape.field.traits /\ Respelled(plan, now)
        BY <3>2 DEF CycleInv, RangeOK, Respelled, Canonical
      <3>4. plan # "A" => Respelled(plan, now) = FALSE /\ now = plan
        BY <3>2 DEF Respelled, Canonical
      <3>5. new = plan
        BY <1>9, <2>3, <2>4, <3>1, <3>3, <3>4 DEF ToModel, Absent, Zero
      <3> QED
        BY <3>5 DEF new
    <2> QED
      BY <2>5, <2>6
  <1> QED
    BY <1>8, <1>9

\* OnlyUnsetIsRefused: Terraform core refuses the result of an apply only where the plan holds
\* null and the controller a value, where a section reads a zero back as null, and where what was
\* planned is not written.
THEOREM OnlyUnsetRefused == Spec => []OnlyUnsetIsRefused
  <1>1. Init => OnlyUnsetIsRefused
    BY DEF Init, OnlyUnsetIsRefused
  <1>2. CycleInv /\ SeenOK /\ OnlyUnsetIsRefused /\ [Next]_vars => OnlyUnsetIsRefused'
    <2> SUFFICES ASSUME CycleInv, SeenOK, OnlyUnsetIsRefused, [Next]_vars PROVE OnlyUnsetIsRefused'
      OBVIOUS
    <2>1. ASSUME NEW nudge \in BOOLEAN, NEW siblingChanges \in BOOLEAN, MakePlan(nudge, siblingChanges)
          PROVE  OnlyUnsetIsRefused'
      BY <2>1 DEF MakePlan, OnlyUnsetIsRefused
    <2>2. CASE Discard
      BY <2>2 DEF Discard, inputs, tf, OnlyUnsetIsRefused, Top, Composite, Writable
    <2>3. ASSUME NEW c, NEW d, Reconfigure(c, d) PROVE OnlyUnsetIsRefused'
      BY <2>3 DEF Reconfigure, inputs, tf, OnlyUnsetIsRefused, Top, Composite, Writable
    <2>4. ASSUME NEW v, AdminEdit(v) PROVE OnlyUnsetIsRefused'
      BY <2>4 DEF AdminEdit, inputs, tf, SeenOK, OnlyUnsetIsRefused, Top, Composite, Writable
    <2>5. ASSUME NEW adopts \in IF shape.mode = "adopt" THEN BOOLEAN ELSE {FALSE},
                 NEW g \in Givens, NEW filled \in Holdings(shape), NEW quiet \in Quiets,
                 Apply(adopts, g, filled, quiet)
          PROVE  OnlyUnsetIsRefused'
      <3> DEFINE new == NewOf(adopts, g, filled, quiet)
      <3>1. /\ adopts \in BOOLEAN /\ pc = "planned" /\ (creating \/ nudged \/ plan # state)
            /\ UNCHANGED <<shape, open, plan, raced>>
        BY <2>5, ApplyEnds
      <3> SUFFICES ASSUME outcome' = "inconsistent", Top PROVE RefusedFor(state')
        BY <3>1 DEF RefusedFor, OnlyUnsetIsRefused, Top, Composite, Writable
      <3>2. outcome' = Verdict(new) /\ state' = IF new = Unknown THEN Null ELSE new
        <4>1. CASE Refused(adopts, g)
          BY <2>5, <4>1, ApplyEnds
        <4>2. CASE ~Refused(adopts, g)
          BY <2>5, <4>2, ApplyEnds
        <4> QED
          BY <4>1, <4>2
      <3>3. state' = new /\ plan # Unknown /\ new # plan
        BY <3>2 DEF Verdict
      <3>4. RefusedFor(new)
        BY <3>1, <3>3, RefusedOnlyUnset
      <3> QED
        BY <3>3, <3>4
    <2>6. CASE UNCHANGED vars
      BY <2>6 DEF vars, inputs, tf, OnlyUnsetIsRefused, Top, Composite, Writable
    <2> QED
      BY <2>1, <2>2, <2>3, <2>4, <2>5, <2>6 DEF Next
  <1> QED
    BY CycleInvariant, SeenInit, SeenStep, <1>1, <1>2, PTL DEF Spec

-----------------------------------------------------------------------------
(* Convergence.                                                              *)

\* What has been settled by the applies that succeeded since the configuration or the controller
\* changed: by one, any value but a zero; by a second, a zero too, which a create may not send.
SettledOK ==
  applies >= 1 =>
    /\ managed /\ ~tainted
    /\ InSection /\ Writable =>
         /\ tracked
         /\ Wanted \notin {Null, Zero} =>
              /\ held = Canonical(Wanted)
              /\ Top => \/ state = Wanted
                        \/ "macs" \in shape.traits /\ Canonical(state) = Canonical(Wanted)
         /\ Top /\ Wanted = Zero /\ applies = 2 /\ "replace" \notin shape.traits =>
              held = Zero /\ (~ZeroReadsElse => state = Zero)
         /\ Top /\ Wanted = Null /\ ~IsComputed(shape) => state = Null /\ Refreshed = Null

\* What is asked for is of the attribute's type, and what is planned, but for the spelling of an
\* address.
LEMMA PlannedWanted ==
  ASSUME CycleInv, pc = "planned", InSection
  PROVE  /\ Wanted \in {Null, Zero, "a", "b", "A"}
         /\ Wanted # Null => \/ plan = Wanted
                             \/ "macs" \in shape.traits /\ Canonical(plan) = Canonical(Wanted)
         /\ Wanted = Null /\ ~IsComputed(shape) => plan = Null
  <1>1. plan = Planned(state, creating, nudged, derived)
    BY DEF CycleInv, PlanOK
  <1>2. Wanted \in {Null, Zero, "a", "b", "A"}
    BY DEF Wanted, DefaultOf, CycleInv, TypeOK, Configs, Nonzero
  <1>3. CASE cfg # Null
    BY <1>1, <1>2, <1>3 DEF Wanted, Planned, KeepEquivalentMACs
  <1>4. CASE cfg = Null
    BY <1>1, <1>2, <1>4 DEF Wanted, Planned
  <1> QED
    BY <1>3, <1>4

\* A refresh leaves what is settled as it is.
LEMMA SettledRefresh ==
  ASSUME CycleInv, SettledOK, Top, InSection, Writable, applies >= 1
  PROVE  /\ Wanted \notin {Null, Zero} =>
              \/ Refreshed = Wanted
              \/ "macs" \in shape.traits /\ Canonical(Refreshed) = Canonical(Wanted)
         /\ Wanted = Zero /\ applies = 2 /\ "replace" \notin shape.traits /\ ~ZeroReadsElse =>
              Refreshed = Zero
  <1>1. Refreshed = ToModel(shape.field, "a", Respelled(state, held), held, state)
    BY DEF SettledOK, Refreshed
  <1>2. Placed(shape)
    BY ShapesPlaced DEF CycleInv, TypeOK
  <1>3. /\ "merged" \notin shape.field.traits /\ "carried" \notin shape.field.traits
        /\ "keepNull" \notin shape.field.traits
    BY <1>2 DEF Placed, MemberTraits, Top
  <1>4. ASSUME Wanted \notin {Null, Zero}
        PROVE  \/ Refreshed = Wanted
               \/ "macs" \in shape.traits /\ Canonical(Refreshed) = Canonical(Wanted)
    <2>1. Wanted \in {"a", "b", "A"}
      BY <1>4 DEF Wanted, DefaultOf, CycleInv, TypeOK, Configs, Nonzero
    <2>2. held = Canonical(Wanted) /\ held \in {"a", "b"} /\ Canonical(state) = Canonical(Wanted)
      BY <1>4, <2>1 DEF SettledOK, Canonical
    <2>3. state = "A" \/ state = held
      BY <2>1, <2>2 DEF Canonical
    <2>4. Refreshed = state
      <3>1. state = "A" => "keepPrior" \in shape.field.traits /\ Respelled(state, held)
        BY <2>2 DEF CycleInv, RangeOK, Respelled, Canonical
      <3>2. state # "A" => Respelled(state, held) = FALSE /\ state = held
        BY <2>3 DEF Respelled
      <3> QED
        BY <1>1, <1>3, <2>2, <3>1, <3>2 DEF ToModel, Absent, Zero
    <2> QED
      BY <1>4, <2>4 DEF SettledOK
  <1>5. ASSUME Wanted = Zero, applies = 2, "replace" \notin shape.traits, ~ZeroReadsElse
        PROVE  Refreshed = Zero
    <2>1. held = Zero /\ state = Zero
      BY <1>5 DEF SettledOK
    <2>2. Respelled(state, held) = FALSE
      BY <2>1 DEF Respelled, Zero
    <2>3. ToModel(shape.field, "a", FALSE, Zero, Null) = Zero
      BY <1>5 DEF ZeroReadsElse
    <2>4. \A p : ToModel(shape.field, "a", FALSE, Zero, p) = Blank(shape.field, "a")
      BY <1>3 DEF ToModel, Zero, Absent
    <2> QED
      BY <1>1, <2>1, <2>2, <2>3, <2>4
  <1> QED
    BY <1>4, <1>5

\* A successful apply settles what was asked for.
LEMMA SettledApply ==
  ASSUME CycleInv, SettledOK, NEW adopts \in IF shape.mode = "adopt" THEN BOOLEAN ELSE {FALSE},
         NEW g \in Givens, NEW filled \in Holdings(shape), NEW quiet \in Quiets,
         Apply(adopts, g, filled, quiet)
  PROVE  SettledOK'
  <1> DEFINE now   == NowOf(adopts, g, filled)
             prior == PriorOf(g)
             new   == NewOf(adopts, g, filled, quiet)
  <1>1. /\ adopts \in BOOLEAN /\ pc = "planned"
        /\ UNCHANGED <<shape, open, cfg, declared, plan, creating>>
    BY ApplyEnds
  <1> SUFFICES ASSUME applies' >= 1 PROVE SettledOK'
    BY DEF SettledOK
  <1>2. ~Refused(adopts, g)
    <2> SUFFICES ASSUME Refused(adopts, g) PROVE FALSE
      OBVIOUS
    <2>1. applies' = 0
      BY ApplyEnds
    <2> QED
      BY <2>1
  <1>3. /\ held' = now /\ outcome' = Verdict(new)
        /\ state' = IF new = Unknown THEN Null ELSE new
        /\ managed' = TRUE /\ tainted' = (creating /\ outcome' # "ok")
        /\ tracked' = ~LeavesSectionOut
        /\ applies' = IF outcome' = "ok" /\ ~raced
                      THEN IF applies = 2 THEN 2 ELSE applies + 1 ELSE 0
    BY <1>2, ApplyEnds
  <1>4. outcome' = "ok" /\ managed' /\ ~tainted' /\ (applies' = 2 => applies >= 1)
    BY <1>3 DEF CycleInv, TypeOK
  <1>5. new # Unknown /\ state' = new /\ (plan # Unknown => new = plan)
    BY <1>3, <1>4 DEF Verdict
  <1> SUFFICES ASSUME InSection, Writable
               PROVE  /\ tracked'
                      /\ Wanted \notin {Null, Zero} =>
                           /\ now = Canonical(Wanted)
                           /\ Top => \/ new = Wanted
                                     \/ "macs" \in shape.traits /\ Canonical(new) = Canonical(Wanted)
                      /\ Top /\ Wanted = Zero /\ applies' = 2 /\ "replace" \notin shape.traits =>
                           now = Zero /\ new = Zero
                      /\ Top /\ Wanted = Null /\ ~IsComputed(shape) => new = Null /\ Refreshed' = Null
    <2>1. /\ InSection' = InSection /\ Writable' = Writable /\ Wanted' = Wanted /\ Top' = Top
          /\ ZeroReadsElse' = ZeroReadsElse /\ shape' = shape
      BY <1>1 DEF InSection, Composite, Writable, Wanted, Top, ZeroReadsElse
    <2>2. held' = now /\ state' = new
      BY <1>3, <1>5
    <2> HIDE DEF now, new
    <2> QED
      BY <1>4, <2>1, <2>2 DEF SettledOK
  <1>6. ~LeavesSectionOut /\ tracked'
    BY <1>3 DEF LeavesSectionOut, InSection
  <1>7. now = Stored(adopts, g, filled)
    BY <1>6 DEF NowOf
  <1>8. /\ Wanted \in {Null, Zero, "a", "b", "A"}
        /\ Wanted # Null => \/ plan = Wanted
                            \/ "macs" \in shape.traits /\ Canonical(plan) = Canonical(Wanted)
        /\ Wanted = Null /\ ~IsComputed(shape) => plan = Null
    BY <1>1, PlannedWanted
  <1> HIDE DEF now, new
  <1>9. ASSUME Wanted \notin {Null, Zero}
        PROVE  /\ now = Canonical(Wanted)
               /\ new = Wanted \/ ("macs" \in shape.traits /\ Canonical(new) = Canonical(Wanted))
    <2>1. plan \in {"a", "b", "A"} /\ Canonical(plan) = Canonical(Wanted)
      BY <1>8, <1>9 DEF Canonical
    <2>2. Sent(adopts, g) = plan
      BY <2>1, SentValue
    <2> QED
      BY <1>5, <1>7, <1>8, <1>9, <2>1, <2>2 DEF Stored, Unset, Unknown, Null
  <1>10. ASSUME Top, Wanted = Zero, applies' = 2, "replace" \notin shape.traits
         PROVE  now = Zero /\ new = Zero
    <2>1. plan = Zero
      BY <1>8, <1>10 DEF Canonical, Null, Zero
    <2>2. ~creating
      BY <1>1, <1>4, <1>10 DEF SettledOK, CycleInv, PlanOK, Replaces
    <2>3. Sent(adopts, g) = Zero
      BY <1>10, <2>1, <2>2, SentZero DEF PlainCreate
    <2> QED
      BY <1>5, <1>7, <2>1, <2>3 DEF Stored, Canonical, Unset, Unknown, Zero
  <1>11. ASSUME Top, Wanted = Null, ~IsComputed(shape)
         PROVE  new = Null /\ Refreshed' = Null
    <2>1. plan = Null /\ new = Null /\ state' = Null
      BY <1>5, <1>8, <1>11 DEF Null, Unknown
    <2>2. /\ prior \in {plan, state}
          /\ new = ToModel(shape.field, "a", Respelled(prior, now), now, prior)
      BY <1>6, <1>11, <2>1, TopNew DEF SetInPlan, now, new
    <2>3. prior \in Known
      BY <2>1, <2>2 DEF CycleInv, TypeOK, Known
    <2>4. now \in {Absent, Zero, "a", "b"}
      BY <1>1, NewValues DEF now, Holdings, Nonzero, Absent, Zero
    <2>5. shape.field.kind \in DOMAIN KindOf
      BY ShapesPlaced DEF CycleInv, TypeOK, Placed
    <2>6. ToModel(shape.field, "a", Respelled(Null, now), now, Null) = Null
      BY <2>1, <2>2, <2>3, <2>4, <2>5, ReadTwice
    <2>7. Refreshed' = ToModel(shape.field, "a", Respelled(state', held'), held', state')
      BY <1>1, <1>4, <1>6 DEF Refreshed, Composite
    <2> QED
      BY <1>3, <2>1, <2>6, <2>7
  <1> QED
    BY <1>6, <1>9, <1>10, <1>11

\* Every step keeps what is settled, or starts the count over.
LEMMA SettledStep == CycleInv /\ SeenOK /\ SettledOK /\ [Next]_vars => SettledOK'
  <1> SUFFICES ASSUME CycleInv, SeenOK, SettledOK, [Next]_vars PROVE SettledOK'
    OBVIOUS
  <1>1. ASSUME NEW nudge \in BOOLEAN, NEW siblingChanges \in BOOLEAN, MakePlan(nudge, siblingChanges)
        PROVE  SettledOK'
    <2>1. /\ UNCHANGED <<shape, open, cfg, declared, held, managed, tainted, tracked, applies>>
          /\ state' = Refreshed
      BY <1>1 DEF MakePlan, inputs
    <2> SUFFICES ASSUME applies >= 1 PROVE SettledOK'
      BY <2>1 DEF SettledOK
    <2> SUFFICES ASSUME InSection, Writable
                 PROVE  Top =>
                   /\ Wanted \notin {Null, Zero} =>
                         \/ state' = Wanted
                         \/ "macs" \in shape.traits /\ Canonical(state') = Canonical(Wanted)
                   /\ Wanted = Zero /\ applies = 2 /\ "replace" \notin shape.traits /\ ~ZeroReadsElse =>
                         state' = Zero
                   /\ Wanted = Null /\ ~IsComputed(shape) => state' = Null /\ Refreshed' = Null
      BY <2>1 DEF SettledOK, InSection, Composite, Writable, Wanted, Top, ZeroReadsElse
    <2>2. ASSUME Top, Wanted = Null, ~IsComputed(shape) PROVE state' = Null /\ Refreshed' = Null
      <3>1. state = Null /\ Refreshed = Null
        BY <2>2 DEF SettledOK
      <3>2. Refreshed' = Refreshed
        BY <2>1, <3>1 DEF Refreshed, Composite
      <3> QED
        BY <2>1, <3>1, <3>2
    <2> QED
      BY <2>1, <2>2, SettledRefresh
  <1>2. CASE Discard
    BY <1>2 DEF Discard, inputs, tf, SettledOK, InSection, Composite, Writable, Wanted, Top,
      ZeroReadsElse, Refreshed
  <1>3. ASSUME NEW c, NEW d, Reconfigure(c, d) PROVE SettledOK'
    <2>1. applies' = 0
      BY <1>3 DEF Reconfigure
    <2> QED
      BY <2>1 DEF SettledOK
  <1>4. ASSUME NEW v, AdminEdit(v) PROVE SettledOK'
    <2>1. applies' = 0
      BY <1>4 DEF AdminEdit
    <2> QED
      BY <2>1 DEF SettledOK
  <1>5. ASSUME NEW adopts \in IF shape.mode = "adopt" THEN BOOLEAN ELSE {FALSE},
               NEW g \in Givens, NEW filled \in Holdings(shape), NEW quiet \in Quiets,
               Apply(adopts, g, filled, quiet)
        PROVE  SettledOK'
    BY <1>5, SettledApply
  <1>6. CASE UNCHANGED vars
    BY <1>6 DEF vars, inputs, tf, SettledOK, InSection, Composite, Writable, Wanted, Top,
      ZeroReadsElse, Refreshed
  <1> QED
    BY <1>1, <1>2, <1>3, <1>4, <1>5, <1>6 DEF Next

\* What is settled is planned as it is, and held as it was asked for.
LEMMA SettledConverges == CycleInv /\ SettledOK => Converges
  <1> SUFFICES ASSUME CycleInv, SettledOK, InSection, Writable, Converging,
                      ~("replace" \in shape.traits /\ Wanted = Zero)
               PROVE  /\ Top /\ pc = "planned" /\ ~nudged /\ ~ZeroReadsElse => plan = state
                      /\ Wanted # Null /\ (Top \/ Wanted # Zero) => held = Canonical(Wanted)
    BY DEF Converges
  <1>1. applies >= 1 /\ (Wanted = Zero => applies = 2) /\ managed /\ ~tainted
    BY DEF Converging, SettledOK
  <1>2. Wanted # Null /\ (Top \/ Wanted # Zero) => held = Canonical(Wanted)
    BY <1>1 DEF SettledOK, Canonical, Zero
  <1>3. ASSUME Top, pc = "planned", ~nudged, ~ZeroReadsElse
        PROVE  plan = state
    <2>1. Wanted = Zero => state = Zero
      BY <1>1, <1>3 DEF SettledOK
    <2>2. Wanted \notin {Null, Zero} =>
            state = Wanted \/ ("macs" \in shape.traits /\ Canonical(state) = Canonical(Wanted))
      BY <1>1, <1>3 DEF SettledOK
    <2>3. Wanted = Null /\ ~IsComputed(shape) => state = Null
      BY <1>1, <1>3 DEF SettledOK
    <2>4. plan = Planned(state, creating, nudged, derived) /\ creating = Replaces(state)
      BY <1>1, <1>3 DEF CycleInv, PlanOK, Replaces, TypeOK
    <2>5. "macs" \in shape.traits => ~HasDefault(shape) /\ "replace" \notin shape.traits
      BY ShapesPlaced DEF CycleInv, TypeOK, Placed
    <2>6. CASE cfg # Null
      <3>1. Wanted = cfg
        BY <2>6 DEF Wanted
      <3>2. CASE "macs" \in shape.traits
        <4>1. ~creating
          BY <2>4, <2>5, <3>2 DEF Replaces
        <4>2. plan = KeepEquivalentMACs(state)
          BY <2>4, <2>6, <3>2, <4>1 DEF Planned
        <4>3. Canonical(state) = Canonical(cfg)
          BY <2>1, <2>2, <2>6, <3>1
        <4>4. state # Null
          BY <2>6, <4>3 DEF Canonical, CycleInv, TypeOK, Configs, Nonzero, Null, Zero
        <4> QED
          BY <4>2, <4>3, <4>4 DEF KeepEquivalentMACs
      <3>3. CASE "macs" \notin shape.traits
        BY <2>1, <2>2, <2>4, <2>6, <3>1, <3>3 DEF Planned
      <3> QED
        BY <3>2, <3>3
    <2>7. CASE cfg = Null /\ HasDefault(shape)
      <3>1. plan = DefaultOf(shape) /\ Wanted = plan
        BY <2>4, <2>7 DEF Planned, Wanted
      <3>2. plan # Null
        BY <3>1 DEF DefaultOf, Null, Zero
      <3> QED
        BY <2>1, <2>2, <2>5, <2>7, <3>1, <3>2
    <2>8. CASE cfg = Null /\ ~HasDefault(shape)
      <3>1. Wanted = Null /\ ~creating
        BY <2>4, <2>8 DEF Wanted, Replaces
      <3> QED
        BY <1>3, <2>3, <2>4, <2>8, <3>1 DEF Planned
    <2> QED
      BY <2>6, <2>7, <2>8
  <1> QED
    BY <1>2, <1>3

\* Converges: once an apply has succeeded, and for a zero a second, the next plan asks for
\* nothing and the controller holds what was asked for.
THEOREM PlansConverge == Spec => []Converges
  <1>1. Init => SettledOK
    BY DEF Init, SettledOK
  <1> QED
    BY CycleInvariant, SeenInit, SeenStep, <1>1, SettledStep, SettledConverges, PTL DEF Spec

-----------------------------------------------------------------------------
(* What nobody configured.                                                   *)

\* What is accepted in the place of what is served says nothing of its own that this did not.
LEMMA ShapesKept ==
  ASSUME NEW sh \in Shapes
  PROVE  KeptAsRead(sh)
  <1>1. CASE sh \in Followed
    BY <1>1, ShapesAssumption
  <1>2. CASE sh \notin Followed
    <2>1. PICK x \in Followed :
           /\ HasElide(x) /\ sh.position = x.position
           /\ \A t : t \notin {"null", "omit"} => (t \in sh.field.traits <=> t \in x.field.traits)
      BY <1>2, ShapesMade
    <2>2. sh.position = "top" /\ "readDefault" \notin sh.field.traits
      BY <2>1 DEF HasElide
    <2>3. Placed(sh)
      BY ShapesPlaced
    <2>4. /\ "carried" \notin sh.field.traits /\ "keepNull" \notin sh.field.traits
          /\ "whole" \notin sh.field.traits
      BY <2>2, <2>3 DEF Placed, MemberTraits
    <2> QED
      BY <2>2, <2>4 DEF KeptAsRead
  <1> QED
    BY <1>1, <1>2

\* But for what the provider makes itself, nothing stands in for a value.
LEMMA PlainKinds ==
  \A k \in DOMAIN KindOf \ {"inferred", "generated"} :
    {KindOf[k].null, KindOf[k].unknown, KindOf[k].zero} \subseteq {Unset, Zero}
  <1>1. \A k \in DOMAIN KindOf \ MemberKinds :
          {KindOf[k].null, KindOf[k].unknown, KindOf[k].zero} \subseteq {Unset, Zero}
    BY KindsType, TopKinds DEF Kind
  <1>2. /\ \A o : Value(o).null = Unset /\ Value(o).unknown = Unset /\ Value(o).zero = Zero
        /\ \A o : Pointer(o).null = Unset /\ Pointer(o).unknown = Unset /\ Pointer(o).zero = Zero
    BY DEF Value, Pointer
  <1>3. /\ BareMember.null = Unset /\ BareMember.unknown = Zero /\ BareMember.zero = Zero
        /\ EmptiedMember.null = Zero /\ EmptiedMember.unknown = Zero /\ EmptiedMember.zero = Zero
        /\ ElidedMember.null = Unset /\ ElidedMember.unknown = Unset /\ ElidedMember.zero = Unset
    BY DEF BareMember, EmptiedMember, ElidedMember, Pointer, Value
  <1>4. \A k \in MemberKinds \ {"inferred", "generated"} :
          {KindOf[k].null, KindOf[k].unknown, KindOf[k].zero} \subseteq {Unset, Zero}
    BY <1>2, <1>3 DEF MemberKinds, KindOf, ValueMember, PointerMember
  <1> QED
    BY <1>1, <1>4

\* A value that is neither a Bool nor a list is dropped where it is zero.
DropsOK == shape.field.kind = "value" /\ shape.type \notin {"Bool"} \cup Lists => drops

\* No step changes the attribute, or what is dropped of it.
LEMMA DropsAlways == Spec => []DropsOK
  <1>1. Init => DropsOK
    BY DEF Init, DropsOK
  <1>2. DropsOK /\ [Next]_vars => DropsOK'
    <2> SUFFICES ASSUME [Next]_vars PROVE UNCHANGED <<shape, drops>>
      BY DEF DropsOK
    <2>1. ASSUME NEW nudge, NEW siblingChanges, MakePlan(nudge, siblingChanges)
          PROVE  UNCHANGED <<shape, drops>>
      BY <2>1 DEF MakePlan, inputs
    <2>2. CASE Discard
      BY <2>2 DEF Discard, inputs
    <2>3. ASSUME NEW c, NEW d, Reconfigure(c, d) PROVE UNCHANGED <<shape, drops>>
      BY <2>3 DEF Reconfigure, inputs
    <2>4. ASSUME NEW v, AdminEdit(v) PROVE UNCHANGED <<shape, drops>>
      BY <2>4 DEF AdminEdit, inputs
    <2>5. ASSUME NEW adopts, NEW g, NEW filled, NEW quiet, Apply(adopts, g, filled, quiet)
          PROVE  UNCHANGED <<shape, drops>>
      BY <2>5, ApplyEnds
    <2>6. CASE UNCHANGED vars
      BY <2>6 DEF vars, inputs
    <2> QED
      BY <2>1, <2>2, <2>3, <2>4, <2>5, <2>6 DEF Next
  <1> QED
    BY <1>1, <1>2, PTL DEF Spec

\* Nobody gives it: not the configuration, and not the schema.
NotGiven == ~InSection \/ (cfg = Null /\ ~HasDefault(shape))

\* What nobody gives is planned as null, as Unknown, or as what it was read as.
LEMMA NotGivenPlanned ==
  ASSUME CycleInv, pc = "planned", NotGiven, ~creating, ~derived, nudged \/ plan # state,
         ~LeavesSectionOut
  PROVE  /\ plan \in {Null, Unknown, state}
         /\ plan = Unknown => InSection /\ IsComputed(shape) /\ "stable" \notin shape.traits
         /\ plan # Null /\ "readDefault" \in shape.field.traits => plan = Unknown
         /\ "carried" \in shape.field.traits => shape.field.kind = "generated"
  <1>1. /\ plan = Planned(state, creating, nudged, derived) /\ state # Unknown
        /\ KeptAsRead(shape) /\ Placed(shape)
    BY ShapesKept, ShapesPlaced DEF CycleInv, PlanOK, TypeOK, Unknown, Null, Zero
  <1>2. CASE ~InSection
    <2>1. Composite /\ shape.section = "kept" /\ tracked
      BY <1>2 DEF InSection, LeavesSectionOut
    <2>2. plan = state
      BY <1>1, <1>2, <2>1 DEF Planned
    <2> QED
      BY <1>1, <2>1, <2>2 DEF Placed, KeptAsRead, Composite
  <1>3. CASE InSection
    <2>1. cfg = Null /\ ~HasDefault(shape)
      BY <1>3 DEF NotGiven
    <2>2. plan = IF ~IsComputed(shape) THEN Null
                 ELSE IF nudged THEN Modified(state, derived) ELSE state
      BY <1>1, <1>3, <2>1 DEF Planned
    <2>3. Modified(state, derived) =
            IF \/ "sibling" \in shape.traits \/ "stable" \in shape.traits
               \/ "stableNonNull" \in shape.traits /\ state # Null
            THEN state ELSE Unknown
      BY DEF Modified, UseStateUnlessSiblingChanges
    <2>4. shape.presence # "required"
      BY <2>1 DEF CycleInv, TypeOK, Configs, Nonzero, Null, Zero
    <2>5. "carried" \in shape.field.traits => shape.field.kind = "generated"
      BY <1>1, <2>4 DEF KeptAsRead
    <2>6. plan \in {Null, Unknown, state}
      BY <2>2, <2>3
    <2>7. plan = Unknown => IsComputed(shape) /\ "stable" \notin shape.traits
      BY <1>1, <2>2, <2>3 DEF Null, Unknown
    <2>8. ASSUME plan # Null, "readDefault" \in shape.field.traits PROVE plan = Unknown
      <3>1. /\ "stable" \notin shape.traits /\ "stableNonNull" \notin shape.traits
            /\ "sibling" \notin shape.traits
        BY <1>1, <2>8 DEF KeptAsRead
      <3>2. nudged
        BY <2>2, <2>8
      <3> QED
        BY <2>2, <2>3, <2>8, <3>1, <3>2
    <2> QED
      BY <1>3, <2>5, <2>6, <2>7, <2>8
  <1> QED
    BY <1>2, <1>3

\* What was read means what is held, unless it was made of a default or kept from before.
LEMMA ReadMeansHeld ==
  ASSUME CycleInv, SeenOK, pc = "planned", ~raced, ~creating, Composite => tracked,
         "carried" \notin shape.field.traits, "merged" \notin shape.field.traits \/ state = Null,
         "readDefault" \notin shape.field.traits \/ state = Null,
         "keepNull" \notin shape.field.traits \/ state # Null
  PROVE  Meaning(state) = Meaning(held)
  <1>1. managed /\ state = Refreshed
    BY DEF SeenOK, CycleInv, PlanOK
  <1>2. state = ToModel(shape.field, "a", Respelled(state, held), held, state)
    BY <1>1 DEF Refreshed
  <1>3. held \in {Absent, Zero, "a", "b"} /\ state \in Known
    BY DEF CycleInv, TypeOK, Holdings, Nonzero, Absent, Zero, Known
  <1>4. Blank(shape.field, "a") \in {Null, Zero} \/ "readDefault" \in shape.field.traits
    <2>1. KindOf[shape.field.kind].blank \in {Zero, Null}
      BY ShapesPlaced, KindsType DEF CycleInv, TypeOK, Placed, Kind
    <2> QED
      BY <2>1 DEF Blank
  <1>5. CASE Respelled(state, held)
    BY <1>5 DEF Respelled, Meaning, Canonical, Absent, Zero
  <1>6. CASE ~Respelled(state, held)
    <2>1. CASE held \in {Absent, Zero}
      <3>1. state \in {Null, Zero}
        BY <1>2, <1>3, <1>4, <1>6, <2>1 DEF ToModel, Resolved, Null, Zero, Absent
      <3> QED
        BY <2>1, <3>1 DEF Meaning, Canonical, Null, Zero, Absent
    <2>2. CASE held \notin {Absent, Zero}
      <3>1. state = held
        BY <1>2, <1>3, <1>6, <2>2 DEF ToModel
      <3> QED
        BY <3>1
    <2> QED
      BY <2>1, <2>2
  <1> QED
    BY <1>5, <1>6

\* An apply writes what nobody gives only to put back what the plan read, or to clear a member of
\* an object that is written whole.
LEMMA OnlyPutBack ==
  ASSUME CycleInv, SeenOK, DropsOK, pc = "planned", NotGiven, ~creating, ~derived,
         nudged \/ plan # state, shape.position # "list",
         shape.field.kind \notin {"inferred", "generated"},
         NEW adopts, NEW g \in Givens, NEW filled
  PROVE  LET now == NowOf(adopts, g, filled) IN
         \/ Meaning(now) = Meaning(held)
         \/ (raced \/ "merged" \in shape.field.traits) /\ Meaning(now) = Meaning(state)
         \/ ~Top /\ Meaning(now) = Null /\ plan = Null /\ state # Null
  <1> DEFINE K   == KindOf[shape.field.kind]
             now == NowOf(adopts, g, filled)
             s   == Sent(adopts, g)
             set == SetInPlan(shape.field, open, plan)
  <1>1. Placed(shape) /\ KeptAsRead(shape)
    BY ShapesPlaced, ShapesKept DEF CycleInv, TypeOK
  <1>2. K.null \in {Unset, Zero} /\ K.unknown \in {Unset, Zero} /\ K.zero \in {Unset, Zero}
    BY <1>1, PlainKinds DEF Placed
  <1>3. ~PlainCreate(adopts)
    BY DEF PlainCreate
  <1>4. state \in Known
    BY DEF CycleInv, TypeOK, Known
  <1> HIDE DEF K
  <1> SUFFICES ASSUME now # held
               PROVE  \/ Meaning(now) = Meaning(held)
                      \/ (raced \/ "merged" \in shape.field.traits) /\ Meaning(now) = Meaning(state)
                      \/ ~Top /\ Meaning(now) = Null /\ plan = Null /\ state # Null
    OBVIOUS
  <1>5. ~LeavesSectionOut /\ now = Stored(adopts, g, filled)
    BY DEF NowOf
  <1> HIDE DEF now
  <1>6. s # Unset /\ now = Canonical(s)
    BY <1>3, <1>5 DEF Stored
  <1>7. /\ plan \in {Null, Unknown, state}
        /\ plan = Unknown => InSection /\ IsComputed(shape) /\ "stable" \notin shape.traits
        /\ plan # Null /\ "readDefault" \in shape.field.traits => plan = Unknown
        /\ "carried" \notin shape.field.traits
    BY <1>5, NotGivenPlanned
  <1>8. s = IF shape.position = "object"
            THEN IF g = "none" THEN Unset ELSE OnWire(Encoded(g))
            ELSE IF Named(g) THEN NamedOnWire(Encoded(g)) ELSE Unset
    BY <1>3 DEF Sent, Masked
  <1>9. g # "none" /\ Encoded(g) = ToSDK(shape.field, open, Working(g))
    BY <1>6, <1>8 DEF Encoded, Named
  <1> HIDE DEF s
  \* Where state is written again, what the plan read is put back.
  <1>10. ASSUME Working(g) = state PROVE Meaning(now) = Meaning(state) \/ s = Unset
    <2>1. CASE state \in {Null, Zero}
      <3>1. Encoded(g) \in {Unset, Zero}
        BY <1>2, <1>9, <1>10, <2>1 DEF ToSDK, K, Null, Zero, Unknown
      <3>2. s \in {Unset, Zero}
        BY <1>8, <3>1 DEF OnWire, NamedOnWire
      <3> QED
        BY <1>6, <2>1, <3>2 DEF Meaning, Canonical, Null, Zero, Absent
    <2>2. CASE state \notin {Null, Zero}
      <3>1. state \in {"a", "b", "A"}
        BY <1>4, <2>2 DEF Known
      <3>2. Encoded(g) \in {Unset, state}
        BY <1>9, <1>10, <3>1 DEF ToSDK, Null, Zero, Unknown
      <3>3. CASE Encoded(g) = state
        <4>1. s \in {Unset, state}
          BY <1>8, <3>1, <3>3 DEF OnWire, NamedOnWire, Unset, Zero
        <4> QED
          BY <1>6, <3>1, <4>1 DEF Meaning, Canonical, Zero, Absent
      <3>4. CASE Encoded(g) = Unset
        <4>1. Closed(shape.field, open)
          BY <1>9, <1>10, <3>1, <3>4 DEF ToSDK, Null, Zero, Unknown, Unset
        <4>2. "readOnly" \in shape.field.traits \/ "gated" \in shape.field.traits
          BY <4>1 DEF Closed, ReadOnly
        <4>3. shape.position # "object" /\ ~Named(g)
          BY <1>1, <4>1, <4>2 DEF KeptAsRead, Named, SetInPlan
        <4> QED
          BY <1>8, <4>3
      <3> QED
        BY <3>2, <3>3, <3>4
    <2> QED
      BY <2>1, <2>2
  \* What was read is what is held, unless somebody changed it.
  <1>11. ASSUME Meaning(now) = Meaning(state), Composite => tracked,
                "readDefault" \notin shape.field.traits \/ state = Null,
                "keepNull" \notin shape.field.traits \/ state # Null
         PROVE  \/ Meaning(now) = Meaning(held)
                \/ (raced \/ "merged" \in shape.field.traits) /\ Meaning(now) = Meaning(state)
    BY <1>7, <1>11, ReadMeansHeld
  \* A null in the place of null clears nothing.
  <1>12. ~Closed(shape.field, open)
    <2>1. shape.position \in {"object", "scattered", "nested"} \/ shape.position = "top"
      BY <1>1 DEF Placed
    <2>2. "whole" \in shape.field.traits \/ shape.position = "object" =>
            "readOnly" \notin shape.field.traits /\ "gated" \notin shape.field.traits
      BY <1>1 DEF KeptAsRead
    <2>3. Closed(shape.field, open) => ~set
      BY DEF SetInPlan
    <2>4. shape.position # "object" => Named(g)
      BY <1>6, <1>8
    <2> QED
      BY <2>2, <2>3, <2>4 DEF Named, Closed, ReadOnly
  <1>13. CASE set
    <2>1. plan = state /\ state # Null
      BY <1>7, <1>13 DEF SetInPlan
    <2>2. g = "whole"
      BY <1>13 DEF Givens, SetInPlan
    <2>3. Working(g) = state
      BY <1>1, <2>1, <2>2, MergedEither DEF Placed, Working
    <2>4. tracked
      BY <2>1 DEF CycleInv, TrackedOK
    <2>5. "readDefault" \notin shape.field.traits
      BY <1>7, <1>13, <2>1 DEF SetInPlan
    <2> QED
      BY <1>6, <1>10, <1>11, <2>1, <2>3, <2>4, <2>5
  <1>14. CASE ~set
    <2>1. plan \in {Null, Unknown}
      BY <1>12, <1>14 DEF SetInPlan
    <2>2. shape.position = "object" \/ "whole" \in shape.field.traits
      BY <1>6, <1>8, <1>14 DEF Named
    <2>3. ~Top /\ "readDefault" \notin shape.field.traits
      BY <1>1, <2>2 DEF Placed, KeptAsRead, MemberTraits, Top
    <2>4. shape.position \in {"object", "scattered", "nested"}
      BY <1>1, <2>3 DEF Placed, Top
    <2>5. Composite => shape.position = "object" /\ InSection
      <3> SUFFICES ASSUME Composite PROVE shape.position = "object" /\ InSection
        OBVIOUS
      <3>1. shape.position = "object" /\ shape.section # "kept"
        BY <1>1, <2>4 DEF KeptAsRead, Composite
      <3> QED
        BY <1>5, <3>1 DEF LeavesSectionOut, InSection
    \* A section does not write the members of an object that nobody gives.
    <2>6. ~Composite
      <3> SUFFICES ASSUME Composite PROVE FALSE
        OBVIOUS
      <3>1. cfg = Null /\ ~HasDefault(shape) /\ shape.position = "object"
        BY <2>5 DEF NotGiven
      <3>2. shape.presence # "required"
        BY <3>1 DEF CycleInv, TypeOK, Configs, Nonzero, Null, Zero
      <3>3. shape.field.kind = "value" /\ shape.type \notin {"Bool"} \cup Lists
        BY <1>1, <3>1, <3>2 DEF KeptAsRead, Composite
      <3>4. drops
        BY <3>3 DEF DropsOK
      <3>5. shape.field.kind \notin PointerKinds /\ K.null = Unset /\ K.unknown = Unset
        BY <3>3 DEF PointerKinds, K, KindOf, ValueMember, Value
      <3>6. Working(g) \in {Null, Unknown}
        BY <2>1 DEF Working
      <3>7. Encoded(g) = Unset
        <4>1. CASE Working(g) = Null
          BY <1>9, <3>5, <4>1 DEF ToSDK, K, Null, Unknown, Zero
        <4>2. CASE Working(g) = Unknown
          BY <1>9, <3>5, <4>2 DEF ToSDK, K, Null, Unknown, Zero
        <4> QED
          BY <3>6, <4>1, <4>2
      <3> QED
        BY <1>6, <1>8, <3>1, <3>4, <3>5, <3>7 DEF OnWire
    <2>7. Working(g) \in {state, Null} /\ (Working(g) # state => plan = Null)
      <3>1. CASE plan = Null
        BY <1>1, <2>6, <3>1, MergedEither DEF Placed, Working
      <3>2. CASE plan = Unknown
        <4>1. "whole" \notin shape.field.traits
          BY <1>1, <1>7, <2>6, <3>2 DEF KeptAsRead, NotGiven
        <4>2. shape.position = "object"
          BY <2>2, <4>1
        <4>3. state # Absent
          BY <1>4 DEF Known, Absent, Null, Zero
        <4>4. CopyPlanToState(shape.position, shape.field, open, plan, state) = state
          BY <3>2, <4>2, <4>3 DEF CopyPlanToState, MergeMember
        <4>5. Working(g) = state
          BY <2>6, <4>4 DEF Working
        <4> QED
          BY <4>5
      <3> QED
        BY <2>1, <3>1, <3>2
    <2>8. CASE Working(g) = state /\ ~(state = Null /\ "keepNull" \in shape.field.traits)
      BY <1>6, <1>10, <1>11, <2>3, <2>6, <2>8
    <2>9. CASE Working(g) = Null
      <3>1. Encoded(g) \in {Unset, Zero} /\ (Encoded(g) = Unset \/ K.null = Zero)
        BY <1>2, <1>9, <1>12, <2>9 DEF ToSDK, K, Null, Unknown, Zero
      <3>2. s = Zero
        BY <1>6, <1>8, <3>1 DEF OnWire, NamedOnWire
      <3>3. Meaning(now) = Null
        BY <1>6, <3>2 DEF Meaning, Canonical, Zero
      <3>4. CASE state # Null
        <4>1. plan = Null
          BY <2>7, <2>9, <3>4
        <4> QED
          BY <2>3, <3>3, <3>4, <4>1
      <3>5. CASE state = Null
        <4>1. "keepNull" \notin shape.field.traits
          <5> SUFFICES ASSUME "keepNull" \in shape.field.traits PROVE FALSE
            OBVIOUS
          <5>1. shape.position = "scattered" /\ K.pointer /\ K.null = Unset
            BY <1>1 DEF KeptAsRead, K
          <5>2. Encoded(g) = Unset
            BY <3>1, <5>1 DEF Unset, Zero
          <5>3. shape.field.kind \in PointerKinds
            BY <1>1, <5>1 DEF PointerKinds, Placed, K
          <5> QED
            BY <1>6, <1>8, <5>1, <5>2, <5>3 DEF NamedOnWire
        <4>2. Meaning(now) = Meaning(state)
          BY <3>3, <3>5 DEF Meaning, Canonical, Null, Absent, Zero
        <4> QED
          BY <1>11, <2>3, <2>6, <4>1, <4>2
      <3> QED
        BY <3>4, <3>5
    <2> QED
      BY <2>7, <2>8, <2>9
  <1> QED
    BY <1>13, <1>14

\* UnsetIsOnlyPutBack: an update gives what nobody configured another value only to put back
\* what the plan read, or to clear a member of an object that is written whole.
THEOREM UnsetOnlyPutBack == Spec => UnsetIsOnlyPutBack
  <1>1. CycleInv /\ SeenOK /\ DropsOK /\ [Next]_vars =>
          [shape.position # "list" /\ shape.field.kind \notin {"inferred", "generated"}
             /\ pc = "planned" /\ pc' = "idle" /\ ~creating /\ ~derived
             /\ (~InSection \/ (cfg = Null /\ ~HasDefault(shape)))
             => \/ Meaning(held') = Meaning(held)
                \/ (raced \/ "merged" \in shape.field.traits) /\ Meaning(held') = Meaning(state)
                \/ ~Top /\ Meaning(held') = Null /\ plan = Null /\ state # Null]_vars
    <2> SUFFICES ASSUME CycleInv, SeenOK, DropsOK, Next,
                        shape.position # "list", shape.field.kind \notin {"inferred", "generated"},
                        pc = "planned", pc' = "idle", ~creating, ~derived, NotGiven
                 PROVE  \/ Meaning(held') = Meaning(held)
                        \/ (raced \/ "merged" \in shape.field.traits) /\ Meaning(held') = Meaning(state)
                        \/ ~Top /\ Meaning(held') = Null /\ plan = Null /\ state # Null
      BY DEF NotGiven
    <2>1. ASSUME NEW nudge, NEW siblingChanges, MakePlan(nudge, siblingChanges) PROVE FALSE
      BY <2>1 DEF MakePlan
    <2>2. CASE Discard
      BY <2>2 DEF Discard
    <2>3. ASSUME NEW c, NEW d, Reconfigure(c, d) PROVE FALSE
      BY <2>3 DEF Reconfigure
    <2>4. ASSUME NEW v, AdminEdit(v) PROVE FALSE
      BY <2>4 DEF AdminEdit
    <2>5. ASSUME NEW adopts, NEW g \in Givens, NEW filled, NEW quiet,
                 Apply(adopts, g, filled, quiet)
          PROVE  \/ Meaning(held') = Meaning(held)
                 \/ (raced \/ "merged" \in shape.field.traits) /\ Meaning(held') = Meaning(state)
                 \/ ~Top /\ Meaning(held') = Null /\ plan = Null /\ state # Null
      <3>1. nudged \/ plan # state
        BY <2>5, ApplyEnds
      <3>2. CASE Refused(adopts, g)
        BY <2>5, <3>2, ApplyEnds
      <3>3. CASE ~Refused(adopts, g)
        <4>1. held' = NowOf(adopts, g, filled)
          BY <2>5, <3>3, ApplyEnds
        <4> QED
          BY <3>1, <4>1, OnlyPutBack
      <3> QED
        BY <3>2, <3>3
    <2> QED
      BY <2>1, <2>2, <2>3, <2>4, <2>5 DEF Next
  <1> QED
    BY CycleInvariant, SeenInit, SeenStep, DropsAlways, <1>1, PTL DEF Spec, UnsetIsOnlyPutBack
============
