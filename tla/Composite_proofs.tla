--------------------------- MODULE Composite_proofs ---------------------------
(***************************************************************************)
(* Proofs about Composite, for any sections, documents and attributes, any *)
(* order of writing, any configurations and any number of edits.           *)
(***************************************************************************)
EXTENDS Composite, Subsequences_proofs

-----------------------------------------------------------------------------
(* The inductive invariant.                                                 *)

Writing == {"write", "put"}

\* What is in flight: an apply has a configuration, a refresh has the state for its prior model.
PhaseOK ==
  /\ phase = "idle" => config = Null
  /\ phase # "idle" => outcome = "none"
  /\ phase \in Writing => config # Null
  /\ phase = "read" /\ config = Null => state # NoState /\ prior = state
  /\ phase = "read" => \A d \in ToSet(todo) : SectionOf[d] \in prior.claims

\* The document of a planned attribute is there once it has been written.
PresentOK ==
  \A a \in Attrs : prior.set[a] # Null =>
    /\ phase \in Writing => DocOf[a] \in present \cup ToSet(todo)
    /\ phase = "read" => DocOf[a] \in present \cup (IF config = Null THEN ZeroIfAbsent ELSE {})

\* A planned attribute is as planned once its document has been written.
WrittenOK ==
  undisturbed /\ config # Null =>
    \A a \in Attrs : prior.set[a] # Null =>
      stored[a] = prior.set[a] \/ (phase \in Writing /\ DocOf[a] \in ToSet(todo))

\* Every document the read is past, and that could be read, is in the model.
ReadOK ==
  phase = "read" =>
    \A a \in Attrs :
      Sec(a) \in prior.claims /\ DocOf[a] \in (present \cup ZeroIfAbsent) \ ToSet(todo) =>
        /\ undisturbed => model[a] = Decode(a)
        /\ a \notin NullZero => model[a] # Null

\* The model has nothing but what this read found.
ModelOK ==
  \A a \in Attrs : model[a] # Null =>
    /\ phase = "read" /\ Sec(a) \in prior.claims /\ DocOf[a] \in present \cup ZeroIfAbsent
    /\ DocOf[a] \in fresh => model[a] = stored[a]

\* What state holds can be read again.
StateOK ==
  state # NoState =>
    \A a \in Attrs : state.set[a] # Null => DocOf[a] \in present \cup ZeroIfAbsent

CompositeInv ==
  /\ TypeOK /\ PhaseOK /\ PresentOK /\ WrittenOK /\ ReadOK /\ ModelOK /\ StateOK
  /\ AppliedLands /\ StateTellsTruth /\ ManagedOnly

-----------------------------------------------------------------------------
(* What the helpers return.                                                  *)

\* An attribute has a document, and that a section.
LEMMA AttrDoc ==
  ASSUME NEW a \in Attrs
  PROVE  DocOf[a] \in Docs /\ Sec(a) \in Sections /\ Sec(a) = SectionOf[DocOf[a]]
  BY CompositeAssumption DEF Sec

\* A model is null or a value in each attribute, and null where its section is.
LEMMA ModelSet ==
  ASSUME NEW m \in Models, NEW a \in Attrs
  PROVE  m.set[a] \in Values \cup {Null} /\ (WellFormed(m) /\ m.set[a] # Null => Sec(a) \in m.claims)
  BY DEF Models, WellFormed

\* The documents at some places of the order.
LEMMA Chosen ==
  ASSUME NEW I \in SUBSET (DOMAIN Order)
  PROVE  At(Order, I) \in Seq(Docs) /\ ToSet(At(Order, I)) = {Order[i] : i \in I}
  <1>1. /\ At(Order, I) \in Seq(Docs)
        /\ \A k \in DOMAIN At(Order, I) : \E i \in I : At(Order, I)[k] = Order[i]
        /\ \A i \in I : \E k \in DOMAIN At(Order, I) : At(Order, I)[k] = Order[i]
    <2>1. Order \in Seq(Docs)
      BY CompositeAssumption
    <2> QED
      BY <2>1, AtProperties
  <1> QED
    BY <1>1 DEF ToSet

\* An apply writes the documents the plan sets something in.
LEMMA WriteCallsDocs ==
  ASSUME NEW p
  PROVE  /\ WriteCalls(p) \in Seq(Docs)
         /\ \A a \in Attrs : p.set[a] # Null => DocOf[a] \in ToSet(WriteCalls(p))
  <1> DEFINE I == {i \in DOMAIN Order : \E a \in Attrs : DocOf[a] = Order[i] /\ p.set[a] # Null}
  <1>1. I \in SUBSET (DOMAIN Order) /\ WriteCalls(p) = At(Order, I)
    BY DEF WriteCalls
  <1>2. ASSUME NEW a \in Attrs, p.set[a] # Null PROVE DocOf[a] \in {Order[i] : i \in I}
    <2>1. DocOf[a] \in ToSet(Order)
      BY AttrDoc, CompositeAssumption
    <2> QED
      BY <1>2, <2>1 DEF ToSet
  <1> HIDE DEF I
  <1> QED
    BY <1>1, <1>2, Chosen

\* A read asks for the documents of the sections the prior model claims, and for no other.
LEMMA ReadCallsDocs ==
  ASSUME NEW p
  PROVE  /\ ReadCalls(p) \in Seq(Docs)
         /\ \A d \in Docs : SectionOf[d] \in p.claims => d \in ToSet(ReadCalls(p))
         /\ \A d \in ToSet(ReadCalls(p)) : SectionOf[d] \in p.claims
  <1> DEFINE I == {i \in DOMAIN Order : SectionOf[Order[i]] \in p.claims}
  <1>1. I \in SUBSET (DOMAIN Order) /\ ReadCalls(p) = At(Order, I)
    BY DEF ReadCalls
  <1>2. /\ \A d \in Docs : SectionOf[d] \in p.claims => d \in {Order[i] : i \in I}
        /\ \A d \in {Order[i] : i \in I} : SectionOf[d] \in p.claims
    <2>1. \A d \in Docs : \E i \in DOMAIN Order : Order[i] = d
      BY CompositeAssumption DEF ToSet
    <2> QED
      BY <2>1
  <1> HIDE DEF I
  <1> QED
    BY <1>1, <1>2, Chosen

\* The documents still to do, when the first of them is done.
LEMMA TodoNext ==
  ASSUME todo \in Seq(Docs), todo # << >>
  PROVE  /\ Head(todo) \in Docs /\ Head(todo) \in ToSet(todo) /\ Tail(todo) \in Seq(Docs)
         /\ ToSet(todo) = {Head(todo)} \cup ToSet(Tail(todo))
  <1>1. /\ Tail(todo) \in Seq(Docs) /\ 1 \in DOMAIN todo /\ Head(todo) = todo[1] /\ todo[1] \in Docs
        /\ \A k \in DOMAIN Tail(todo) : k + 1 \in DOMAIN todo /\ Tail(todo)[k] = todo[k + 1]
        /\ \A k \in DOMAIN todo : k = 1 \/ (k - 1 \in DOMAIN Tail(todo) /\ (k - 1) + 1 = k)
    OBVIOUS
  <1>2. \A k \in DOMAIN todo : k = 1 \/ \E n \in DOMAIN Tail(todo) : Tail(todo)[n] = todo[k]
    BY <1>1
  <1> QED
    BY <1>1, <1>2 DEF ToSet

\* The plan is a model, and sets nothing in a section that is null.
LEMMA PlannedModel ==
  ASSUME TypeOK, NEW c \in Configs
  PROVE  Planned(c) \in Models /\ WellFormed(Planned(c))
  <1>1. Known \in Models /\ WellFormed(Known)
    BY DEF Known, Nothing, TypeOK, Models, WellFormed
  <1>2. c \in Models /\ WellFormed(c)
    BY CompositeAssumption
  <1> DEFINE claims == c.claims \cup (Known.claims \ OptionalOnly)
             set == [a \in Attrs |->
                      IF c.set[a] # Null THEN c.set[a]
                      ELSE IF Sec(a) \in claims /\ (Sec(a) \notin c.claims \/ a \in Kept)
                           THEN Known.set[a] ELSE Null]
  <1>3. Planned(c) = [claims |-> claims, set |-> set]
    BY DEF Planned
  <1>4. claims \in SUBSET Sections
    BY <1>1, <1>2 DEF Models
  <1>5. \A a \in Attrs : set[a] \in Values \cup {Null} /\ (set[a] # Null => Sec(a) \in claims)
    BY <1>1, <1>2, ModelSet
  <1> HIDE DEF claims
  <1>6. set \in [Attrs -> Values \cup {Null}]
    BY <1>5
  <1> HIDE DEF set
  <1> QED
    BY <1>3, <1>4, <1>5, <1>6 DEF Models, WellFormed

\* A document that lands: what the plan sets in it is as planned, what the plan sets elsewhere
\* is as it was.
LEMMA DocLands ==
  ASSUME TypeOK, WriteDoc \/ PutDoc
  PROVE  /\ todo # << >> /\ phase \in Writing /\ phase' = "write" /\ todo' = Tail(todo)
         /\ present' = present \cup {Head(todo)} /\ Head(todo) \in Docs
         /\ stored' \in [Attrs -> Values] /\ fetched' \in [Attrs -> Values]
         /\ UNCHANGED <<exposed, state, config, prior, model, edits, undisturbed, fresh, applied, outcome>>
         /\ \A a \in Attrs : prior.set[a] # Null =>
              stored'[a] = IF DocOf[a] = Head(todo) THEN prior.set[a] ELSE stored[a]
  <1>1. todo \in Seq(Docs) /\ todo # << >> /\ prior \in Models
    BY DEF TypeOK, WriteDoc, PutDoc
  <1>2. \A a \in Mask(Head(todo)) : prior.set[a] \in Values /\ DocOf[a] = Head(todo)
    BY <1>1, ModelSet DEF Mask
  <1>3. CASE WriteDoc
    <2>1. stored' = [a \in Attrs |-> IF a \in Mask(Head(todo)) THEN prior.set[a] ELSE stored[a]]
      BY <1>3 DEF WriteDoc
    <2>2. stored' \in [Attrs -> Values]
      BY <1>2, <2>1 DEF TypeOK
    <2>3. \A a \in Attrs : prior.set[a] # Null =>
            stored'[a] = IF DocOf[a] = Head(todo) THEN prior.set[a] ELSE stored[a]
      BY <2>1 DEF Mask
    <2> QED
      BY <1>1, <1>3, <2>2, <2>3, TodoNext DEF WriteDoc, TypeOK, Writing
  <1>4. CASE PutDoc
    <2>1. stored' = [a \in Attrs |-> IF DocOf[a] # Head(todo) THEN stored[a]
                                     ELSE IF a \in Mask(Head(todo)) THEN prior.set[a] ELSE fetched[a]]
      BY <1>4 DEF PutDoc
    <2>2. stored' \in [Attrs -> Values]
      BY <1>2, <2>1 DEF TypeOK
    <2>3. \A a \in Attrs : prior.set[a] # Null =>
            stored'[a] = IF DocOf[a] = Head(todo) THEN prior.set[a] ELSE stored[a]
      BY <2>1 DEF Mask
    <2>4. Blank \in [Attrs -> Values]
      BY CompositeAssumption DEF Blank
    <2> QED
      BY <1>1, <1>4, <2>2, <2>3, <2>4, TodoNext DEF PutDoc, Writing
  <1> QED
    BY <1>3, <1>4

\* A document that is read: its attributes are the controller's if it is there, and the
\* others stay what they were.
LEMMA DocRead ==
  ASSUME TypeOK, ReadDoc
  PROVE  /\ todo # << >> /\ phase = "read" /\ todo' = Tail(todo) /\ Head(todo) \in Docs
         /\ fresh' = fresh \cup {Head(todo)} /\ model' \in [Attrs -> Values \cup {Null}]
         /\ UNCHANGED <<exposed, stored, present, state, phase, config, prior, fetched, edits,
                        undisturbed, applied, outcome>>
         /\ \A a \in Attrs : model'[a] =
              IF DocOf[a] = Head(todo) /\ Head(todo) \in present \cup ZeroIfAbsent
              THEN Decode(a) ELSE model[a]
         /\ \A a \in Attrs : Decode(a) # Null => Decode(a) = stored[a]
         /\ \A a \in Attrs : a \notin NullZero => Decode(a) # Null
  <1>1. todo \in Seq(Docs) /\ todo # << >>
    BY DEF TypeOK, ReadDoc
  <1>2. \A a \in Attrs : /\ Decode(a) \in Values \cup {Null}
                         /\ Decode(a) # Null => Decode(a) = stored[a]
                         /\ a \notin NullZero => Decode(a) # Null
    BY CompositeAssumption DEF Decode, TypeOK
  <1>3. model' = [a \in Attrs |->
                    IF DocOf[a] = Head(todo) /\ Head(todo) \in present \cup ZeroIfAbsent
                    THEN Decode(a) ELSE model[a]]
    BY DEF ReadDoc
  <1>4. model' \in [Attrs -> Values \cup {Null}]
    BY <1>2, <1>3 DEF TypeOK
  <1> QED
    BY <1>1, <1>2, <1>3, <1>4, TodoNext DEF ReadDoc, ctlVars
\* What a read leaves in state: what it found, or null, or what the prior model had of an
\* attribute that is never read back.
LEMMA ReadEnds ==
  ASSUME TypeOK, PhaseOK, PresentOK, ReadOK, ModelOK, FinishRead
  PROVE  /\ state' \in Models /\ WellFormed(state') /\ state' # NoState
         /\ state'.claims = prior.claims
         /\ \A a \in Attrs :
              /\ state'.set[a] \in {prior.set[a], model[a], Null}
              /\ a \notin Restored /\ state'.set[a] # Null => state'.set[a] = model[a]
              /\ state'.set[a] # Null => DocOf[a] \in present \cup ZeroIfAbsent
              /\ a \in Conditioned /\ prior.set[a] = Null => state'.set[a] = Null
              /\ prior.set[a] # Null =>
                   /\ a \notin NullZero => state'.set[a] # Null
                   /\ undisturbed => state'.set[a] \in {prior.set[a], Decode(a)}
  <1>1. /\ phase = "read" /\ todo = << >> /\ ToSet(todo) = {}
        /\ state' = [claims |-> prior.claims, set |-> [a \in Attrs |-> Received(a)]]
    BY DEF FinishRead, ToSet
  <1>2. prior \in Models /\ WellFormed(prior) /\ model \in [Attrs -> Values \cup {Null}]
    BY DEF TypeOK
  <1>3. ASSUME NEW a \in Attrs
        PROVE  /\ Received(a) \in Values \cup {Null}
               /\ Received(a) # Null => Sec(a) \in prior.claims
    BY <1>2, ModelSet DEF Received, ModelOK
  <1>4. [a \in Attrs |-> Received(a)] \in [Attrs -> Values \cup {Null}]
    BY <1>3
  <1>5. state' \in Models /\ WellFormed(state')
    BY <1>1, <1>2, <1>3, <1>4 DEF Models, WellFormed
  <1>6. ASSUME NEW a \in Attrs
        PROVE  /\ state'.set[a] \in {prior.set[a], model[a], Null}
               /\ a \notin Restored /\ state'.set[a] # Null => state'.set[a] = model[a]
               /\ state'.set[a] # Null => DocOf[a] \in present \cup ZeroIfAbsent
               /\ a \in Conditioned /\ prior.set[a] = Null => state'.set[a] = Null
               /\ prior.set[a] # Null =>
                    /\ a \notin NullZero => state'.set[a] # Null
                    /\ undisturbed => state'.set[a] \in {prior.set[a], Decode(a)}
    <2>1. state'.set[a] = Received(a)
      BY <1>1
    <2>2. prior.set[a] # Null => DocOf[a] \in present \cup ZeroIfAbsent /\ Sec(a) \in prior.claims
      BY <1>1, <1>2, ModelSet DEF PresentOK
    <2>3. model[a] # Null => DocOf[a] \in present \cup ZeroIfAbsent
      BY DEF ModelOK
    <2>4. prior.set[a] # Null => /\ a \notin NullZero => model[a] # Null
                                 /\ undisturbed => model[a] = Decode(a)
      BY <1>1, <2>2 DEF ReadOK
    <2>5. Restored \subseteq Conditioned
      BY CompositeAssumption
    <2> QED
      BY <2>1, <2>2, <2>3, <2>4, <2>5 DEF Received
  <1>7. state' # NoState
    BY <1>5, CompositeAssumption
  <1> QED
    BY <1>1, <1>5, <1>6, <1>7

-----------------------------------------------------------------------------
(* Each part of the invariant is kept.                                       *)

\* Every variable keeps its type.
LEMMA TypeOKStep ==
  ASSUME TypeOK, PhaseOK, PresentOK, ReadOK, ModelOK, [Next]_vars
  PROVE  TypeOK'
  <1>1. Unread \in [Attrs -> Values \cup {Null}] /\ Blank \in [Attrs -> Values] /\ << >> \in Seq(Docs)
        /\ Nothing \in Models /\ WellFormed(Nothing)
    BY CompositeAssumption DEF Unread, Blank, Nothing, Models, WellFormed
  <1>2. ASSUME NEW c \in Configs, StartApply(c) PROVE TypeOK'
    <2>1. /\ prior' \in Models /\ WellFormed(prior') /\ todo' \in Seq(Docs)
          /\ fresh' = {} /\ config' \in Configs /\ phase' = "write"
      BY <1>2, PlannedModel, WriteCallsDocs DEF StartApply
    <2> QED
      BY <1>2, <2>1, Zenon DEF StartApply, ctlVars, TypeOK
  <1>3. CASE WriteDoc \/ PutDoc
    <2>1. /\ phase' = "write" /\ todo' \in Seq(Docs) /\ present' \in SUBSET Docs
          /\ stored' \in [Attrs -> Values] /\ fetched' \in [Attrs -> Values]
          /\ UNCHANGED <<exposed, state, config, prior, model, edits, undisturbed, fresh, applied, outcome>>
      BY <1>3, DocLands, TodoNext DEF TypeOK
    <2> QED
      BY <2>1, Zenon DEF TypeOK
  <1>4. CASE FetchDoc
    BY <1>4, Zenon DEF FetchDoc, ctlVars, TypeOK
  <1>5. CASE StartReadBack
    BY <1>5, ReadCallsDocs, Zenon DEF StartReadBack, ctlVars, TypeOK
  <1>6. CASE StartRefresh
    <2>1. fresh' = {} /\ todo' \in Seq(Docs) /\ phase' = "read" /\ prior' \in Models /\ WellFormed(prior')
      BY <1>6, ReadCallsDocs DEF StartRefresh, TypeOK
    <2> QED
      BY <1>6, <2>1, Zenon DEF StartRefresh, ctlVars, TypeOK
  <1>7. CASE ReadDoc
    <2>1. /\ todo' \in Seq(Docs) /\ fresh' \in SUBSET Docs /\ model' \in [Attrs -> Values \cup {Null}]
          /\ phase = "read"
          /\ UNCHANGED <<exposed, stored, present, state, phase, config, prior, fetched, edits,
                         undisturbed, applied, outcome>>
      BY <1>7, DocRead, TodoNext DEF TypeOK
    <2> QED
      BY <2>1, Zenon DEF TypeOK
  <1>8. CASE FinishRead
    <2>1. state' \in Models /\ WellFormed(state')
      BY <1>8, ReadEnds
    <2>2. applied' \in Models /\ WellFormed(applied')
      BY <1>8 DEF FinishRead, TypeOK
    <2>3. /\ phase' = "idle" /\ config' = Null /\ prior' = Nothing /\ todo' = << >>
          /\ fetched' = Blank /\ model' = Unread
          /\ outcome' \in {"none", "applied", "refreshed", "failed"}
          /\ UNCHANGED <<exposed, stored, present, edits, undisturbed, fresh>>
      BY <1>8 DEF FinishRead, Return, ctlVars
    <2> QED
      BY <1>1, <2>1, <2>2, <2>3, Zenon DEF TypeOK
  <1>9. CASE FailCall
    <2>1. /\ phase' = "idle" /\ config' = Null /\ prior' = Nothing /\ todo' = << >>
          /\ fetched' = Blank /\ model' = Unread /\ outcome' = "failed"
          /\ UNCHANGED <<exposed, stored, present, state, edits, undisturbed, fresh, applied>>
      BY <1>9 DEF FailCall, Return, ctlVars
    <2> QED
      BY <1>1, <2>1, Zenon DEF TypeOK
  <1>10. CASE Import \/ Delete
    <2>1. /\ state' = NoState \/ (state' \in Models /\ WellFormed(state'))
          /\ applied' = Nothing /\ outcome' = "none"
          /\ UNCHANGED <<exposed, stored, present, rpcVars, edits, undisturbed, fresh>>
      BY <1>1, <1>10 DEF Import, Delete, ctlVars
    <2> QED
      BY <1>1, <2>1, Zenon DEF TypeOK, rpcVars
  <1>11. ASSUME NEW a \in Attrs, NEW v \in Values, Edit(a, v) PROVE TypeOK'
    <2>1. edits' \in 0..MaxEdits
      BY <1>11, CompositeAssumption DEF Edit, TypeOK
    <2>2. stored' \in [Attrs -> Values] /\ fresh' \in SUBSET Docs /\ undisturbed' = FALSE
          /\ UNCHANGED <<exposed, present, state, rpcVars, applied, outcome>>
      BY <1>11 DEF Edit, TypeOK
    <2> QED
      BY <2>1, <2>2, Zenon DEF TypeOK, rpcVars
  <1>12. CASE UNCHANGED vars
    BY <1>12, Zenon DEF vars, TypeOK
  <1> QED
    BY <1>2, <1>3, <1>4, <1>5, <1>6, <1>7, <1>8, <1>9, <1>10, <1>11, <1>12 DEF Next
\* An apply and a refresh have what they need in hand until they return.
LEMMA PhaseStep ==
  ASSUME TypeOK, PhaseOK, [Next]_vars
  PROVE  PhaseOK'
  <1> USE DEF PhaseOK, Writing
  <1>1. ASSUME NEW c \in Configs, StartApply(c) PROVE PhaseOK'
    BY <1>1, CompositeAssumption DEF StartApply
  <1>2. CASE WriteDoc \/ PutDoc
    BY <1>2, DocLands
  <1>3. CASE FetchDoc
    BY <1>3 DEF FetchDoc
  <1>4. CASE StartReadBack
    <2>1. \A d \in ToSet(ReadCalls(prior)) : SectionOf[d] \in prior.claims
      BY ReadCallsDocs
    <2> QED
      BY <1>4, <2>1 DEF StartReadBack
  <1>5. CASE StartRefresh
    <2>1. \A d \in ToSet(ReadCalls(state)) : SectionOf[d] \in state.claims
      BY ReadCallsDocs
    <2> QED
      BY <1>5, <2>1 DEF StartRefresh
  <1>6. CASE ReadDoc
    <2>1. ToSet(todo') \subseteq ToSet(todo)
      BY <1>6, DocRead, TodoNext DEF TypeOK
    <2> QED
      BY <1>6, <2>1, DocRead
  <1>7. CASE FinishRead \/ FailCall
    BY <1>7 DEF FinishRead, FailCall, Return
  <1>8. CASE Import \/ Delete
    BY <1>8 DEF Import, Delete, rpcVars
  <1>9. ASSUME NEW a \in Attrs, NEW v \in Values, Edit(a, v) PROVE PhaseOK'
    BY <1>9 DEF Edit, rpcVars
  <1>10. CASE UNCHANGED vars
    BY <1>10 DEF vars
  <1> QED
    BY <1>1, <1>2, <1>3, <1>4, <1>5, <1>6, <1>7, <1>8, <1>9, <1>10 DEF Next

\* The documents of the planned attributes come to be, and none goes.
LEMMA PresentStep ==
  ASSUME TypeOK, PhaseOK, PresentOK, StateOK, [Next]_vars
  PROVE  PresentOK'
  <1> USE DEF PresentOK, Writing
  <1>1. ASSUME NEW c \in Configs, StartApply(c) PROVE PresentOK'
    BY <1>1, WriteCallsDocs DEF StartApply, ctlVars
  <1>2. CASE WriteDoc \/ PutDoc
    <2>1. ToSet(todo) = {Head(todo)} \cup ToSet(todo')
      BY <1>2, DocLands, TodoNext DEF TypeOK
    <2> QED
      BY <1>2, <2>1, DocLands
  <1>3. CASE FetchDoc
    BY <1>3 DEF FetchDoc, ctlVars
  <1>4. CASE StartReadBack
    <2>1. ToSet(todo) = {} /\ phase = "write"
      BY <1>4 DEF StartReadBack, ToSet
    <2>2. phase' = "read" /\ UNCHANGED <<present, prior, config>>
      BY <1>4 DEF StartReadBack, ctlVars
    <2> QED
      BY <2>1, <2>2
  <1>5. CASE StartRefresh
    BY <1>5 DEF StartRefresh, StateOK, PhaseOK, ctlVars
  <1>6. CASE ReadDoc
    BY <1>6, DocRead
  <1>7. CASE FinishRead \/ FailCall
    BY <1>7 DEF FinishRead, FailCall, Return
  <1>8. CASE Import \/ Delete
    BY <1>8 DEF Import, Delete, rpcVars, ctlVars
  <1>9. ASSUME NEW a \in Attrs, NEW v \in Values, Edit(a, v) PROVE PresentOK'
    BY <1>9 DEF Edit, rpcVars
  <1>10. CASE UNCHANGED vars
    BY <1>10 DEF vars
  <1> QED
    BY <1>1, <1>2, <1>3, <1>4, <1>5, <1>6, <1>7, <1>8, <1>9, <1>10 DEF Next

\* What has been written stays written: no later document of the apply undoes it.
LEMMA WrittenStep ==
  ASSUME TypeOK, PhaseOK, WrittenOK, [Next]_vars
  PROVE  WrittenOK'
  <1> USE DEF WrittenOK, Writing
  <1>1. ASSUME NEW c \in Configs, StartApply(c) PROVE WrittenOK'
    BY <1>1, WriteCallsDocs DEF StartApply
  <1>2. CASE WriteDoc \/ PutDoc
    <2>1. ToSet(todo) = {Head(todo)} \cup ToSet(todo')
      BY <1>2, DocLands, TodoNext DEF TypeOK
    <2>2. /\ phase' = "write" /\ UNCHANGED <<prior, config, undisturbed>>
          /\ \A a \in Attrs : prior.set[a] # Null =>
               stored'[a] = IF DocOf[a] = Head(todo) THEN prior.set[a] ELSE stored[a]
      BY <1>2, DocLands
    <2> QED
      BY <2>1, <2>2
  <1>3. CASE FetchDoc
    BY <1>3 DEF FetchDoc, ctlVars
  <1>4. CASE StartReadBack
    <2>1. ToSet(todo) = {}
      BY <1>4 DEF StartReadBack, ToSet
    <2>2. UNCHANGED <<stored, prior, config, undisturbed>>
      BY <1>4 DEF StartReadBack, ctlVars
    <2> QED
      BY <2>1, <2>2
  <1>5. CASE StartRefresh
    BY <1>5 DEF StartRefresh, PhaseOK
  <1>6. CASE ReadDoc
    BY <1>6, DocRead
  <1>7. CASE FinishRead \/ FailCall
    BY <1>7 DEF FinishRead, FailCall, Return
  <1>8. CASE Import \/ Delete
    BY <1>8 DEF Import, Delete, rpcVars, ctlVars
  <1>9. ASSUME NEW a \in Attrs, NEW v \in Values, Edit(a, v) PROVE WrittenOK'
    BY <1>9 DEF Edit
  <1>10. CASE UNCHANGED vars
    BY <1>10 DEF vars
  <1> QED
    BY <1>1, <1>2, <1>3, <1>4, <1>5, <1>6, <1>7, <1>8, <1>9, <1>10 DEF Next

\* The read misses no document of a section it claims.
LEMMA ReadStep ==
  ASSUME TypeOK, PhaseOK, ReadOK, [Next]_vars
  PROVE  ReadOK'
  <1> USE DEF ReadOK
  <1>1. ASSUME NEW c \in Configs, StartApply(c) PROVE ReadOK'
    BY <1>1 DEF StartApply
  <1>2. CASE WriteDoc \/ PutDoc
    BY <1>2, DocLands
  <1>3. CASE FetchDoc
    BY <1>3 DEF FetchDoc
  <1>4. CASE StartReadBack
    <2>1. \A a \in Attrs : Sec(a) \in prior.claims => DocOf[a] \in ToSet(ReadCalls(prior))
      BY ReadCallsDocs, AttrDoc
    <2> QED
      BY <1>4, <2>1 DEF StartReadBack
  <1>5. CASE StartRefresh
    <2>1. \A a \in Attrs : Sec(a) \in state.claims => DocOf[a] \in ToSet(ReadCalls(state))
      BY ReadCallsDocs, AttrDoc
    <2> QED
      BY <1>5, <2>1 DEF StartRefresh
  <1>6. CASE ReadDoc
    <2>1. ToSet(todo) = {Head(todo)} \cup ToSet(todo')
      BY <1>6, DocRead, TodoNext DEF TypeOK
    <2>2. /\ phase = "read" /\ UNCHANGED <<stored, present, prior, undisturbed, phase>>
          /\ \A a \in Attrs : model'[a] =
               IF DocOf[a] = Head(todo) /\ Head(todo) \in present \cup ZeroIfAbsent
               THEN Decode(a) ELSE model[a]
          /\ \A a \in Attrs : a \notin NullZero => Decode(a) # Null
      BY <1>6, DocRead
    <2>3. \A a \in Attrs : Decode(a)' = Decode(a)
      BY <2>2 DEF Decode
    <2> QED
      BY <2>1, <2>2, <2>3
  <1>7. CASE FinishRead \/ FailCall
    BY <1>7 DEF FinishRead, FailCall, Return
  <1>8. CASE Import \/ Delete
    BY <1>8 DEF Import, Delete, rpcVars
  <1>9. ASSUME NEW a \in Attrs, NEW v \in Values, Edit(a, v) PROVE ReadOK'
    BY <1>9 DEF Edit, rpcVars
  <1>10. CASE UNCHANGED vars
    BY <1>10 DEF vars, Decode
  <1> QED
    BY <1>1, <1>2, <1>3, <1>4, <1>5, <1>6, <1>7, <1>8, <1>9, <1>10 DEF Next

\* The model starts empty, gains what a document says as it is read, and ends with the call.
LEMMA ModelStep ==
  ASSUME TypeOK, PhaseOK, ModelOK, [Next]_vars
  PROVE  ModelOK'
  <1> USE DEF ModelOK
  <1>1. ASSUME UNCHANGED model, phase # "read" PROVE ModelOK'
    BY <1>1
  <1>2. ASSUME NEW c \in Configs, StartApply(c) PROVE ModelOK'
    BY <1>1, <1>2 DEF StartApply
  <1>3. CASE WriteDoc \/ PutDoc
    BY <1>1, <1>3, DocLands DEF Writing
  <1>4. CASE FetchDoc \/ StartReadBack \/ StartRefresh
    BY <1>1, <1>4 DEF FetchDoc, StartReadBack, StartRefresh
  <1>5. CASE ReadDoc
    <2>1. /\ UNCHANGED <<stored, present, prior, phase>> /\ phase = "read"
          /\ fresh' = fresh \cup {Head(todo)}
          /\ Head(todo) \in ToSet(todo)
          /\ \A a \in Attrs : model'[a] =
               IF DocOf[a] = Head(todo) /\ Head(todo) \in present \cup ZeroIfAbsent
               THEN Decode(a) ELSE model[a]
          /\ \A a \in Attrs : Decode(a) # Null => Decode(a) = stored[a]
      BY <1>5, DocRead, TodoNext DEF TypeOK
    <2>2. \A a \in Attrs : DocOf[a] = Head(todo) => Sec(a) \in prior.claims
      BY <2>1 DEF PhaseOK, Sec
    <2> QED
      BY <2>1, <2>2
  <1>6. CASE FinishRead \/ FailCall
    BY <1>6 DEF FinishRead, FailCall, Return, Unread
  <1>7. CASE Import \/ Delete
    BY <1>1, <1>7 DEF Import, Delete, rpcVars
  <1>8. ASSUME NEW a \in Attrs, NEW v \in Values, Edit(a, v) PROVE ModelOK'
    <2>1. /\ stored' = [stored EXCEPT ![a] = v] /\ fresh' = fresh \ {DocOf[a]}
          /\ UNCHANGED <<model, phase, prior, present>>
      BY <1>8 DEF Edit, rpcVars
    <2> QED
      BY <2>1 DEF TypeOK
  <1>9. CASE UNCHANGED vars
    BY <1>9 DEF vars
  <1> QED
    BY <1>2, <1>3, <1>4, <1>5, <1>6, <1>7, <1>8, <1>9 DEF Next
\* The steps that leave what is in state, and what was applied, as they are.
LEMMA StateMoves ==
  ASSUME TypeOK, [Next]_vars
  PROVE  /\ present \subseteq present'
         /\ \/ FinishRead
            \/ state' = Nothing /\ applied' = Nothing /\ outcome' = "none"
            \/ state' = NoState /\ applied' = Nothing /\ outcome' = "none"
            \/ UNCHANGED <<state, applied>>
  <1>1. CASE WriteDoc \/ PutDoc
    BY <1>1, DocLands
  <1>2. CASE \/ FetchDoc \/ StartReadBack \/ StartRefresh \/ ReadDoc \/ FailCall \/ UNCHANGED vars
             \/ (\E c \in Configs : StartApply(c)) \/ (\E a \in Attrs, v \in Values : Edit(a, v))
    BY <1>2 DEF FetchDoc, StartReadBack, StartRefresh, ReadDoc, FailCall, StartApply, Edit,
                ctlVars, vars
  <1>3. CASE FinishRead \/ Import \/ Delete
    BY <1>3 DEF FinishRead, Import, Delete, ctlVars
  <1> QED
    BY <1>1, <1>2, <1>3 DEF Next

\* What state holds can be read again.
LEMMA StateStep ==
  ASSUME TypeOK, PhaseOK, PresentOK, ReadOK, ModelOK, StateOK, [Next]_vars
  PROVE  StateOK'
  <1>1. CASE FinishRead
    <2>1. present' = present
      BY <1>1 DEF FinishRead, ctlVars
    <2> QED
      BY <1>1, <2>1, ReadEnds DEF StateOK
  <1>2. CASE state' = Nothing
    BY <1>2 DEF StateOK, Nothing
  <1>3. CASE state' = NoState
    BY <1>3 DEF StateOK
  <1>4. CASE UNCHANGED state
    BY <1>4, StateMoves DEF StateOK
  <1> QED
    BY <1>1, <1>2, <1>3, <1>4, StateMoves

\* State tracks what was applied.
LEMMA ManagedStep ==
  ASSUME TypeOK, PhaseOK, PresentOK, ReadOK, ModelOK, ManagedOnly, [Next]_vars
  PROVE  ManagedOnly'
  <1>1. CASE FinishRead
    <2>1. /\ applied' = IF config = Null THEN applied ELSE prior
          /\ config = Null => state # NoState /\ prior = state
      BY <1>1 DEF FinishRead, PhaseOK
    <2>2. /\ state'.claims = prior.claims
          /\ \A a \in Conditioned : a \in Attrs
          /\ \A a \in Attrs : /\ a \in Conditioned /\ prior.set[a] = Null => state'.set[a] = Null
                              /\ prior.set[a] # Null /\ a \notin NullZero => state'.set[a] # Null
      BY <1>1, ReadEnds, CompositeAssumption
    <2>3. CASE config # Null
      BY <2>1, <2>2, <2>3 DEF ManagedOnly
    <2>4. CASE config = Null
      BY <2>1, <2>2, <2>4 DEF ManagedOnly
    <2> QED
      BY <2>3, <2>4
  <1>2. CASE state' = Nothing /\ applied' = Nothing
    BY <1>2, CompositeAssumption DEF ManagedOnly, Nothing
  <1>3. CASE state' = NoState
    BY <1>3 DEF ManagedOnly
  <1>4. CASE UNCHANGED <<state, applied>>
    BY <1>4 DEF ManagedOnly
  <1> QED
    BY <1>1, <1>2, <1>3, <1>4, StateMoves

\* After a call that succeeded nothing moves but through an edit or another call.
LEMMA Settled ==
  ASSUME TypeOK, PhaseOK, outcome \in {"applied", "refreshed"}, [Next]_vars,
         outcome' \in {"applied", "refreshed"}
  PROVE  /\ UNCHANGED <<state, applied, outcome>>
         /\ \/ UNCHANGED <<stored, fresh, undisturbed>>
            \/ \E a \in Attrs, v \in Values :
                 /\ stored' = [stored EXCEPT ![a] = v]
                 /\ fresh' = fresh \ {DocOf[a]} /\ undisturbed' = FALSE
  <1>1. phase = "idle"
    BY DEF PhaseOK
  <1>2. CASE UNCHANGED vars
    BY <1>2 DEF vars
  <1>3. ASSUME NEW a \in Attrs, NEW v \in Values, Edit(a, v)
        PROVE  /\ UNCHANGED <<state, applied, outcome>> /\ stored' = [stored EXCEPT ![a] = v]
               /\ fresh' = fresh \ {DocOf[a]} /\ undisturbed' = FALSE
    BY <1>3 DEF Edit
  <1>4. ~(WriteDoc \/ FetchDoc \/ PutDoc \/ StartReadBack \/ ReadDoc \/ FinishRead \/ FailCall)
    BY <1>1 DEF WriteDoc, FetchDoc, PutDoc, StartReadBack, ReadDoc, FinishRead, FailCall
  <1>5. ~(StartRefresh \/ Import \/ Delete \/ \E c \in Configs : StartApply(c))
    BY DEF StartRefresh, Import, Delete, StartApply
  <1>6. UNCHANGED vars \/ \E a \in Attrs, v \in Values : Edit(a, v)
    BY <1>4, <1>5 DEF Next
  <1> QED
    BY <1>2, <1>3, <1>6

\* The call that succeeds is the one that finishes its read.
LEMMA Succeeds ==
  ASSUME TypeOK, PhaseOK, outcome \notin {"applied", "refreshed"}, [Next]_vars,
         outcome' \in {"applied", "refreshed"}
  PROVE  FinishRead
  <1>1. ~(WriteDoc \/ PutDoc)
    BY DocLands
  <1>2. ~(\/ FetchDoc \/ StartReadBack \/ StartRefresh \/ ReadDoc \/ FailCall \/ Import \/ Delete
          \/ (\E c \in Configs : StartApply(c)) \/ (\E a \in Attrs, v \in Values : Edit(a, v))
          \/ UNCHANGED vars)
    BY DEF FetchDoc, StartReadBack, StartRefresh, ReadDoc, FailCall, Return, Import, Delete,
           StartApply, Edit, vars
  <1> QED
    BY <1>1, <1>2 DEF Next

\* What a successful apply planned is on the controller and in state.
LEMMA AppliedStep ==
  ASSUME TypeOK, PhaseOK, PresentOK, WrittenOK, ReadOK, ModelOK, AppliedLands, [Next]_vars
  PROVE  AppliedLands'
  <1> SUFFICES ASSUME outcome' = "applied", undisturbed', NEW a \in Attrs, applied'.set[a] # Null
               PROVE  /\ stored'[a] = applied'.set[a]
                      /\ \/ state'.set[a] = applied'.set[a]
                         \/ a \in NullZero /\ applied'.set[a] = Zero
    BY DEF AppliedLands
  <1>1. CASE outcome \in {"applied", "refreshed"}
    <2>1. UNCHANGED <<state, applied, outcome, stored, undisturbed>>
      BY <1>1, Settled
    <2> QED
      BY <2>1 DEF AppliedLands
  <1>2. CASE outcome \notin {"applied", "refreshed"}
    <2>1. FinishRead /\ config # Null
      BY <1>2, Succeeds DEF FinishRead, Return
    <2>2. /\ applied' = prior /\ UNCHANGED <<stored, undisturbed>> /\ phase = "read"
      BY <2>1 DEF FinishRead, ctlVars
    <2>3. stored[a] = prior.set[a]
      BY <2>1, <2>2 DEF WrittenOK, Writing
    <2>4. state'.set[a] \in {prior.set[a], Decode(a)} /\ (a \notin NullZero => state'.set[a] # Null)
      BY <2>1, <2>2, ReadEnds
    <2>5. Decode(a) = stored[a] \/ (a \in NullZero /\ stored[a] = Zero)
      BY DEF Decode
    <2> QED
      BY <2>2, <2>3, <2>4, <2>5
  <1> QED
    BY <1>1, <1>2

\* What state says of a document it is current about is what the controller holds.
LEMMA TruthStep ==
  ASSUME TypeOK, PhaseOK, PresentOK, ReadOK, ModelOK, StateTellsTruth, [Next]_vars
  PROVE  StateTellsTruth'
  <1> SUFFICES ASSUME outcome' \in {"applied", "refreshed"}, state' # NoState,
                      NEW a \in Attrs \ Restored, DocOf[a] \in fresh', state'.set[a] # Null
               PROVE  state'.set[a] = stored'[a]
    BY DEF StateTellsTruth
  <1>1. CASE outcome \in {"applied", "refreshed"}
    <2>1. UNCHANGED <<state, applied, outcome>>
      BY <1>1, Settled
    <2>2. CASE UNCHANGED <<stored, fresh, undisturbed>>
      BY <1>1, <2>1, <2>2 DEF StateTellsTruth
    <2>3. ASSUME NEW b \in Attrs, NEW v \in Values, stored' = [stored EXCEPT ![b] = v],
                 fresh' = fresh \ {DocOf[b]}
          PROVE  state'.set[a] = stored'[a]
      <3>1. b # a /\ stored'[a] = stored[a] /\ DocOf[a] \in fresh
        BY <2>3 DEF TypeOK
      <3> QED
        BY <1>1, <2>1, <3>1 DEF StateTellsTruth
    <2> QED
      BY <1>1, <2>2, <2>3, Settled
  <1>2. CASE outcome \notin {"applied", "refreshed"}
    <2>1. FinishRead
      BY <1>2, Succeeds
    <2>2. UNCHANGED <<stored, fresh>>
      BY <2>1 DEF FinishRead, ctlVars
    <2>3. state'.set[a] = model[a]
      BY <2>1, ReadEnds
    <2> QED
      BY <2>2, <2>3 DEF ModelOK
  <1> QED
    BY <1>1, <1>2

-----------------------------------------------------------------------------
(* The invariant holds.                                                      *)

\* Nothing is in state and nothing is under way.
LEMMA CompositeStart == Init => CompositeInv
  <1> SUFFICES ASSUME Init PROVE CompositeInv
    OBVIOUS
  <1>1. Unread \in [Attrs -> Values \cup {Null}] /\ Blank \in [Attrs -> Values] /\ << >> \in Seq(Docs)
        /\ Nothing \in Models /\ WellFormed(Nothing) /\ exposed \in SUBSET Docs
        /\ present \in SUBSET Docs /\ 0 \in 0..MaxEdits
    BY CompositeAssumption DEF Init, Unread, Blank, Nothing, Models, WellFormed
  <1>2. TypeOK
    BY <1>1, Zenon DEF Init, TypeOK
  <1>3. PhaseOK /\ PresentOK /\ WrittenOK /\ ReadOK
    BY DEF Init, PhaseOK, PresentOK, WrittenOK, ReadOK, Nothing, Writing
  <1>4. ModelOK /\ StateOK /\ AppliedLands /\ StateTellsTruth /\ ManagedOnly
    BY DEF Init, ModelOK, StateOK, AppliedLands, StateTellsTruth, ManagedOnly, Unread
  <1> QED
    BY <1>2, <1>3, <1>4 DEF CompositeInv

\* Applies, refreshes, imports, deletions and edits, in any order, keep the resource consistent.
THEOREM CompositeInductive == Spec => []CompositeInv
  <1>1. CompositeInv /\ [Next]_vars => CompositeInv'
    <2> SUFFICES ASSUME CompositeInv, [Next]_vars PROVE CompositeInv'
      OBVIOUS
    <2> USE DEF CompositeInv
    <2>1. TypeOK' /\ PhaseOK' /\ PresentOK' /\ WrittenOK'
      BY TypeOKStep, PhaseStep, PresentStep, WrittenStep
    <2>2. ReadOK' /\ ModelOK' /\ StateOK'
      BY ReadStep, ModelStep, StateStep
    <2>3. AppliedLands' /\ StateTellsTruth' /\ ManagedOnly'
      BY AppliedStep, TruthStep, ManagedStep
    <2> QED
      BY <2>1, <2>2, <2>3
  <1> QED
    BY <1>1, CompositeStart, PTL DEF Spec

\* Every variable of the composite resource keeps its type.
THEOREM TypeCorrect == Spec => []TypeOK
  <1>1. CompositeInv => TypeOK
    BY DEF CompositeInv
  <1> QED
    BY <1>1, CompositeInductive, PTL

\* A successful apply that nobody disturbs has put every planned value of every document on the
\* controller and back into state.
THEOREM PlannedValuesLand == Spec => []AppliedLands
  <1>1. CompositeInv => AppliedLands
    BY DEF CompositeInv
  <1> QED
    BY <1>1, CompositeInductive, PTL

\* State tells of every document not edited since it was read what the controller holds.
THEOREM StateIsTrue == Spec => []StateTellsTruth
  <1>1. CompositeInv => StateTellsTruth
    BY DEF CompositeInv
  <1> QED
    BY <1>1, CompositeInductive, PTL

\* State tracks what the last successful apply planned, and nothing else.
THEOREM OnlyManagedTracked == Spec => []ManagedOnly
  <1>1. CompositeInv => ManagedOnly
    BY DEF CompositeInv
  <1> QED
    BY <1>1, CompositeInductive, PTL

\* No write disturbs what the plan does not set, a document put back whole included, unless that
\* was edited since it was fetched.
THEOREM WritesStayInPlan == Spec => UnplannedUntouched
  <1> DEFINE Untouched == (WriteDoc \/ PutDoc) /\ (phase = "put" => fetched = stored) =>
                            \A a \in Attrs : stored'[a] # stored[a] => prior.set[a] # Null
  <1>1. Untouched
    <2> SUFFICES ASSUME WriteDoc \/ PutDoc, phase = "put" => fetched = stored,
                        NEW a \in Attrs, stored'[a] # stored[a]
                 PROVE  prior.set[a] # Null
      OBVIOUS
    <2>1. CASE WriteDoc
      BY <2>1 DEF WriteDoc, Mask
    <2>2. CASE PutDoc
      BY <2>2 DEF PutDoc, Mask
    <2> QED
      BY <2>1, <2>2
  <1> HIDE DEF Untouched
  <1>2. Spec => [][Untouched]_vars
    BY <1>1, PTL DEF Spec
  <1> QED
    BY <1>2 DEF UnplannedUntouched, Untouched
=============================================================================
