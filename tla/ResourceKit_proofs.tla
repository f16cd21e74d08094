-------------------------- MODULE ResourceKit_proofs --------------------------
(***************************************************************************)
(* Proofs about ResourceKit, for every set of attributes, values and       *)
(* objects that satisfies KitAssumption; the last part shows that it       *)
(* implements ResourceLifecycle.                                           *)
(***************************************************************************)
EXTENDS ResourceKitRefines, TLAPS

Known   == Values \cup {Null}
Planned == Values \cup {Null, Unknown}

-----------------------------------------------------------------------------
(* What the Spec's functions return.                                        *)

\* Every configuration is a vector of known values, and every plan of planned ones.
LEMMA ConfigPlanType ==
  ASSUME NEW c \in Configs, NEW known \in BOOLEAN, NEW p \in Plans(c, known)
  PROVE  c \in [Attrs -> Known] /\ p \in [Attrs -> Planned]
  BY DEF Configs, Plans, Known, Planned

\* ToSDK and BeforeSend build an object of controller values.
LEMMA SentType ==
  ASSUME NEW m \in [Attrs -> Planned]
  PROVE  Sent(m) \in [Attrs -> Values]
  <1>1. ToSDK(m) \in [Attrs -> Values]
    BY KitAssumption DEF ToSDK, SetInPlan
  <1> QED
    BY <1>1 DEF Sent, BeforeSend

\* A write leaves an object of controller values behind.
LEMMA StoreType ==
  ASSUME NEW old \in [Attrs -> Values], NEW mask, NEW sdk \in [Attrs -> Values]
  PROVE  Store(old, sdk, mask) \in [Attrs -> Values]
  BY DEF Store

\* ToModel keeps a model a model.
LEMMA ToModelType ==
  ASSUME NEW sdk \in [Attrs -> Values], NEW m \in [Attrs -> Planned]
  PROVE  ToModel(sdk, m) \in [Attrs -> Planned]
  BY DEF ToModel, Decode, Planned

\* The answer and the hook leave nothing unknown.
LEMMA AfterReceiveType ==
  ASSUME NEW sdk \in [Attrs -> Values], NEW m \in [Attrs -> Planned]
  PROVE  AfterReceive(sdk, ToModel(sdk, m)) \in [Attrs -> Known]
  BY DEF AfterReceive, ToModel, Decode, Known, Attrs

\* A hook that fails leaves nothing unknown either, if the model held nothing unknown.
LEMMA ToModelKnown ==
  ASSUME NEW sdk \in [Attrs -> Values], NEW m \in [Attrs -> Known]
  PROVE  ToModel(sdk, m) \in [Attrs -> Known]
  BY DEF ToModel, Decode, Known

\* Applying a plan brings nothing unknown into a model.
LEMMA ApplyType ==
  ASSUME NEW p \in [Attrs -> Planned], NEW m \in [Attrs -> Known]
  PROVE  ApplyPlanToState(p, m) \in [Attrs -> Known]
  BY DEF ApplyPlanToState, SetInPlan, Known

-----------------------------------------------------------------------------
(* The inductive invariant.                                                 *)

\* Where each RPC stands, in terms of what it addresses and what the state tracks.
PhaseOK ==
  /\ pc \in {"createHook", "createSend", "createSent"} => sid = NoState
  /\ pc = "createSent" \/ (pc = "createSend" /\ MaskedCreate) => target \in Ids
  /\ pc \in {"updateHook", "updateSend", "updateSent", "delete"} => sid \in Ids /\ target = sid
  /\ pc = "readDone" => target \in Ids /\ sid # NoState /\ (sid \in Ids => target = sid)
  /\ pc = "imported" => importing /\ sid # NoState
  /\ importing => pc \in {"imported", "readDone"}
  /\ sid = NoId => importing /\ ident = NoId
  /\ sid \notin Ids => edited = NoEdits

\* The model of an update holds nothing unknown and is the state under the plan, and the plan
\* sets nothing but what the practitioner configured and what the state holds.
UpdateOK ==
  pc \in {"updateHook", "updateSend", "updateSent"} =>
    /\ work \in [Attrs -> Known]
    /\ work = ApplyPlanToState(plan, sval)
    /\ \A a \in Attrs : plan[a] \in Values => cfg[a] \in Values \/ plan[a] = sval[a]

\* NoSilentOrphan, where an import does not count as tracking before its read is done.
OwnedOK ==
  \A i \in owned : objects[i] # Absent =>
    \/ (sid = i /\ ~importing) \/ i \in leaked \/ i \in released
    \/ pc = "createSent" /\ target = i

\* The attributes a plan decides, and those whose planned value the write in flight can say.
Decided == (Field \ ReadOnly) \cup Hook
Said(a) ==
  /\ plan[a] \in Values
  /\ plan[a] # Zero \/ (a \notin Slots /\ (MaskedCreate \/ pc = "updateSent"))

\* What the state may hold of an attribute whose wire the controller has at v.
Mirrors(a, v, x) ==
  \/ x = Decode(a, v)
  \/ x = Null /\ a \in HookOwned
  \/ x = Zero /\ a \in NullZero /\ v = Zero
  \/ x = Zero /\ a \in unsaid

\* The model an object is built from carries the plan, the answer carries what was sent, and
\* the controller still holds the answer while nobody else has touched it.
AnswerOK ==
  /\ pc \in {"createHook", "createSend"} => work = plan
  /\ pc \in {"updateHook", "updateSend"} =>
       \A a \in Decided : plan[a] \in Values => work[a] = plan[a]
  /\ pc \in {"createSent", "updateSent"} =>
       \A a \in Decided \ Discards :
         /\ Said(a) => resp[a] = plan[a]
         /\ plan[a] = Zero => resp[a] = Zero \/ a \in unsaid
  /\ pc \in {"createSent", "updateSent", "readDone"} /\ quiet => objects[target] = resp

IInv ==
  /\ TypeOK /\ PhaseOK /\ UpdateOK /\ IdentityMatchesState /\ OwnedOK /\ AdminEditSurvives
  /\ AnswerOK /\ StateMirrorsController

\* The blank values are of their kind.
LEMMA BlankType ==
  /\ Blank \in [Attrs -> Values] /\ NoVals \in [Attrs -> Known]
  /\ NoEdits \in [Attrs -> Values \cup {NoEdit}]
  BY KitAssumption DEF Blank, NoVals, NoEdits, Known

-----------------------------------------------------------------------------
(* Every step preserves each part of the invariant.                          *)

\* Every step keeps every variable in its type.
LEMMA TypeOKStep ==
  ASSUME TypeOK, PhaseOK, UpdateOK, [Next]_vars
  PROVE  TypeOK'
  <1> USE DEF TypeOK, PhaseOK, UpdateOK, remote, tfstate, flight, history, Return, Track, Untrack,
              Phases, Known, Planned
  <1>1. ASSUME NEW c \in Configs, NEW p \in Plans(c, FALSE), BeginCreate(c, p) PROVE TypeOK'
    BY <1>1, ConfigPlanType DEF BeginCreate
  <1>2. CASE CreateHook
    BY <1>2 DEF CreateHook, Store
  <1>3. ASSUME NEW i \in Ids, NEW d \in Values, CreatePost(i, d) PROVE TypeOK'
    <2>1. unsaid' \in SUBSET Attrs
      BY <1>3 DEF CreatePost, Zeros, Attrs
    <2>2. objects' \in [Ids -> [Attrs -> Values] \cup {Absent}] /\ resp' \in [Attrs -> Values]
      BY <1>3, SentType DEF CreatePost
    <2> QED
      BY <1>3, <2>1, <2>2 DEF CreatePost
  <1>4. CASE CreatePatch
    <2>1. Store(objects[target], Sent(work), MaskFields(plan)) \in [Attrs -> Values]
      BY <1>4, SentType, StoreType DEF CreatePatch
    <2>2. objects' \in [Ids -> [Attrs -> Values] \cup {Absent}] /\ resp' \in [Attrs -> Values]
      BY <1>4, <2>1 DEF CreatePatch
    <2> QED
      BY <1>4, <2>2 DEF CreatePatch
  <1>5. CASE FinishCreate
    BY <1>5, BlankType, AfterReceiveType, ApplyType DEF FinishCreate, Recorded
  <1>6. CASE CreateTailFails
    BY <1>6, BlankType DEF CreateTailFails
  <1>7. ASSUME NEW i \in Ids, ImportById(i) PROVE TypeOK'
    BY <1>7, BlankType DEF ImportById
  <1>8. ASSUME NEW i \in Ids, ReadObject(i) PROVE TypeOK'
    <2>1. objects[i] \in [Attrs -> Values]
      BY <1>8 DEF ReadObject, Found
    <2> QED
      BY <1>8, <2>1 DEF ReadObject
  <1>9. ASSUME NEW i \in Ids, AdminDelete(i) PROVE TypeOK'
    <2>1. objects' \in [Ids -> [Attrs -> Values] \cup {Absent}]
      BY <1>9 DEF AdminDelete
    <2>2. edits' \in 0..MaxEdits
      BY <1>9, KitAssumption DEF AdminDelete
    <2>3. edited' \in [Attrs -> Values \cup {NoEdit}]
      BY <1>9, BlankType DEF AdminDelete
    <2> QED
      BY <1>9, <2>1, <2>2, <2>3 DEF AdminDelete
  <1>10. ASSUME NEW n \in Values \ {Zero}, ImportByName(n) PROVE TypeOK'
    BY <1>10, BlankType DEF ImportByName
  <1>11. CASE ReadNotFound
    BY <1>11, BlankType DEF ReadNotFound
  <1>12. CASE ReadFails
    BY <1>12, BlankType DEF ReadFails
  <1>13. CASE FinishRead
    <2>1. sval \in [Attrs -> Planned]
      BY DEF Known, Planned
    <2>2. AfterReceive(resp, ToModel(resp, sval)) \in [Attrs -> Known]
      BY <2>1, AfterReceiveType
    <2> QED
      BY <1>13, <2>2, BlankType DEF FinishRead
  <1>14. ASSUME NEW c \in Configs, NEW p \in Plans(c, TRUE), BeginUpdate(c, p) PROVE TypeOK'
    <2>1. c \in [Attrs -> Known] /\ p \in [Attrs -> Planned]
      BY ConfigPlanType
    <2>2. ApplyPlanToState(p, sval) \in [Attrs -> Known]
      BY <2>1, ApplyType
    <2> QED
      BY <1>14, <2>1, <2>2 DEF BeginUpdate
  <1>15. CASE UpdateHook
    BY <1>15 DEF UpdateHook, Store, NoEdits
  <1>16. CASE UpdateSend
    <2>1. Store(objects[target], Sent(work), UpdateMask(plan, work)) \in [Attrs -> Values]
      BY <1>16, SentType, StoreType DEF UpdateSend
    <2>2. objects' \in [Ids -> [Attrs -> Values] \cup {Absent}] /\ resp' \in [Attrs -> Values]
      BY <1>16, <2>1 DEF UpdateSend
    <2>3. edited' \in [Attrs -> Values \cup {NoEdit}] /\ unsaid' \in SUBSET Attrs
      BY <1>16 DEF UpdateSend, Zeros, Attrs
    <2> QED
      BY <1>16, <2>2, <2>3 DEF UpdateSend
  <1>17. ASSUME NEW hookFails \in BOOLEAN, FinishUpdate(hookFails) PROVE TypeOK'
    BY <1>17, BlankType, AfterReceiveType, ToModelKnown, ApplyType DEF FinishUpdate
  <1>18. CASE Release
    BY <1>18, BlankType DEF Release
  <1>19. CASE BeginDelete
    BY <1>19 DEF BeginDelete
  <1>20. CASE DeleteSend
    BY <1>20, BlankType DEF DeleteSend
  <1>21. CASE DeleteLost
    BY <1>21, BlankType DEF DeleteLost
  <1>22. CASE Abort
    BY <1>22, BlankType DEF Abort
  <1>23. ASSUME NEW i \in Ids, NEW a \in Attrs, NEW v \in Values, AdminEdit(i, a, v)
         PROVE  TypeOK'
    <2>1. [objects[i] EXCEPT ![a] = v] \in [Attrs -> Values]
      BY <1>23 DEF AdminEdit
    <2>2. objects' \in [Ids -> [Attrs -> Values] \cup {Absent}]
      BY <1>23, <2>1 DEF AdminEdit
    <2>3. edits' \in 0..MaxEdits
      BY <1>23, KitAssumption DEF AdminEdit
    <2>4. edited' \in [Attrs -> Values \cup {NoEdit}]
      BY <1>23 DEF AdminEdit
    <2> QED
      BY <1>23, <2>2, <2>3, <2>4 DEF AdminEdit
  <1>24. CASE UNCHANGED vars
    BY <1>24 DEF vars
  <1> QED
    BY <1>1, <1>2, <1>3, <1>4, <1>5, <1>6, <1>7, <1>8, <1>9, <1>10, <1>11, <1>12, <1>13, <1>14,
       <1>15, <1>16, <1>17, <1>18, <1>19, <1>20, <1>21, <1>22, <1>23, <1>24 DEF Next

\* Every step keeps the RPC where it belongs.
LEMMA PhaseStep ==
  ASSUME TypeOK, PhaseOK, [Next]_vars
  PROVE  PhaseOK'
  <1> USE DEF TypeOK, PhaseOK, remote, tfstate, flight, history, Return, Track, Untrack
  <1>1. ASSUME NEW c \in Configs, NEW p \in Plans(c, FALSE), BeginCreate(c, p) PROVE PhaseOK'
    BY <1>1 DEF BeginCreate
  <1>2. CASE CreateHook
    BY <1>2 DEF CreateHook, Store
  <1>3. ASSUME NEW i \in Ids, NEW d \in Values, CreatePost(i, d) PROVE PhaseOK'
    BY <1>3 DEF CreatePost
  <1>4. CASE CreatePatch
    BY <1>4 DEF CreatePatch
  <1>5. CASE FinishCreate
    BY <1>5, KitAssumption DEF FinishCreate
  <1>6. CASE CreateTailFails
    BY <1>6 DEF CreateTailFails
  <1>7. ASSUME NEW i \in Ids, ImportById(i) PROVE PhaseOK'
    BY <1>7, KitAssumption DEF ImportById
  <1>8. ASSUME NEW i \in Ids, ReadObject(i) PROVE PhaseOK'
    BY <1>8, KitAssumption DEF ReadObject, Found
  <1>9. ASSUME NEW i \in Ids, AdminDelete(i) PROVE PhaseOK'
    BY <1>9 DEF AdminDelete
  <1>10. ASSUME NEW n \in Values \ {Zero}, ImportByName(n) PROVE PhaseOK'
    BY <1>10, KitAssumption DEF ImportByName
  <1>11. CASE ReadNotFound
    BY <1>11, KitAssumption DEF ReadNotFound
  <1>12. CASE ReadFails
    BY <1>12, KitAssumption DEF ReadFails
  <1>13. CASE FinishRead
    BY <1>13, KitAssumption DEF FinishRead
  <1>14. ASSUME NEW c \in Configs, NEW p \in Plans(c, TRUE), BeginUpdate(c, p) PROVE PhaseOK'
    BY <1>14 DEF BeginUpdate
  <1>15. CASE UpdateHook
    BY <1>15 DEF UpdateHook
  <1>16. CASE UpdateSend
    BY <1>16 DEF UpdateSend
  <1>17. ASSUME NEW hookFails \in BOOLEAN, FinishUpdate(hookFails) PROVE PhaseOK'
    BY <1>17 DEF FinishUpdate
  <1>18. CASE Release
    BY <1>18, KitAssumption DEF Release
  <1>19. CASE BeginDelete
    BY <1>19 DEF BeginDelete
  <1>20. CASE DeleteSend
    BY <1>20, KitAssumption DEF DeleteSend
  <1>21. CASE DeleteLost
    BY <1>21 DEF DeleteLost
  <1>22. CASE Abort
    BY <1>22 DEF Abort
  <1>23. ASSUME NEW i \in Ids, NEW a \in Attrs, NEW v \in Values, AdminEdit(i, a, v) PROVE PhaseOK'
    BY <1>23 DEF AdminEdit
  <1>24. CASE UNCHANGED vars
    BY <1>24 DEF vars
  <1> QED
    BY <1>1, <1>2, <1>3, <1>4, <1>5, <1>6, <1>7, <1>8, <1>9, <1>10, <1>11, <1>12, <1>13, <1>14,
       <1>15, <1>16, <1>17, <1>18, <1>19, <1>20, <1>21, <1>22, <1>23, <1>24 DEF Next

\* Every step keeps the model and the plan of an update in order.
LEMMA UpdateStep ==
  ASSUME TypeOK, PhaseOK, UpdateOK, [Next]_vars
  PROVE  UpdateOK'
  <1> USE DEF TypeOK, PhaseOK, UpdateOK, remote, tfstate, flight, history, Return, Track, Untrack
  <1>1. ASSUME NEW c \in Configs, NEW p \in Plans(c, FALSE), BeginCreate(c, p) PROVE UpdateOK'
    BY <1>1 DEF BeginCreate
  <1>2. CASE CreateHook
    BY <1>2 DEF CreateHook
  <1>3. ASSUME NEW i \in Ids, NEW d \in Values, CreatePost(i, d) PROVE UpdateOK'
    BY <1>3 DEF CreatePost
  <1>4. CASE CreatePatch
    BY <1>4 DEF CreatePatch
  <1>5. CASE FinishCreate
    BY <1>5 DEF FinishCreate
  <1>6. CASE CreateTailFails
    BY <1>6 DEF CreateTailFails
  <1>7. ASSUME NEW i \in Ids, ImportById(i) PROVE UpdateOK'
    BY <1>7 DEF ImportById
  <1>8. ASSUME NEW i \in Ids, ReadObject(i) PROVE UpdateOK'
    BY <1>8 DEF ReadObject
  <1>9. ASSUME NEW i \in Ids, AdminDelete(i) PROVE UpdateOK'
    BY <1>9 DEF AdminDelete
  <1>10. ASSUME NEW n \in Values \ {Zero}, ImportByName(n) PROVE UpdateOK'
    BY <1>10 DEF ImportByName
  <1>11. CASE ReadNotFound
    BY <1>11 DEF ReadNotFound
  <1>12. CASE ReadFails
    BY <1>12 DEF ReadFails
  <1>13. CASE FinishRead
    BY <1>13 DEF FinishRead
  <1>14. ASSUME NEW c \in Configs, NEW p \in Plans(c, TRUE), BeginUpdate(c, p)
         PROVE  UpdateOK'
    <2>1. c \in [Attrs -> Known] /\ p \in [Attrs -> Planned]
      BY ConfigPlanType
    <2>2. ApplyPlanToState(p, sval) \in [Attrs -> Known]
      BY <2>1, ApplyType DEF Known
    <2>3. \A a \in Attrs : p[a] \in Values => c[a] \in Values \/ p[a] = sval[a]
      BY KitAssumption DEF Plans
    <2> QED
      BY <1>14, <2>2, <2>3 DEF BeginUpdate
  <1>15. CASE UpdateHook
    BY <1>15 DEF UpdateHook
  <1>16. CASE UpdateSend
    BY <1>16 DEF UpdateSend
  <1>17. ASSUME NEW hookFails \in BOOLEAN, FinishUpdate(hookFails) PROVE UpdateOK'
    BY <1>17 DEF FinishUpdate
  <1>18. CASE Release
    BY <1>18 DEF Release
  <1>19. CASE BeginDelete
    BY <1>19 DEF BeginDelete
  <1>20. CASE DeleteSend
    BY <1>20 DEF DeleteSend
  <1>21. CASE DeleteLost
    BY <1>21 DEF DeleteLost
  <1>22. CASE Abort
    BY <1>22 DEF Abort
  <1>23. ASSUME NEW i \in Ids, NEW a \in Attrs, NEW v \in Values, AdminEdit(i, a, v) PROVE UpdateOK'
    BY <1>23 DEF AdminEdit
  <1>24. CASE UNCHANGED vars
    BY <1>24 DEF vars
  <1> QED
    BY <1>1, <1>2, <1>3, <1>4, <1>5, <1>6, <1>7, <1>8, <1>9, <1>10, <1>11, <1>12, <1>13, <1>14,
       <1>15, <1>16, <1>17, <1>18, <1>19, <1>20, <1>21, <1>22, <1>23, <1>24 DEF Next

\* No step parts the identity from the object the state tracks.
LEMMA IdentityStep ==
  ASSUME TypeOK, PhaseOK, IdentityMatchesState, [Next]_vars
  PROVE  IdentityMatchesState'
  <1> USE DEF TypeOK, PhaseOK, IdentityMatchesState, remote, tfstate, flight, history, Return,
              Track, Untrack
  <1>1. ASSUME NEW c \in Configs, NEW p \in Plans(c, FALSE), BeginCreate(c, p)
        PROVE  IdentityMatchesState'
    BY <1>1 DEF BeginCreate
  <1>2. CASE CreateHook
    BY <1>2 DEF CreateHook
  <1>3. ASSUME NEW i \in Ids, NEW d \in Values, CreatePost(i, d) PROVE IdentityMatchesState'
    BY <1>3 DEF CreatePost
  <1>4. CASE CreatePatch
    BY <1>4 DEF CreatePatch
  <1>5. CASE FinishCreate
    BY <1>5 DEF FinishCreate
  <1>6. CASE CreateTailFails
    BY <1>6 DEF CreateTailFails
  <1>7. ASSUME NEW i \in Ids, ImportById(i) PROVE IdentityMatchesState'
    BY <1>7 DEF ImportById
  <1>8. ASSUME NEW i \in Ids, ReadObject(i) PROVE IdentityMatchesState'
    BY <1>8 DEF ReadObject
  <1>9. ASSUME NEW i \in Ids, AdminDelete(i) PROVE IdentityMatchesState'
    BY <1>9 DEF AdminDelete
  <1>10. ASSUME NEW n \in Values \ {Zero}, ImportByName(n) PROVE IdentityMatchesState'
    BY <1>10 DEF ImportByName
  <1>11. CASE ReadNotFound
    BY <1>11, KitAssumption DEF ReadNotFound
  <1>12. CASE ReadFails
    BY <1>12, KitAssumption DEF ReadFails
  <1>13. CASE FinishRead
    BY <1>13 DEF FinishRead
  <1>14. ASSUME NEW c \in Configs, NEW p \in Plans(c, TRUE), BeginUpdate(c, p)
         PROVE  IdentityMatchesState'
    BY <1>14 DEF BeginUpdate
  <1>15. CASE UpdateHook
    BY <1>15 DEF UpdateHook
  <1>16. CASE UpdateSend
    BY <1>16 DEF UpdateSend
  <1>17. ASSUME NEW hookFails \in BOOLEAN, FinishUpdate(hookFails) PROVE IdentityMatchesState'
    BY <1>17 DEF FinishUpdate
  <1>18. CASE Release
    BY <1>18, KitAssumption DEF Release
  <1>19. CASE BeginDelete
    BY <1>19 DEF BeginDelete
  <1>20. CASE DeleteSend
    BY <1>20, KitAssumption DEF DeleteSend
  <1>21. CASE DeleteLost
    BY <1>21 DEF DeleteLost
  <1>22. CASE Abort
    BY <1>22 DEF Abort
  <1>23. ASSUME NEW i \in Ids, NEW a \in Attrs, NEW v \in Values, AdminEdit(i, a, v)
         PROVE  IdentityMatchesState'
    BY <1>23 DEF AdminEdit
  <1>24. CASE UNCHANGED vars
    BY <1>24 DEF vars
  <1> QED
    BY <1>1, <1>2, <1>3, <1>4, <1>5, <1>6, <1>7, <1>8, <1>9, <1>10, <1>11, <1>12, <1>13, <1>14,
       <1>15, <1>16, <1>17, <1>18, <1>19, <1>20, <1>21, <1>22, <1>23, <1>24 DEF Next

\* No step drops an owned object in silence.
LEMMA OwnedStep ==
  ASSUME TypeOK, PhaseOK, OwnedOK, [Next]_vars
  PROVE  OwnedOK'
  <1> USE DEF TypeOK, PhaseOK, OwnedOK, remote, tfstate, flight, history, Return, Track, Untrack
  <1>1. ASSUME NEW c \in Configs, NEW p \in Plans(c, FALSE), BeginCreate(c, p) PROVE OwnedOK'
    BY <1>1 DEF BeginCreate
  <1>2. CASE CreateHook
    BY <1>2 DEF CreateHook
  <1>3. ASSUME NEW i \in Ids, NEW d \in Values, CreatePost(i, d) PROVE OwnedOK'
    BY <1>3 DEF CreatePost
  <1>4. CASE CreatePatch
    BY <1>4 DEF CreatePatch
  <1>5. CASE FinishCreate
    BY <1>5, KitAssumption DEF FinishCreate
  <1>6. CASE CreateTailFails
    BY <1>6 DEF CreateTailFails
  <1>7. ASSUME NEW i \in Ids, ImportById(i) PROVE OwnedOK'
    BY <1>7, KitAssumption DEF ImportById
  <1>8. ASSUME NEW i \in Ids, ReadObject(i) PROVE OwnedOK'
    BY <1>8 DEF ReadObject
  <1>9. ASSUME NEW i \in Ids, AdminDelete(i) PROVE OwnedOK'
    BY <1>9 DEF AdminDelete
  <1>10. ASSUME NEW n \in Values \ {Zero}, ImportByName(n) PROVE OwnedOK'
    BY <1>10, KitAssumption DEF ImportByName
  <1>11. CASE ReadNotFound
    BY <1>11 DEF ReadNotFound, Found
  <1>12. CASE ReadFails
    BY <1>12 DEF ReadFails
  <1>13. CASE FinishRead
    BY <1>13 DEF FinishRead
  <1>14. ASSUME NEW c \in Configs, NEW p \in Plans(c, TRUE), BeginUpdate(c, p) PROVE OwnedOK'
    BY <1>14 DEF BeginUpdate
  <1>15. CASE UpdateHook
    BY <1>15 DEF UpdateHook
  <1>16. CASE UpdateSend
    BY <1>16 DEF UpdateSend
  <1>17. ASSUME NEW hookFails \in BOOLEAN, FinishUpdate(hookFails) PROVE OwnedOK'
    BY <1>17 DEF FinishUpdate
  <1>18. CASE Release
    BY <1>18 DEF Release
  <1>19. CASE BeginDelete
    BY <1>19 DEF BeginDelete
  <1>20. CASE DeleteSend
    BY <1>20 DEF DeleteSend
  <1>21. CASE DeleteLost
    BY <1>21 DEF DeleteLost
  <1>22. CASE Abort
    BY <1>22 DEF Abort
  <1>23. ASSUME NEW i \in Ids, NEW a \in Attrs, NEW v \in Values, AdminEdit(i, a, v) PROVE OwnedOK'
    BY <1>23 DEF AdminEdit
  <1>24. CASE UNCHANGED vars
    BY <1>24 DEF vars
  <1> QED
    BY <1>1, <1>2, <1>3, <1>4, <1>5, <1>6, <1>7, <1>8, <1>9, <1>10, <1>11, <1>12, <1>13, <1>14,
       <1>15, <1>16, <1>17, <1>18, <1>19, <1>20, <1>21, <1>22, <1>23, <1>24 DEF Next

\* No step writes over an edit the configuration does not claim.
LEMMA EditsStep ==
  ASSUME TypeOK, PhaseOK, UpdateOK, AdminEditSurvives, [Next]_vars
  PROVE  AdminEditSurvives'
  <1> USE DEF TypeOK, PhaseOK, UpdateOK, AdminEditSurvives, remote, tfstate, flight, history,
              Return, Track, Untrack
  <1>1. ASSUME NEW c \in Configs, NEW p \in Plans(c, FALSE), BeginCreate(c, p)
        PROVE  AdminEditSurvives'
    BY <1>1 DEF BeginCreate, NoEdits
  <1>2. CASE CreateHook
    BY <1>2, KitAssumption DEF CreateHook, Store
  <1>3. ASSUME NEW i \in Ids, NEW d \in Values, CreatePost(i, d) PROVE AdminEditSurvives'
    BY <1>3, KitAssumption DEF CreatePost, NoEdits
  <1>4. CASE CreatePatch
    BY <1>4, KitAssumption DEF CreatePatch, Store
  <1>5. CASE FinishCreate
    BY <1>5, KitAssumption DEF FinishCreate, NoEdits
  <1>6. CASE CreateTailFails
    BY <1>6 DEF CreateTailFails, NoEdits
  <1>7. ASSUME NEW i \in Ids, ImportById(i) PROVE AdminEditSurvives'
    BY <1>7, KitAssumption DEF ImportById, NoEdits
  <1>8. ASSUME NEW i \in Ids, ReadObject(i) PROVE AdminEditSurvives'
    BY <1>8 DEF ReadObject, NoEdits
  <1>9. ASSUME NEW i \in Ids, AdminDelete(i) PROVE AdminEditSurvives'
    BY <1>9 DEF AdminDelete, NoEdits
  <1>10. ASSUME NEW n \in Values \ {Zero}, ImportByName(n) PROVE AdminEditSurvives'
    BY <1>10, KitAssumption DEF ImportByName, NoEdits
  <1>11. CASE ReadNotFound
    BY <1>11 DEF ReadNotFound, NoEdits
  <1>12. CASE ReadFails
    BY <1>12 DEF ReadFails, NoEdits
  <1>13. CASE FinishRead
    BY <1>13 DEF FinishRead, NoEdits
  <1>14. ASSUME NEW c \in Configs, NEW p \in Plans(c, TRUE), BeginUpdate(c, p)
         PROVE  AdminEditSurvives'
    BY <1>14 DEF BeginUpdate, NoEdits
  <1>15. CASE UpdateHook
    BY <1>15 DEF UpdateHook, Store, NoEdits
  <1>16. CASE UpdateSend
    <2>1. SUFFICES ASSUME objects[target] # Absent, NEW a \in Attrs, edited[a] # NoEdit,
                          a \notin Claimed, a \in UpdateMask(plan, work)
          PROVE  Sent(work)[a] = edited[a]
      BY <1>16 DEF UpdateSend, Store
    <2>2. a \in (Field \ ReadOnly) \cup Hook /\ (a \in Hook \/ plan[a] \in Values)
      BY <2>1 DEF UpdateMask, MaskFields, SetInPlan
    <2>3. cfg[a] \notin Values /\ sval[a] = Decode(a, edited[a])
      BY <2>1, <2>2 DEF Claimed
    <2>4. work[a] = sval[a]
      BY <1>16, <2>2, <2>3, KitAssumption DEF UpdateSend, ApplyPlanToState, SetInPlan
    <2>5. a \in Field => sval[a] \in Values
      BY <1>16, <2>2, <2>3, KitAssumption DEF UpdateSend
    <2>6. edited[a] \in Values
      BY <2>1
    <2>7. Sent(work)[a] = IF sval[a] \in Values THEN sval[a] ELSE Zero
      BY <2>2, <2>4, <2>5, KitAssumption DEF Sent, BeforeSend, ToSDK, SetInPlan
    <2> QED
      BY <2>3, <2>6, <2>7, KitAssumption DEF Decode
  <1>17. ASSUME NEW hookFails \in BOOLEAN, FinishUpdate(hookFails) PROVE AdminEditSurvives'
    BY <1>17 DEF FinishUpdate, NoEdits
  <1>18. CASE Release
    BY <1>18 DEF Release, NoEdits
  <1>19. CASE BeginDelete
    BY <1>19 DEF BeginDelete, NoEdits
  <1>20. CASE DeleteSend
    BY <1>20 DEF DeleteSend, NoEdits
  <1>21. CASE DeleteLost
    BY <1>21 DEF DeleteLost, NoEdits
  <1>22. CASE Abort
    BY <1>22 DEF Abort, NoEdits
  <1>23. ASSUME NEW i \in Ids, NEW a \in Attrs, NEW v \in Values, AdminEdit(i, a, v)
         PROVE  AdminEditSurvives'
    BY <1>23 DEF AdminEdit, NoEdits
  <1>24. CASE UNCHANGED vars
    BY <1>24 DEF vars
  <1> QED
    BY <1>1, <1>2, <1>3, <1>4, <1>5, <1>6, <1>7, <1>8, <1>9, <1>10, <1>11, <1>12, <1>13, <1>14,
       <1>15, <1>16, <1>17, <1>18, <1>19, <1>20, <1>21, <1>22, <1>23, <1>24 DEF Next

-----------------------------------------------------------------------------
(* What an apply carries from the plan to the wire, and from the answer back. *)

\* The model a plan is applied to takes every value the plan decides.
LEMMA ApplyDecides ==
  ASSUME NEW p, NEW m
  PROVE  \A a \in Decided : p[a] \in Values => ApplyPlanToState(p, m)[a] = p[a]
  BY DEF Decided, ApplyPlanToState, SetInPlan, Attrs

\* So does the object built from a model, and the mask names the wire.
LEMMA SentDecides ==
  ASSUME NEW m
  PROVE  \A a \in Decided : m[a] \in Values => Sent(m)[a] = m[a] /\ a \in MaskFields(m)
  BY KitAssumption DEF Decided, Sent, BeforeSend, ToSDK, SetInPlan, MaskFields, Attrs

\* An answer reaches the model decoded; what the hooks own and nobody manages stays null.
LEMMA DecodeMirrors ==
  ASSUME NEW sdk \in [Attrs -> Values], NEW m \in [Attrs -> Planned],
         NEW a \in Attrs, NEW x, x = AfterReceive(sdk, ToModel(sdk, m))[a]
  PROVE  x = Decode(a, sdk[a]) \/ (x = Null /\ a \in HookOwned)
  BY KitAssumption DEF AfterReceive, ToModel, Attrs

\* Every step carries the plan to the wire and the answer back.
LEMMA AnswerStep ==
  ASSUME TypeOK, PhaseOK, AnswerOK, [Next]_vars
  PROVE  AnswerOK'
  <1> USE DEF TypeOK, PhaseOK, AnswerOK, Decided, Said, remote, tfstate, flight, history, Return,
              Track, Untrack
  <1>1. ASSUME NEW c \in Configs, NEW p \in Plans(c, FALSE), BeginCreate(c, p) PROVE AnswerOK'
    BY <1>1 DEF BeginCreate
  <1>2. CASE CreateHook
    BY <1>2 DEF CreateHook
  <1>3. ASSUME NEW i \in Ids, NEW d \in Values, CreatePost(i, d) PROVE AnswerOK'
    <2>1. objects'[i] = resp' /\ target' = i /\ pc' = "createSent" /\ plan' = plan
      BY <1>3 DEF CreatePost
    <2>2. \A a \in Decided \ Discards : plan[a] \in Values \ {Zero} => resp'[a] = plan[a]
      BY <1>3, SentDecides DEF CreatePost, Attrs
    <2>3. \A a \in Decided : plan[a] = Zero => a \in unsaid'
      BY <1>3 DEF CreatePost, Zeros
    <2> QED
      BY <1>3, <2>1, <2>2, <2>3, KitAssumption DEF CreatePost
  <1>4. CASE CreatePatch
    <2>1. objects'[target'] = resp' /\ pc' = "createSent" /\ plan' = plan
      BY <1>4 DEF CreatePatch
    <2>2. \A a \in Decided \ Discards : plan[a] \in Values => resp'[a] = plan[a]
      BY <1>4, SentDecides DEF CreatePatch, Store, Attrs
    <2> QED
      BY <1>4, <2>1, <2>2, KitAssumption DEF CreatePatch
  <1>5. CASE FinishCreate
    BY <1>5 DEF FinishCreate
  <1>6. CASE CreateTailFails
    BY <1>6 DEF CreateTailFails
  <1>7. ASSUME NEW i \in Ids, ImportById(i) PROVE AnswerOK'
    BY <1>7 DEF ImportById
  <1>8. ASSUME NEW i \in Ids, ReadObject(i) PROVE AnswerOK'
    BY <1>8 DEF ReadObject
  <1>9. ASSUME NEW i \in Ids, AdminDelete(i) PROVE AnswerOK'
    BY <1>9 DEF AdminDelete
  <1>10. ASSUME NEW n \in Values \ {Zero}, ImportByName(n) PROVE AnswerOK'
    BY <1>10 DEF ImportByName
  <1>11. CASE ReadNotFound
    BY <1>11 DEF ReadNotFound
  <1>12. CASE ReadFails
    BY <1>12 DEF ReadFails
  <1>13. CASE FinishRead
    BY <1>13 DEF FinishRead
  <1>14. ASSUME NEW c \in Configs, NEW p \in Plans(c, TRUE), BeginUpdate(c, p)
         PROVE  AnswerOK'
    BY <1>14, ApplyDecides DEF BeginUpdate
  <1>15. CASE UpdateHook
    BY <1>15 DEF UpdateHook
  <1>16. CASE UpdateSend
    <2>1. objects'[target'] = resp' /\ pc' = "updateSent" /\ plan' = plan
      BY <1>16 DEF UpdateSend
    <2>2. ASSUME NEW a \in Decided \ Discards, plan[a] \in Values, plan[a] # Zero \/ a \notin Slots
          PROVE  resp'[a] = plan[a]
      <3>1. work[a] = plan[a] /\ Sent(work)[a] = plan[a]
        BY <1>16, <2>2, SentDecides DEF UpdateSend
      <3>2. a \in UpdateMask(plan, work)
        BY <2>2, <3>1, SentDecides DEF UpdateMask, UnwritableWires
      <3> QED
        BY <1>16, <2>2, <3>1, <3>2 DEF UpdateSend, Store, Attrs
    <2>3. \A a \in Decided : plan[a] = Zero /\ a \in Slots => a \in unsaid'
      BY <1>16 DEF UpdateSend, Zeros
    <2> QED
      BY <1>16, <2>1, <2>2, <2>3, KitAssumption DEF UpdateSend
  <1>17. ASSUME NEW hookFails \in BOOLEAN, FinishUpdate(hookFails) PROVE AnswerOK'
    BY <1>17 DEF FinishUpdate
  <1>18. CASE Release
    BY <1>18 DEF Release
  <1>19. CASE BeginDelete
    BY <1>19 DEF BeginDelete
  <1>20. CASE DeleteSend
    BY <1>20 DEF DeleteSend
  <1>21. CASE DeleteLost
    BY <1>21 DEF DeleteLost
  <1>22. CASE Abort
    BY <1>22 DEF Abort
  <1>23. ASSUME NEW i \in Ids, NEW a \in Attrs, NEW v \in Values, AdminEdit(i, a, v) PROVE AnswerOK'
    BY <1>23 DEF AdminEdit
  <1>24. CASE UNCHANGED vars
    BY <1>24 DEF vars
  <1> QED
    BY <1>1, <1>2, <1>3, <1>4, <1>5, <1>6, <1>7, <1>8, <1>9, <1>10, <1>11, <1>12, <1>13, <1>14,
       <1>15, <1>16, <1>17, <1>18, <1>19, <1>20, <1>21, <1>22, <1>23, <1>24 DEF Next

\* Every step that ends an RPC well leaves the controller's values in the state.
LEMMA MirrorStep ==
  ASSUME TypeOK, PhaseOK, AnswerOK, StateMirrorsController, [Next]_vars
  PROVE  StateMirrorsController'
  <1> USE DEF TypeOK, PhaseOK, AnswerOK, Decided, Said, StateMirrorsController, remote, tfstate,
              flight, history, Return, Track, Untrack
  <1>1. ASSUME NEW c \in Configs, NEW p \in Plans(c, FALSE), BeginCreate(c, p)
        PROVE  StateMirrorsController'
    BY <1>1 DEF BeginCreate
  <1>2. CASE CreateHook
    BY <1>2 DEF CreateHook
  <1>3. ASSUME NEW i \in Ids, NEW d \in Values, CreatePost(i, d) PROVE StateMirrorsController'
    BY <1>3 DEF CreatePost
  <1>4. CASE CreatePatch
    BY <1>4 DEF CreatePatch
  <1>5. CASE FinishCreate
    <2>1. SUFFICES ASSUME outcome' = "ok", quiet, NEW a \in Attrs \ Discards
          PROVE  Mirrors(a, resp[a], sval'[a])
      BY <1>5 DEF FinishCreate, Mirrors
    <2> DEFINE heard == AfterReceive(resp, ToModel(resp, work))
    <2>2. sval' = ApplyPlanToState(plan, heard)
      BY <1>5, <2>1 DEF FinishCreate, Recorded
    <2>3. heard[a] = Decode(a, resp[a]) \/ (heard[a] = Null /\ a \in HookOwned)
      BY DecodeMirrors DEF Planned
    <2>4. a \in Decided =>
            /\ plan[a] \in Values \ {Zero} => resp[a] = plan[a]
            /\ plan[a] = Zero => resp[a] = Zero \/ a \in unsaid
      BY <1>5, <2>1 DEF FinishCreate
    <2>5. sval'[a] = heard[a] \/ (a \in Decided /\ plan[a] \in Values /\ sval'[a] = plan[a])
      BY <2>2 DEF ApplyPlanToState, SetInPlan, Attrs
    <2> HIDE DEF heard
    <2> QED
      BY <2>3, <2>4, <2>5, KitAssumption DEF Mirrors, Decode
  <1>6. CASE CreateTailFails
    BY <1>6 DEF CreateTailFails
  <1>7. ASSUME NEW i \in Ids, ImportById(i) PROVE StateMirrorsController'
    BY <1>7 DEF ImportById
  <1>8. ASSUME NEW i \in Ids, ReadObject(i) PROVE StateMirrorsController'
    BY <1>8 DEF ReadObject
  <1>9. ASSUME NEW i \in Ids, AdminDelete(i) PROVE StateMirrorsController'
    BY <1>9 DEF AdminDelete
  <1>10. ASSUME NEW n \in Values \ {Zero}, ImportByName(n) PROVE StateMirrorsController'
    BY <1>10 DEF ImportByName
  <1>11. CASE ReadNotFound
    BY <1>11, KitAssumption DEF ReadNotFound
  <1>12. CASE ReadFails
    BY <1>12 DEF ReadFails
  <1>13. CASE FinishRead
    <2>1. SUFFICES ASSUME quiet, NEW a \in Attrs \ Discards
          PROVE  Mirrors(a, resp[a], sval'[a])
      BY <1>13 DEF FinishRead, Mirrors
    <2>2. sval'[a] = AfterReceive(resp, ToModel(resp, sval))[a]
      BY <1>13 DEF FinishRead
    <2> QED
      BY <2>2, DecodeMirrors DEF Planned, Mirrors
  <1>14. ASSUME NEW c \in Configs, NEW p \in Plans(c, TRUE), BeginUpdate(c, p)
         PROVE  StateMirrorsController'
    BY <1>14 DEF BeginUpdate
  <1>15. CASE UpdateHook
    BY <1>15 DEF UpdateHook
  <1>16. CASE UpdateSend
    BY <1>16 DEF UpdateSend
  <1>17. ASSUME NEW hookFails \in BOOLEAN, FinishUpdate(hookFails)
         PROVE  StateMirrorsController'
    <2>1. SUFFICES ASSUME outcome' = "ok", quiet, NEW a \in Attrs \ Discards
          PROVE  Mirrors(a, resp[a], sval'[a])
      BY <1>17 DEF FinishUpdate, Mirrors
    <2> DEFINE heard == AfterReceive(resp, ToModel(resp, work))
    <2>2. sval' = ApplyPlanToState(plan, heard)
      BY <1>17, <2>1 DEF FinishUpdate, Recorded
    <2>3. heard[a] = Decode(a, resp[a]) \/ (heard[a] = Null /\ a \in HookOwned)
      BY DecodeMirrors DEF Planned
    <2>4. a \in Decided =>
            /\ plan[a] \in Values \ {Zero} => resp[a] = plan[a]
            /\ plan[a] = Zero => resp[a] = Zero \/ a \in unsaid
      BY <1>17, <2>1 DEF FinishUpdate
    <2>5. sval'[a] = heard[a] \/ (a \in Decided /\ plan[a] \in Values /\ sval'[a] = plan[a])
      BY <2>2 DEF ApplyPlanToState, SetInPlan, Attrs
    <2> HIDE DEF heard
    <2> QED
      BY <2>3, <2>4, <2>5, KitAssumption DEF Mirrors, Decode
  <1>18. CASE Release
    BY <1>18, KitAssumption DEF Release
  <1>19. CASE BeginDelete
    BY <1>19 DEF BeginDelete
  <1>20. CASE DeleteSend
    BY <1>20, KitAssumption DEF DeleteSend
  <1>21. CASE DeleteLost
    BY <1>21 DEF DeleteLost
  <1>22. CASE Abort
    BY <1>22 DEF Abort
  <1>23. ASSUME NEW i \in Ids, NEW a \in Attrs, NEW v \in Values, AdminEdit(i, a, v)
         PROVE  StateMirrorsController'
    BY <1>23 DEF AdminEdit
  <1>24. CASE UNCHANGED vars
    BY <1>24 DEF vars
  <1> QED
    BY <1>1, <1>2, <1>3, <1>4, <1>5, <1>6, <1>7, <1>8, <1>9, <1>10, <1>11, <1>12, <1>13, <1>14,
       <1>15, <1>16, <1>17, <1>18, <1>19, <1>20, <1>21, <1>22, <1>23, <1>24 DEF Next

-----------------------------------------------------------------------------
(* Theorems.                                                                *)

\* Init and every step establish the inductive invariant.
THEOREM Inductive == Spec => []IInv
  <1>1. Init => IInv
    <2> SUFFICES ASSUME Init PROVE IInv
      OBVIOUS
    <2>1. TypeOK
      <3>1. objects \in [Ids -> [Attrs -> Values] \cup {Absent}]
        BY BlankType DEF Init
      <3>2. edits \in 0..MaxEdits
        BY KitAssumption DEF Init
      <3> QED
        BY <3>1, <3>2, BlankType, KitAssumption DEF Init, TypeOK, Phases, Known
    <2>2. PhaseOK /\ UpdateOK /\ IdentityMatchesState /\ OwnedOK
      BY KitAssumption DEF Init, PhaseOK, UpdateOK, IdentityMatchesState, OwnedOK
    <2>3. AdminEditSurvives /\ AnswerOK /\ StateMirrorsController
      BY KitAssumption DEF Init, AdminEditSurvives, AnswerOK, StateMirrorsController
    <2> QED
      BY <2>1, <2>2, <2>3 DEF IInv
  <1>2. IInv /\ [Next]_vars => IInv'
    BY TypeOKStep, PhaseStep, UpdateStep, IdentityStep, OwnedStep, EditsStep, AnswerStep, MirrorStep
    DEF IInv
  <1> QED
    BY <1>1, <1>2, PTL DEF Spec

\* Every variable keeps its type, and nothing unknown reaches the state.
THEOREM TypeCorrect == Spec => []TypeOK
  <1>1. IInv => TypeOK
    BY DEF IInv
  <1> QED
    BY <1>1, Inductive, PTL

\* No object Terraform wrote is dropped in silence.
THEOREM NoOrphan == Spec => []NoSilentOrphan
  <1>1. IInv => NoSilentOrphan
    BY DEF IInv, OwnedOK, NoSilentOrphan
  <1> QED
    BY <1>1, Inductive, PTL

\* The stored identity names the tracked object.
THEOREM IdentityStable == Spec => []IdentityMatchesState
  <1>1. IInv => IdentityMatchesState
    BY DEF IInv
  <1> QED
    BY <1>1, Inductive, PTL

\* Edits of what the configuration leaves out survive every apply, but for one no refresh has
\* read of a value the plan or a hook carries from state.
THEOREM EditsSurvive == Spec => []AdminEditSurvives
  <1>1. IInv => AdminEditSurvives
    BY DEF IInv
  <1> QED
    BY <1>1, Inductive, PTL

\* Until somebody edits the object, a refresh brings back no diff, but for an explicit zero that
\* reads as null or that the write could not say.
THEOREM NoPerpetualDiff == Spec => []StateMirrorsController
  <1>1. IInv => StateMirrorsController
    BY DEF IInv
  <1> QED
    BY <1>1, Inductive, PTL

\* An RPC that reports an apply as done is one of these two steps.
LEMMA AppliedSteps ==
  ASSUME [Next]_vars, Applied
  PROVE  FinishCreate \/ FinishUpdate(FALSE)
  <1> USE DEF Applied, Return
  <1>1. pc # pc'
    OBVIOUS
  <1>2. \A c, p : ~BeginCreate(c, p) /\ ~BeginUpdate(c, p)
    BY DEF BeginCreate, BeginUpdate
  <1>3. ~CreateHook /\ ~CreatePatch /\ ~UpdateHook /\ ~UpdateSend /\ \A i, d : ~CreatePost(i, d)
    BY DEF CreateHook, CreatePatch, CreatePost, UpdateHook, UpdateSend
  <1>4. ~CreateTailFails /\ ~Abort /\ ~ReadNotFound /\ ~ReadFails /\ ~FinishRead
    BY DEF CreateTailFails, Abort, ReadNotFound, ReadFails, FinishRead
  <1>5. \A i : ~ImportById(i) /\ ~ImportByName(i) /\ ~ReadObject(i) /\ ~AdminDelete(i)
    BY DEF ImportById, ImportByName, ReadObject, AdminDelete
  <1>6. ~Release /\ ~BeginDelete /\ ~DeleteSend /\ ~DeleteLost
    BY DEF Release, BeginDelete, DeleteSend, DeleteLost
  <1>7. \A i, a, v : ~AdminEdit(i, a, v)
    BY DEF AdminEdit
  <1>8. \A hookFails \in BOOLEAN : FinishUpdate(hookFails) => FinishUpdate(FALSE)
    BY DEF FinishUpdate
  <1> QED
    BY <1>1, <1>2, <1>3, <1>4, <1>5, <1>6, <1>7, <1>8 DEF Next, vars

\* The plan wins over the response.
THEOREM PlanPrevails == Spec => PlanWins
  <1> DEFINE Step == Applied => \A a \in Attrs \ (HookOwned \cup ReadOnly) :
                                  plan[a] \in Values => sval'[a] = plan[a]
  <1>1. [Next]_vars => Step
    <2>1. SUFFICES ASSUME [Next]_vars, Applied,
                          NEW a \in Attrs \ (HookOwned \cup ReadOnly), plan[a] \in Values
          PROVE  sval'[a] = plan[a]
      OBVIOUS
    <2>2. \E m : sval' = ApplyPlanToState(plan, m)
      BY <2>1, AppliedSteps DEF FinishCreate, FinishUpdate, Track, Recorded
    <2> QED
      BY <2>1, <2>2, ApplyDecides DEF Decided, Attrs
  <1> HIDE DEF Step
  <1>2. [Next]_vars => [Step]_vars
    BY <1>1
  <1> QED
    BY <1>2, PTL DEF Spec, PlanWins, Step

\* What a masked apply reports as done is what the controller holds.
THEOREM ApplyReaches == Spec => AppliedReachesController
  <1> DEFINE Step == Applied /\ quiet /\ (MaskedCreate \/ pc = "updateSent") =>
                       \A a \in (Field \ ReadOnly) \cup Hook :
                         plan[a] \in Values /\ a \notin Discards /\ ~(a \in Slots /\ plan[a] = Zero)
                           => objects[target][a] = plan[a]
  <1>1. IInv /\ [Next]_vars => Step
    BY DEF IInv, AnswerOK, Applied, Said, Decided
  <1> HIDE DEF Step
  <1>2. IInv /\ [Next]_vars => [Step]_vars
    BY <1>1
  <1> QED
    BY <1>2, Inductive, PTL DEF Spec, AppliedReachesController, Step

-----------------------------------------------------------------------------
(* One more invariant: what is let go is not tracked.                       *)

\* A resource that was read or written since it was imported is no loose end: neither lost by
\* a create nor released.
LooseOK == sid # NoState /\ ~importing => sid \notin leaked \cup released

\* No step leaves a loose end in the state.
LEMMA LooseStep ==
  ASSUME TypeOK, PhaseOK, LooseOK, [Next]_vars
  PROVE  LooseOK'
  <1> USE DEF TypeOK, PhaseOK, LooseOK, remote, tfstate, flight, history, Return, Track, Untrack
  <1>1. ASSUME NEW c \in Configs, NEW p \in Plans(c, FALSE), BeginCreate(c, p) PROVE LooseOK'
    BY <1>1 DEF BeginCreate
  <1>2. CASE CreateHook
    BY <1>2 DEF CreateHook
  <1>3. ASSUME NEW i \in Ids, NEW d \in Values, CreatePost(i, d) PROVE LooseOK'
    BY <1>3 DEF CreatePost
  <1>4. CASE CreatePatch \/ FinishCreate \/ CreateTailFails
    BY <1>4 DEF CreatePatch, FinishCreate, CreateTailFails
  <1>5. ASSUME NEW i \in Ids, ImportById(i) \/ ReadObject(i) \/ AdminDelete(i) PROVE LooseOK'
    BY <1>5 DEF ImportById, ReadObject, AdminDelete
  <1>6. ASSUME NEW n \in Values \ {Zero}, ImportByName(n) PROVE LooseOK'
    BY <1>6 DEF ImportByName
  <1>7. CASE ReadNotFound \/ ReadFails \/ FinishRead
    BY <1>7 DEF ReadNotFound, ReadFails, FinishRead
  <1>8. ASSUME NEW c \in Configs, NEW p \in Plans(c, TRUE), BeginUpdate(c, p) PROVE LooseOK'
    BY <1>8 DEF BeginUpdate
  <1>9. CASE UpdateHook \/ UpdateSend
    BY <1>9 DEF UpdateHook, UpdateSend
  <1>10. ASSUME NEW hookFails \in BOOLEAN, FinishUpdate(hookFails) PROVE LooseOK'
    BY <1>10 DEF FinishUpdate
  <1>11. CASE Release \/ BeginDelete \/ DeleteSend \/ DeleteLost \/ Abort
    BY <1>11 DEF Release, BeginDelete, DeleteSend, DeleteLost, Abort
  <1>12. ASSUME NEW i \in Ids, NEW a \in Attrs, NEW v \in Values, AdminEdit(i, a, v) PROVE LooseOK'
    BY <1>12 DEF AdminEdit
  <1>13. CASE UNCHANGED vars
    BY <1>13 DEF vars
  <1> QED
    BY <1>1, <1>2, <1>3, <1>4, <1>5, <1>6, <1>7, <1>8, <1>9, <1>10, <1>11, <1>12, <1>13 DEF Next

-----------------------------------------------------------------------------
(* The refinement mapping.                                                  *)

\* The objects the controller holds: "present" of the mapping.
Held == {i \in Ids : objects[i] # Absent}

\* A write leaves an object where one was, and only a deletion removes one.
LEMMA HeldAfter ==
  ASSUME TypeOK, NEW i \in Ids, NEW x, objects' = [objects EXCEPT ![i] = x]
  PROVE  /\ x \in [Attrs -> Values] => Held' = Held \cup {i}
         /\ x = Absent => Held' = Held \ {i}
  BY KitAssumption DEF TypeOK, Held

\* Where no create is between its write and its end, the lifecycle is making nothing.
LEMMA StepsFromIdle ==
  ASSUME PhaseOK, pc # "createSent", pc' # "createSent", UNCHANGED <<sid, importing, leaked, released>>
  PROVE  /\ Held' = Held /\ outcome' = outcome => UNCHANGED Lifecycle!vars
         /\ Held' = Held /\ outcome' \in {"ok", "error"} => Lifecycle!Answer
  BY DEF Lifecycle!vars, Lifecycle!state, Lifecycle!Answer, Held

\* The engine starts where the lifecycle starts.
LEMMA InitMaps == Init => Lifecycle!Init
  BY KitAssumption DEF Init, Lifecycle!Init, NoVals, Blank

\* Up to its write a create makes nothing; its write makes one object.
LEMMA CreateMaps ==
  ASSUME IInv,
         \/ \E c \in Configs : \E p \in Plans(c, FALSE) : BeginCreate(c, p)
         \/ CreateHook \/ CreatePatch \/ \E i \in Ids, d \in Values : CreatePost(i, d)
  PROVE  [Lifecycle!Next]_(Lifecycle!vars)
  <1> USE DEF IInv, remote, tfstate, flight, history
  <1>1. ASSUME NEW c \in Configs, NEW p \in Plans(c, FALSE), BeginCreate(c, p)
        PROVE  UNCHANGED Lifecycle!vars
    BY <1>1, StepsFromIdle DEF BeginCreate, Held
  <1>2. CASE CreateHook
    <2>1. CASE ~MaskedCreate
      BY <1>2, <2>1, StepsFromIdle DEF CreateHook, Held
    <2>2. CASE MaskedCreate
      <3>1. PICK i \in Ids : /\ objects[i] # Absent
                             /\ objects' = [objects EXCEPT ![i] =
                                  Store(@, cfg, {a \in HookOwned : cfg[a] \in Values})]
        BY <1>2, <2>2 DEF CreateHook
      <3>2. Store(objects[i], cfg, {a \in HookOwned : cfg[a] \in Values}) \in [Attrs -> Values]
        BY <3>1 DEF Store, TypeOK
      <3>3. Held' = Held
        BY <3>1, <3>2, HeldAfter DEF Held
      <3> QED
        BY <1>2, <3>3, StepsFromIdle DEF CreateHook
    <2> QED
      BY <2>1, <2>2
  <1>3. ASSUME NEW i \in Ids, NEW d \in Values, CreatePost(i, d)
        PROVE  Lifecycle!Make(i)
    <2> DEFINE made == [a \in Attrs |-> IF Sent(work)[a] = Zero \/ a \in Discards THEN d
                                          ELSE Sent(work)[a]]
    <2>1. made \in [Attrs -> Values] /\ objects' = [objects EXCEPT ![i] = made]
      BY <1>3, SentType DEF CreatePost, TypeOK, Planned
    <2>2. Held' = Held \cup {i}
      BY <2>1, HeldAfter
    <2> QED
      BY <1>3, <2>2 DEF CreatePost, PhaseOK, Held, Lifecycle!Make
  <1>4. CASE CreatePatch
    <2>1. target \in Ids /\ sid = NoState /\ objects[target] \in [Attrs -> Values]
      BY <1>4 DEF CreatePatch, PhaseOK, TypeOK
    <2> DEFINE stored == Store(objects[target], Sent(work), MaskFields(plan))
    <2>2. stored \in [Attrs -> Values] /\ objects' = [objects EXCEPT ![target] = stored]
      BY <1>4, <2>1, SentType, StoreType DEF CreatePatch, TypeOK, Planned
    <2>3. Held' = Held \cup {target}
      BY <2>1, <2>2, HeldAfter
    <2>4. PICK i \in Ids : i = target
      BY <2>1
    <2>5. Lifecycle!Make(i)
      BY <1>4, <2>1, <2>3, <2>4 DEF CreatePatch, Held, Lifecycle!Make
    <2> QED
      BY <2>5 DEF Lifecycle!Next
  <1> QED
    BY <1>1, <1>2, <1>3, <1>4 DEF Lifecycle!Next

\* A create that ends records the object it made, or says that it lost it.
LEMMA CreateEndMaps ==
  ASSUME IInv, FinishCreate \/ CreateTailFails \/ (Abort /\ pc = "createSent")
  PROVE  Lifecycle!Record \/ Lifecycle!Lose
  <1> USE DEF IInv, PhaseOK, Return, remote, tfstate, history
  <1>1. target \in Ids /\ target # NoState /\ sid = NoState
    BY KitAssumption DEF FinishCreate, CreateTailFails
  <1>2. CASE FinishCreate
    BY <1>1, <1>2 DEF FinishCreate, Track, Lifecycle!Record
  <1>3. CASE CreateTailFails \/ (Abort /\ pc = "createSent")
    BY <1>1, <1>3 DEF CreateTailFails, Abort, Lifecycle!Lose
  <1> QED
    BY <1>2, <1>3

\* An import names a resource.
LEMMA ImportMaps ==
  ASSUME IInv, (\E i \in Ids : ImportById(i)) \/ (\E n \in Values \ {Zero} : ImportByName(n))
  PROVE  \E t \in Ids \cup {NoId} : Lifecycle!Import(t)
  <1> USE DEF IInv, remote, tfstate, history
  <1>1. ASSUME NEW i \in Ids, ImportById(i) PROVE Lifecycle!Import(i)
    BY <1>1 DEF ImportById, Lifecycle!Import
  <1>2. ASSUME NEW n \in Values \ {Zero}, ImportByName(n) PROVE Lifecycle!Import(NoId)
    BY <1>2 DEF ImportByName, Lifecycle!Import
  <1> QED
    BY <1>1, <1>2

\* A read confirms an import or discards it, forgets an object that is gone, or just answers.
LEMMA ReadMaps ==
  ASSUME IInv, LooseOK,
         (\E i \in Ids : ReadObject(i)) \/ ReadNotFound \/ ReadFails \/ FinishRead
  PROVE  [Lifecycle!Next]_(Lifecycle!vars)
  <1> USE DEF IInv, PhaseOK, Return, remote, tfstate, flight, history
  <1>1. ASSUME NEW i \in Ids, ReadObject(i) PROVE UNCHANGED Lifecycle!vars
    BY <1>1, StepsFromIdle DEF ReadObject, Held
  <1>2. CASE ReadNotFound
    <2>1. /\ sid # NoState /\ pc # "createSent" /\ pc' # "createSent" /\ sid' = NoState
          /\ outcome' \in {"ok", "error"} /\ UNCHANGED <<objects, leaked, released>>
      BY <1>2 DEF ReadNotFound, Untrack
    <2>2. CASE importing
      BY <2>1, <2>2 DEF Lifecycle!Next, Lifecycle!DiscardImport, Lifecycle!LetGo
    <2>3. CASE ~importing
      <3>1. sid \in Ids /\ sid \notin Held /\ outcome' = "ok"
        BY <1>2, <2>1, <2>3 DEF ReadNotFound, Found, Held, TypeOK
      <3>2. Lifecycle!Forget
        BY <2>1, <3>1 DEF Held, Lifecycle!Forget, Lifecycle!LetGo
      <3> QED
        BY <3>2 DEF Lifecycle!Next
    <2> QED
      BY <2>2, <2>3
  <1>3. CASE ReadFails
    <2>1. CASE importing
      BY <1>3, <2>1 DEF ReadFails, Untrack, Lifecycle!Next, Lifecycle!DiscardImport, Lifecycle!LetGo
    <2>2. CASE ~importing
      <3>1. Lifecycle!Answer
        BY <1>3, <2>2, StepsFromIdle DEF ReadFails, Held, TypeOK
      <3> QED
        BY <3>1 DEF Lifecycle!Next
    <2> QED
      BY <2>1, <2>2
  <1>4. CASE FinishRead
    <2>1. CASE importing
      <3>1. /\ sid # NoState /\ sid' = target /\ target \in Ids /\ (sid = NoId \/ target = sid)
            /\ ~importing' /\ target # NoState /\ outcome' = "ok" /\ pc # "createSent"
            /\ pc' # "createSent" /\ UNCHANGED objects
        BY <1>4, <2>1, KitAssumption DEF FinishRead, Track, TypeOK
      <3>2. leaked' \cup released' = (leaked \cup released) \ {sid'}
        BY <1>4 DEF FinishRead, Track
      <3>3. Lifecycle!Confirm
        BY <2>1, <3>1, <3>2 DEF Lifecycle!Confirm
      <3> QED
        BY <3>3 DEF Lifecycle!Next
    <2>2. CASE ~importing
      <3>1. sid \in Ids /\ target = sid
        BY <1>4, <2>2 DEF FinishRead, TypeOK
      <3>2. UNCHANGED <<sid, importing, leaked, released>>
        <4>1. sid \notin leaked /\ sid \notin released
          BY <2>2, <3>1, KitAssumption DEF LooseOK
        <4>2. leaked' = leaked \ {sid} /\ released' = released \ {sid} /\ sid' = sid
          BY <1>4, <3>1 DEF FinishRead, Track
        <4> QED
          BY <1>4, <2>2, <4>1, <4>2 DEF FinishRead, TypeOK
      <3>3. Lifecycle!Answer
        BY <1>4, <3>2, StepsFromIdle DEF FinishRead, Held
      <3> QED
        BY <3>3 DEF Lifecycle!Next
    <2> QED
      BY <2>1, <2>2
  <1> QED
    BY <1>1, <1>2, <1>3, <1>4

\* An update answers; what it sent is the object's values and not its being there.
LEMMA UpdateMaps ==
  ASSUME IInv, LooseOK,
         \/ \E c \in Configs : \E p \in Plans(c, TRUE) : BeginUpdate(c, p)
         \/ UpdateHook \/ UpdateSend \/ \E hookFails \in BOOLEAN : FinishUpdate(hookFails)
  PROVE  [Lifecycle!Next]_(Lifecycle!vars)
  <1> USE DEF IInv, PhaseOK, Return, remote, tfstate, flight, history
  <1>1. ASSUME NEW c \in Configs, NEW p \in Plans(c, TRUE), BeginUpdate(c, p)
        PROVE  UNCHANGED Lifecycle!vars
    BY <1>1, StepsFromIdle DEF BeginUpdate, Held
  <1>2. CASE UpdateHook
    <2> DEFINE declared == {a \in HookOwned : cfg[a] \in Values}
               stored   == Store(objects[target], cfg, declared)
    <2>1. target \in Ids /\ (declared # {} => objects[target] # Absent)
      BY <1>2 DEF UpdateHook
    <2>2. declared # {} => stored \in [Attrs -> Values] /\ target \in Held
      BY <2>1 DEF Store, TypeOK, Held
    <2>3. objects' = IF declared = {} THEN objects ELSE [objects EXCEPT ![target] = stored]
      BY <1>2, <2>1 DEF UpdateHook, TypeOK
    <2>4. Held' = Held
      <3>1. CASE declared = {}
        BY <2>3, <3>1 DEF Held
      <3>2. CASE declared # {}
        BY <2>1, <2>2, <2>3, <3>2, HeldAfter
      <3> QED
        BY <3>1, <3>2
    <2> QED
      BY <1>2, <2>4, StepsFromIdle DEF UpdateHook
  <1>3. CASE UpdateSend
    <2> DEFINE stored == Store(objects[target], Sent(work), UpdateMask(plan, work))
    <2>1. target \in Held /\ stored \in [Attrs -> Values]
      BY <1>3, SentType, StoreType DEF UpdateSend, TypeOK, Planned, Held
    <2>2. objects' = [objects EXCEPT ![target] = stored]
      BY <1>3 DEF UpdateSend
    <2>3. Held' = Held
      BY <2>1, <2>2, HeldAfter DEF Held
    <2> QED
      BY <1>3, <2>3, StepsFromIdle DEF UpdateSend
  <1>4. ASSUME NEW hookFails \in BOOLEAN, FinishUpdate(hookFails)
        PROVE  Lifecycle!Answer
    <2>1. sid \in Ids /\ target = sid /\ ~importing
      BY <1>4 DEF FinishUpdate
    <2>2. sid \notin leaked /\ sid \notin released
      BY <2>1, KitAssumption DEF LooseOK
    <2>3. leaked' = leaked \ {sid} /\ released' = released \ {sid} /\ sid' = sid
      BY <1>4, <2>1 DEF FinishUpdate, Track
    <2>4. UNCHANGED <<sid, importing, leaked, released>>
      BY <1>4, <2>1, <2>2, <2>3 DEF FinishUpdate, TypeOK
    <2> QED
      BY <1>4, <2>4, StepsFromIdle DEF FinishUpdate, Held
  <1> QED
    BY <1>1, <1>2, <1>3, <1>4 DEF Lifecycle!Next

\* A delete removes the tracked object and nothing else; a refusal only lets it go.
LEMMA DeleteMaps ==
  ASSUME IInv, Release \/ BeginDelete \/ DeleteSend \/ DeleteLost \/ (Abort /\ pc # "createSent")
  PROVE  [Lifecycle!Next]_(Lifecycle!vars)
  <1> USE DEF IInv, PhaseOK, Return, remote, tfstate, flight, history
  <1>1. CASE Release
    <2>1. Lifecycle!Release
      BY <1>1, KitAssumption DEF Release, Untrack, Lifecycle!Release, Lifecycle!LetGo
    <2> QED
      BY <2>1 DEF Lifecycle!Next
  <1>2. CASE BeginDelete
    BY <1>2, StepsFromIdle DEF BeginDelete, Held
  <1>3. CASE DeleteSend \/ DeleteLost
    <2>1. /\ sid \in Ids /\ sid # NoState /\ target = sid /\ ~importing
          /\ objects' = [objects EXCEPT ![sid] = Absent]
      BY <1>3, KitAssumption DEF DeleteSend, DeleteLost
    <2>2. Held' = Held \ {sid}
      BY <2>1, HeldAfter
    <2>3. Lifecycle!Destroy
      BY <1>3, <2>1, <2>2 DEF DeleteSend, DeleteLost, Untrack, Held, Lifecycle!Destroy,
                              Lifecycle!LetGo, Lifecycle!state
    <2> QED
      BY <2>3 DEF Lifecycle!Next
  <1>4. CASE Abort /\ pc # "createSent"
    <2>1. UNCHANGED <<sid, importing, leaked, released>> /\ Held' = Held
      BY <1>4 DEF Abort, TypeOK, Held
    <2>2. Lifecycle!Answer
      BY <1>4, <2>1, StepsFromIdle DEF Abort
    <2> QED
      BY <2>2 DEF Lifecycle!Next
  <1> QED
    BY <1>1, <1>2, <1>3, <1>4

\* The administrator edits values, or makes an object vanish.
LEMMA AdminMaps ==
  ASSUME IInv,
         \/ \E i \in Ids : AdminDelete(i)
         \/ \E i \in Ids, a \in Attrs, v \in Values : AdminEdit(i, a, v)
  PROVE  [Lifecycle!Next]_(Lifecycle!vars)
  <1> USE DEF IInv, tfstate, flight
  <1>1. ASSUME NEW i \in Ids, AdminDelete(i) PROVE Lifecycle!Vanish(i)
    <2>1. Held' = Held \ {i}
      BY <1>1, HeldAfter DEF AdminDelete
    <2> QED
      BY <1>1, <2>1 DEF AdminDelete, Held, Lifecycle!Vanish, Lifecycle!state
  <1>2. ASSUME NEW i \in Ids, NEW a \in Attrs, NEW v \in Values, AdminEdit(i, a, v)
        PROVE  UNCHANGED Lifecycle!vars
    <2> DEFINE made == [objects[i] EXCEPT ![a] = v]
    <2>1. i \in Held /\ made \in [Attrs -> Values] /\ objects' = [objects EXCEPT ![i] = made]
      BY <1>2 DEF AdminEdit, TypeOK, Held
    <2> HIDE DEF made
    <2>2. Held' = Held \cup {i}
      BY <2>1, HeldAfter
    <2>3. Held' = Held
      BY <2>1, <2>2
    <2> QED
      BY <1>2, <2>3 DEF AdminEdit, Held, Lifecycle!vars, Lifecycle!state
  <1> QED
    BY <1>1, <1>2 DEF Lifecycle!Next

-----------------------------------------------------------------------------
(* The theorem.                                                              *)

\* However its calls interleave with edits, deletions, lost answers and failures, the engine
\* does only what ResourceLifecycle allows: what a create makes is recorded or reported lost, a
\* tracked resource never moves to another object, and it is let go only when it is gone, on
\* request, or when the import that named it fails.
THEOREM EngineImplementsLifecycle == Spec => ImplementsLifecycle
  <1>1. Init => LooseOK
    BY DEF Init, LooseOK
  <1>2. IInv /\ LooseOK /\ [Next]_vars => LooseOK'
    BY LooseStep DEF IInv
  <1>3. IInv /\ LooseOK /\ [Next]_vars => [Lifecycle!Next]_(Lifecycle!vars)
    <2> SUFFICES ASSUME IInv, LooseOK, [Next]_vars PROVE [Lifecycle!Next]_(Lifecycle!vars)
      OBVIOUS
    <2>1. CASE UNCHANGED vars
      BY <2>1 DEF vars, remote, tfstate, flight, history, Lifecycle!vars, Lifecycle!state
    <2>2. CASE FinishCreate \/ CreateTailFails \/ (Abort /\ pc = "createSent")
      BY <2>2, CreateEndMaps DEF Lifecycle!Next
    <2>3. CASE (\E i \in Ids : ImportById(i)) \/ (\E n \in Values \ {Zero} : ImportByName(n))
      BY <2>3, ImportMaps DEF Lifecycle!Next
    <2> QED
      BY <2>1, <2>2, <2>3, CreateMaps, ReadMaps, UpdateMaps, DeleteMaps, AdminMaps DEF Next
  <1> QED
    BY <1>1, <1>2, <1>3, InitMaps, Inductive, PTL DEF Spec, ImplementsLifecycle, Lifecycle!Spec

=============================================================================
