-------------------------- MODULE ClientGroups_proofs --------------------------
(***************************************************************************)
(* Proofs about ClientGroups, for any number of concurrent applies, any    *)
(* requests, any groups the controller starts with and any number of edits *)
(* by others.                                                              *)
(***************************************************************************)
EXTENDS ClientGroups, TLAPS

-----------------------------------------------------------------------------
(* The inductive invariant.                                                 *)

\* An apply that is under clientGroupMu holds it, and so no two are.
Locked == {"relist users", "resolve qos", "relist members", "create members"}
LockOK == \A a \in Apply : pc[a] \in Locked => lock = a

\* What an apply has established when it gets where it is.
PhaseOK ==
  \A a \in Apply :
    /\ pc[a] \in {"qos", "relist users", "resolve qos"} => request[a].qos # Null
    /\ pc[a] \in {"relist users", "resolve qos"} => request[a].qos.id = Null
    /\ pc[a] \in {"start", "prefetch", "qos", "relist users", "resolve qos", "groups",
                  "relist members"} => refused[a] = {}
    /\ pc[a] = "send" => request[a].groups \subseteq DOMAIN memberIds[a]
    /\ request[a].qos = Null => qosId[a] = Null

\* Ids are the controller's: one group has each, and the next one has none yet.
FreshOK ==
  /\ \A g \in userGroups \cup memberGroups : g.id < nextId
  /\ \A g, h \in userGroups : g.id = h.id => g = h

\* Every id an apply has in hand belongs, or belonged, to a group of the name it goes by.
NamedOK ==
  /\ \A g \in userGroups \cup memberGroups : <<g.id, g.name>> \in everNamed
  /\ \A a \in Apply : \A g \in users[a] \cup members[a] : <<g.id, g.name>> \in everNamed
  /\ \A a \in Apply : \A n \in DOMAIN memberIds[a] : <<memberIds[a][n], n>> \in everNamed

\* The usergroup id is resolved once the groups are.
QosOK ==
  \A a \in Apply :
    pc[a] \in {"groups", "relist members", "create members", "send"} /\ request[a].qos # Null =>
      LET q == request[a].qos IN
      \/ q.id # Null /\ qosId[a] = q.id
      \/ q.id = Null /\ <<qosId[a], GroupName(q)>> \in everNamed

\* Under the lock, a group of the provider's own that is there was seen by the listing made
\* under the lock: what the holder still misses, no other apply has created.
SeenOK ==
  \A a \in Apply :
    /\ pc[a] = "resolve qos" => \A g \in userGroups : g.own => \E h \in users[a] : h.name = g.name
    /\ pc[a] = "create members" => \A g \in memberGroups : g.own => g.name \notin Misses(a)

GroupsInv ==
  /\ TypeOK /\ LockOK /\ PhaseOK /\ FreshOK /\ NamedOK /\ QosOK /\ SeenOK
  /\ OneGroupPerName /\ RefsAreTheNamed

-----------------------------------------------------------------------------
(* What the helpers return.                                                  *)

\* A request asks for a usergroup or for none, and for named member groups.
LEMMA RequestType ==
  ASSUME TypeOK, NEW a \in Apply
  PROVE  /\ request[a].qos \in QosRequest \cup {Null} /\ request[a].groups \in SUBSET Names
         /\ request[a].qos # Null => /\ request[a].qos \in QosRequest
                                     /\ request[a].qos.id \in Ids \cup {Null}
                                     /\ request[a].qos.rates \in RateSet
                                     /\ GroupName(request[a].qos) \in AnyName
  <1>1. request[a] \in Request
    BY GroupsAssumption DEF TypeOK
  <1>2. request[a].qos \in QosRequest \cup {Null} /\ request[a].groups \in SUBSET Names
    BY <1>1 DEF Request
  <1> QED
    BY <1>2 DEF QosRequest, GroupName, AnyName

\* A re-rated group is the group with other rates.
LEMMA ReratedType ==
  ASSUME NEW g \in UserGroup, NEW q \in QosRequest
  PROVE  /\ Rerated(g, q) \in UserGroup
         /\ \A l \in Limits : Rerated(g, q).rates[l] =
              (IF q.rates[l] # Null THEN q.rates[l] ELSE g.rates[l])
  <1> DEFINE r == [l \in Limits |-> IF q.rates[l] # Null THEN q.rates[l] ELSE g.rates[l]]
  <1>1. g.rates \in RateSet /\ q.rates \in RateSet
    BY DEF UserGroup, QosRequest
  <1>2. r \in RateSet
    BY <1>1 DEF RateSet
  <1>3. Rerated(g, q) = [g EXCEPT !.rates = r]
    BY DEF Rerated
  <1> HIDE DEF r
  <1>4. Rerated(g, q) \in UserGroup /\ Rerated(g, q).rates = r
    BY <1>2, <1>3 DEF UserGroup
  <1> QED
    BY <1>4 DEF r

\* The controller writes rates and nothing else, and keeps those the object does not carry.
LEMMA WrittenType ==
  ASSUME NEW h \in UserGroup, NEW g \in UserGroup
  PROVE  /\ Written(h, g) \in UserGroup
         /\ Written(h, g).id = h.id /\ Written(h, g).name = h.name /\ Written(h, g).own = h.own
         /\ \A l \in Limits : Written(h, g).rates[l] =
              (IF g.rates[l] # Null THEN g.rates[l] ELSE h.rates[l])
  <1> DEFINE r == [l \in Limits |-> IF g.rates[l] # Null THEN g.rates[l] ELSE h.rates[l]]
  <1>1. g.rates \in RateSet /\ h.rates \in RateSet
    BY DEF UserGroup
  <1>2. r \in RateSet
    BY <1>1 DEF RateSet
  <1>3. Written(h, g) = [h EXCEPT !.rates = r]
    BY DEF Written
  <1> HIDE DEF r
  <1>4. /\ Written(h, g) \in UserGroup /\ Written(h, g).rates = r
        /\ Written(h, g).id = h.id /\ Written(h, g).name = h.name /\ Written(h, g).own = h.own
    BY <1>2, <1>3 DEF UserGroup
  <1> QED
    BY <1>4 DEF r

\* What a usergroup is once g has been written back for q.
Rewritten(h, g, q) ==
  IF NeedsRerate(g, q) /\ h.id = g.id THEN Written(h, Rerated(g, q)) ELSE h

\* Writing a group back rewrites the groups one by one: each stays the group it was.
LEMMA WriteGroupRewrites ==
  ASSUME userGroups \subseteq UserGroup, NEW g \in UserGroup, NEW q \in QosRequest, WriteGroup(g, q)
  PROVE  /\ userGroups' = {Rewritten(h, g, q) : h \in userGroups}
         /\ userGroups' \subseteq UserGroup
         /\ \A h \in userGroups : /\ Rewritten(h, g, q).id = h.id
                                  /\ Rewritten(h, g, q).name = h.name
                                  /\ Rewritten(h, g, q).own = h.own
  <1>1. \A h \in userGroups : /\ Rewritten(h, g, q) \in UserGroup
                              /\ Rewritten(h, g, q).id = h.id
                              /\ Rewritten(h, g, q).name = h.name
                              /\ Rewritten(h, g, q).own = h.own
    BY ReratedType, WrittenType DEF Rewritten
  <1>2. userGroups' = {Rewritten(h, g, q) : h \in userGroups}
    BY DEF WriteGroup, Rewritten
  <1> QED
    BY <1>1, <1>2

\* A vocabulary maps the names that are listed, each to an id listed under it.
LEMMA VocabularyType ==
  ASSUME memberGroups \subseteq MemberGroup, NEW f \in Vocabularies(memberGroups)
  PROVE  /\ DOMAIN f = {g.name : g \in memberGroups} /\ IsMap(f, Names, Ids)
         /\ \A n \in DOMAIN f : \E g \in memberGroups : g.name = n /\ g.id = f[n]
  BY DEF Vocabularies, MemberGroup, IsMap

-----------------------------------------------------------------------------
(* Every step keeps every variable in its type.                              *)

\* The next id is one, and so is the one after.
LEMMA NextIdType ==
  ASSUME TypeOK
  PROVE  nextId \in Ids /\ nextId + 1 \in Ids /\ nextId < nextId + 1
  <1>1. nextId \in Ids
    BY DEF TypeOK
  <1> QED
    BY <1>1 DEF Ids

\* A group that is made enters the history under its id and its name.
LEMMA HistoryType ==
  ASSUME TypeOK, NEW i \in Ids, NEW n \in AnyName
  PROVE  everNamed \subseteq Ids \X AnyName /\ everNamed \cup {<<i, n>>} \subseteq Ids \X AnyName
  <1>1. everNamed \subseteq Ids \X AnyName
    BY DEF TypeOK
  <1>2. <<i, n>> \in Ids \X AnyName
    OBVIOUS
  <1> QED
    BY <1>1, <1>2

\* Others make no more than MaxEdits edits.
LEMMA EditsType ==
  ASSUME TypeOK, edits < MaxEdits
  PROVE  edits + 1 \in 0..MaxEdits
  <1>1. edits \in 0..MaxEdits /\ MaxEdits \in Nat
    BY GroupsAssumption DEF TypeOK
  <1> QED
    BY <1>1

\* The map of resolved member groups stays a map of names to ids.
LEMMA MemberIdsType ==
  ASSUME TypeOK, NEW a \in Apply, NEW f, IsMap(f, Names, Ids),
         memberIds' = [memberIds EXCEPT ![a] = f]
  PROVE  memberIds' = [b \in Apply |-> memberIds'[b]] /\ \A b \in Apply : IsMap(memberIds'[b], Names, Ids)
  BY DEF TypeOK

\* A lookup, a re-rate or a creation of the usergroup.
LEMMA QosTypeOK ==
  ASSUME TypeOK, PhaseOK, NEW a \in Apply, ResolveListed(a) \/ ResolveQosLocked(a)
  PROVE  TypeOK'
  <1> DEFINE q == request[a].qos
  <1>1. q \in QosRequest /\ q.rates \in RateSet /\ GroupName(q) \in AnyName
    BY RequestType DEF PhaseOK, ResolveListed, ResolveQosLocked
  <1>2. users[a] \subseteq UserGroup /\ nextId \in Ids /\ nextId + 1 \in Ids
    BY NextIdType DEF TypeOK
  <1> HIDE DEF q
  <1>3. ASSUME NEW g \in users[a], WriteGroup(g, q), qosId' = [qosId EXCEPT ![a] = g.id]
        PROVE  userGroups' \subseteq UserGroup /\ qosId' \in [Apply -> Reference]
    <2>1. g \in UserGroup /\ g.id \in Ids
      BY <1>2 DEF UserGroup
    <2>2. userGroups' \subseteq UserGroup
      BY <1>1, <1>3, <2>1, WriteGroupRewrites DEF TypeOK
    <2> QED
      BY <1>3, <2>1, <2>2 DEF TypeOK, Reference
  <1>4. CASE ResolveListed(a)
    <2>1. userGroups' \subseteq UserGroup /\ qosId' \in [Apply -> Reference]
      BY <1>3, <1>4 DEF ResolveListed, q
    <2> QED
      BY <1>4, <2>1 DEF ResolveListed, Goto, TypeOK
  <1>5. CASE ResolveQosLocked(a)
    <2> DEFINE new == [id |-> nextId, name |-> GroupName(q), rates |-> q.rates, own |-> TRUE]
    <2>1. CASE \E g \in users[a] : WriteGroup(g, q) /\ qosId' = [qosId EXCEPT ![a] = g.id]
      <3>1. userGroups' \subseteq UserGroup /\ qosId' \in [Apply -> Reference]
        BY <1>3, <2>1
      <3>2. \/ nextId' = nextId /\ everNamed' = everNamed
            \/ nextId' = nextId + 1 /\ everNamed' = everNamed \cup {<<nextId, GroupName(q)>>}
        BY <1>5 DEF ResolveQosLocked, q
      <3>3. nextId' \in Ids /\ everNamed' \subseteq Ids \X AnyName
        BY <1>1, <1>2, <3>2, HistoryType
      <3> QED
        BY <1>5, <3>1, <3>3 DEF ResolveQosLocked, Goto, TypeOK
    <2>2. CASE /\ userGroups' = userGroups \cup {new} /\ qosId' = [qosId EXCEPT ![a] = nextId]
               /\ nextId' = nextId + 1 /\ everNamed' = everNamed \cup {<<nextId, GroupName(q)>>}
      <3>1. new \in UserGroup
        BY <1>1, <1>2 DEF UserGroup
      <3>2. userGroups' \subseteq UserGroup
        BY <2>2, <3>1 DEF TypeOK
      <3>3. qosId' \in [Apply -> Reference]
        BY <1>2, <2>2 DEF TypeOK, Reference
      <3>4. nextId' \in Ids /\ everNamed' \subseteq Ids \X AnyName
        BY <1>1, <1>2, <2>2, HistoryType
      <3> QED
        BY <1>5, <3>2, <3>3, <3>4 DEF ResolveQosLocked, Goto, TypeOK
    <2> QED
      BY <1>5, <2>1, <2>2 DEF ResolveQosLocked, q
  <1> QED
    BY <1>4, <1>5

\* A listing or a creation of member groups.
LEMMA MembersTypeOK ==
  ASSUME TypeOK, NEW a \in Apply,
         \/ PrefetchMembers(a) \/ RelistMembers(a)
         \/ \E n \in Names : CreateMember(a, n) \/ RefuseMember(a, n)
  PROVE  TypeOK'
  <1>1. ASSUME NEW f, IsMap(f, Names, Ids), memberIds' = [memberIds EXCEPT ![a] = f]
        PROVE  memberIds' = [b \in Apply |-> memberIds'[b]]
               /\ \A b \in Apply : IsMap(memberIds'[b], Names, Ids)
    BY <1>1, MemberIdsType
  <1>2. CASE PrefetchMembers(a)
    <2>1. memberIds' = [b \in Apply |-> memberIds'[b]]
          /\ \A b \in Apply : IsMap(memberIds'[b], Names, Ids)
      BY <1>1, <1>2, VocabularyType DEF PrefetchMembers, TypeOK
    <2> QED
      BY <1>2, <2>1 DEF PrefetchMembers, Goto, TypeOK, ctlVars
  <1>3. CASE RelistMembers(a)
    <2>1. PICK f \in Vocabularies(memberGroups) :
            memberIds' = [memberIds EXCEPT ![a] =
              [n \in DOMAIN memberIds[a] \cup (Misses(a) \cap DOMAIN f) |->
                 IF n \in DOMAIN memberIds[a] THEN memberIds[a][n] ELSE f[n]]]
      BY <1>3 DEF RelistMembers
    <2>2. IsMap(f, Names, Ids) /\ IsMap(memberIds[a], Names, Ids)
      BY VocabularyType DEF TypeOK
    <2> DEFINE m == [n \in DOMAIN memberIds[a] \cup (Misses(a) \cap DOMAIN f) |->
                       IF n \in DOMAIN memberIds[a] THEN memberIds[a][n] ELSE f[n]]
    <2>3. IsMap(m, Names, Ids)
      BY <2>2 DEF IsMap
    <2>4. memberIds' = [b \in Apply |-> memberIds'[b]]
          /\ \A b \in Apply : IsMap(memberIds'[b], Names, Ids)
      BY <1>1, <2>1, <2>3
    <2> QED
      BY <1>3, <2>4 DEF RelistMembers, Goto, TypeOK, ctlVars
  <1>4. ASSUME NEW n \in Names, CreateMember(a, n)
        PROVE  TypeOK'
    <2>1. nextId \in Ids /\ nextId + 1 \in Ids /\ n \in AnyName
      BY NextIdType DEF AnyName
    <2>2. [id |-> nextId, name |-> n, own |-> TRUE] \in MemberGroup
      BY <2>1 DEF MemberGroup
    <2>3. IsMap(With(memberIds[a], n, nextId), Names, Ids)
      BY <2>1 DEF TypeOK, IsMap, With
    <2>4. memberIds' = [b \in Apply |-> memberIds'[b]]
          /\ \A b \in Apply : IsMap(memberIds'[b], Names, Ids)
      BY <1>1, <1>4, <2>3 DEF CreateMember
    <2>5. memberGroups' \subseteq MemberGroup
      BY <1>4, <2>2 DEF CreateMember, TypeOK
    <2>6. nextId' \in Ids /\ everNamed' \subseteq Ids \X AnyName
      BY <1>4, <2>1, HistoryType DEF CreateMember
    <2> QED
      BY <1>4, <2>4, <2>5, <2>6 DEF CreateMember, TypeOK
  <1>5. ASSUME NEW n \in Names, RefuseMember(a, n)
        PROVE  TypeOK'
    <2>1. refused' = [refused EXCEPT ![a] = @ \cup {n}] /\ pc' = pc
      BY <1>5 DEF RefuseMember
    <2>2. refused' \in [Apply -> SUBSET Names]
      BY <2>1 DEF TypeOK
    <2> QED
      BY <1>5, <2>1, <2>2 DEF RefuseMember, TypeOK, ctlVars
  <1>6. ASSUME NEW n \in Names, CreateMember(a, n) \/ RefuseMember(a, n)
        PROVE  TypeOK'
    BY <1>4, <1>5, <1>6, Zenon
  <1> QED
    BY <1>2, <1>3, <1>6, Zenon

\* A send writes references.
LEMMA SendTypeOK ==
  ASSUME TypeOK, NEW a \in Apply, Send(a)
  PROVE  TypeOK'
  <1> DEFINE made == [user |-> qosId[a], groups |-> MemberRefs(a)]
  <1>1. IsMap(MemberRefs(a), Names, Reference) /\ qosId[a] \in Reference
    BY RequestType DEF TypeOK, MemberRefs, IsMap, Reference
  <1>2. client' = [client EXCEPT ![a] = made]
    BY DEF Send
  <1>3. client' = [b \in Apply |-> client'[b]]
    BY <1>2 DEF TypeOK
  <1>4. \A b \in Apply : client'[b] # Null =>
          client'[b].user \in Reference /\ IsMap(client'[b].groups, Names, Reference)
    BY <1>1, <1>2 DEF TypeOK
  <1> HIDE DEF made
  <1> QED
    BY <1>3, <1>4 DEF Send, Goto, TypeOK, ctlVars

\* A group deleted or created by somebody else.
LEMMA OthersTypeOK ==
  ASSUME TypeOK, OthersDelete \/ OthersCreate
  PROVE  TypeOK'
  <1>1. edits' \in 0..MaxEdits
    BY EditsType DEF OthersDelete, OthersCreate
  <1>2. CASE OthersDelete
    BY <1>1, <1>2 DEF OthersDelete, TypeOK
  <1>3. CASE OthersCreate
    <2>1. PICK n \in Names :
         /\ \/ /\ memberGroups' = memberGroups \cup {[id |-> nextId, name |-> n, own |-> FALSE]}
               /\ UNCHANGED userGroups
            \/ /\ userGroups' = userGroups \cup
                    {[id |-> nextId, name |-> n, rates |-> [l \in Limits |-> Null], own |-> FALSE]}
               /\ UNCHANGED memberGroups
         /\ everNamed' = everNamed \cup {<<nextId, n>>}
      BY <1>3 DEF OthersCreate
    <2>2. nextId \in Ids /\ nextId + 1 \in Ids /\ n \in AnyName
      BY NextIdType DEF AnyName
    <2>3. /\ [id |-> nextId, name |-> n, own |-> FALSE] \in MemberGroup
          /\ [id |-> nextId, name |-> n, rates |-> [l \in Limits |-> Null], own |-> FALSE] \in UserGroup
      BY <2>2 DEF MemberGroup, UserGroup, RateSet
    <2>4. memberGroups' \subseteq MemberGroup /\ userGroups' \subseteq UserGroup
      BY <2>1, <2>3 DEF TypeOK
    <2>5. everNamed' \subseteq Ids \X AnyName /\ nextId' \in Ids
      BY <1>3, <2>1, <2>2, HistoryType DEF OthersCreate
    <2> QED
      BY <1>1, <1>3, <2>4, <2>5 DEF OthersCreate, TypeOK
  <1> QED
    BY <1>2, <1>3

\* Every step keeps every variable in its type.
LEMMA TypeOKStep ==
  ASSUME TypeOK, PhaseOK, [Next]_vars
  PROVE  TypeOK'
  <1>1. ASSUME NEW a \in Apply,
               \/ PrefetchUsers(a) \/ LockForQos(a) \/ RelistUsers(a) \/ GroupsKnown(a)
               \/ LockForGroups(a) \/ MembersResolved(a) \/ Fail(a)
        PROVE  TypeOK'
    BY <1>1 DEF PrefetchUsers, LockForQos, RelistUsers, GroupsKnown, LockForGroups,
                MembersResolved, Fail, Goto, TypeOK, ctlVars
  <1>2. ASSUME NEW a \in Apply, UseGivenId(a) PROVE TypeOK'
    <2>1. request[a].qos.id \in Reference
      BY <1>2, RequestType DEF PhaseOK, UseGivenId, Reference
    <2> QED
      BY <1>2, <2>1 DEF UseGivenId, Goto, TypeOK, ctlVars
  <1>3. CASE UNCHANGED vars
    BY <1>3 DEF vars, TypeOK
  <1> QED
    BY <1>1, <1>2, <1>3, QosTypeOK, MembersTypeOK, SendTypeOK, OthersTypeOK DEF Next, Step

-----------------------------------------------------------------------------
(* Every step preserves the rest of the invariant.                           *)

\* A step of one apply leaves the others where they are.
LEMMA OthersKept ==
  ASSUME TypeOK, NEW a \in Apply, Step(a), NEW b \in Apply, b # a
  PROVE  /\ UNCHANGED <<pc[b], users[b], members[b], qosId[b], memberIds[b], refused[b], client[b]>>
         /\ UNCHANGED request
  <1> USE DEF Goto, TypeOK
  <1>1. CASE PrefetchUsers(a) \/ PrefetchMembers(a)
    BY <1>1 DEF PrefetchUsers, PrefetchMembers
  <1>2. CASE UseGivenId(a) \/ ResolveListed(a)
    BY <1>2 DEF UseGivenId, ResolveListed
  <1>3. CASE LockForQos(a) \/ RelistUsers(a)
    BY <1>3 DEF LockForQos, RelistUsers
  <1>4. CASE ResolveQosLocked(a)
    BY <1>4 DEF ResolveQosLocked
  <1>5. CASE GroupsKnown(a) \/ LockForGroups(a)
    BY <1>5 DEF GroupsKnown, LockForGroups
  <1>6. CASE RelistMembers(a)
    BY <1>6 DEF RelistMembers
  <1>7. ASSUME NEW n \in Names, CreateMember(a, n) \/ RefuseMember(a, n)
        PROVE  /\ UNCHANGED <<pc[b], users[b], members[b], qosId[b], memberIds[b], refused[b], client[b]>>
               /\ UNCHANGED request
    BY <1>7 DEF CreateMember, RefuseMember
  <1>8. CASE MembersResolved(a) \/ Send(a) \/ Fail(a)
    BY <1>8 DEF MembersResolved, Send, Fail
  <1> QED
    BY <1>1, <1>2, <1>3, <1>4, <1>5, <1>6, <1>7, <1>8 DEF Step

\* The lock is taken free and released by its holder, and only under it does an apply get to
\* where it must be held.
LEMMA LockMoves ==
  ASSUME TypeOK, LockOK, NEW a \in Apply, Step(a)
  PROVE  /\ lock' = lock \/ lock = NoApply \/ lock = a
         /\ pc'[a] \in Locked => lock' = a
  <1>1. /\ pc \in [Apply -> {"start", "prefetch", "qos", "relist users", "resolve qos",
                             "groups", "relist members", "create members", "send",
                             "done", "failed"}]
        /\ pc[a] \in Locked => lock = a
    BY DEF TypeOK, LockOK
  <1> USE <1>1 DEF Goto, Locked
  <1>2. CASE PrefetchUsers(a) \/ PrefetchMembers(a)
    BY <1>2 DEF PrefetchUsers, PrefetchMembers
  <1>3. CASE UseGivenId(a) \/ ResolveListed(a)
    BY <1>3 DEF UseGivenId, ResolveListed
  <1>4. CASE LockForQos(a) \/ RelistUsers(a)
    BY <1>4 DEF LockForQos, RelistUsers
  <1>5. CASE ResolveQosLocked(a)
    BY <1>5 DEF ResolveQosLocked
  <1>6. CASE GroupsKnown(a) \/ LockForGroups(a)
    BY <1>6 DEF GroupsKnown, LockForGroups
  <1>7. CASE RelistMembers(a)
    BY <1>7 DEF RelistMembers
  <1>8. ASSUME NEW n \in Names, CreateMember(a, n) \/ RefuseMember(a, n)
        PROVE  lock' = lock /\ pc' = pc
    BY <1>8 DEF CreateMember, RefuseMember
  <1>9. CASE MembersResolved(a) \/ Send(a) \/ Fail(a)
    BY <1>9 DEF MembersResolved, Send, Fail
  <1> QED
    BY <1>2, <1>3, <1>4, <1>5, <1>6, <1>7, <1>8, <1>9 DEF Step

\* The lock is held wherever it must be.
LEMMA LockStep ==
  ASSUME TypeOK, LockOK, [Next]_vars
  PROVE  LockOK'
  <1>1. ASSUME NEW a \in Apply, Step(a) PROVE LockOK'
    <2>1. SUFFICES ASSUME NEW b \in Apply, pc'[b] \in Locked PROVE lock' = b
      BY DEF LockOK
    <2>2. CASE b = a
      BY <1>1, <2>1, <2>2, LockMoves
    <2>3. CASE b # a
      <3>1. lock = b
        BY <1>1, <2>1, <2>3, OthersKept DEF LockOK
      <3> QED
        BY <1>1, <2>3, <3>1, LockMoves, GroupsAssumption
    <2> QED
      BY <2>2, <2>3
  <1>2. CASE OthersDelete \/ OthersCreate
    BY <1>2 DEF OthersDelete, OthersCreate, LockOK
  <1>3. CASE UNCHANGED vars
    BY <1>3 DEF vars, LockOK
  <1> QED
    BY <1>1, <1>2, <1>3 DEF Next

\* What one apply has established, PhaseOK of it.
PhaseOf(a) ==
  /\ pc[a] \in {"qos", "relist users", "resolve qos"} => request[a].qos # Null
  /\ pc[a] \in {"relist users", "resolve qos"} => request[a].qos.id = Null
  /\ pc[a] \in {"start", "prefetch", "qos", "relist users", "resolve qos", "groups",
                "relist members"} => refused[a] = {}
  /\ pc[a] = "send" => request[a].groups \subseteq DOMAIN memberIds[a]
  /\ request[a].qos = Null => qosId[a] = Null

\* An apply gets no further than what it has established allows.
LEMMA PhaseStep ==
  ASSUME TypeOK, PhaseOK, [Next]_vars
  PROVE  PhaseOK'
  <1>1. ASSUME NEW a \in Apply, Step(a) PROVE PhaseOf(a)'
    <2>1. PhaseOf(a)
      BY DEF PhaseOK, PhaseOf
    <2> USE <2>1 DEF PhaseOf, Goto, TypeOK
    <2>2. CASE PrefetchUsers(a) \/ PrefetchMembers(a)
      BY <2>2 DEF PrefetchUsers, PrefetchMembers
    <2>3. CASE UseGivenId(a) \/ ResolveListed(a)
      BY <2>3 DEF UseGivenId, ResolveListed
    <2>4. CASE LockForQos(a) \/ RelistUsers(a)
      BY <2>4 DEF LockForQos, RelistUsers
    <2>5. CASE ResolveQosLocked(a)
      BY <2>5 DEF ResolveQosLocked
    <2>6. CASE GroupsKnown(a) \/ LockForGroups(a)
      BY <2>6 DEF GroupsKnown, LockForGroups, Misses
    <2>7. CASE RelistMembers(a)
      BY <2>7 DEF RelistMembers
    <2>8. ASSUME NEW n \in Names, CreateMember(a, n) \/ RefuseMember(a, n)
          PROVE  PhaseOf(a)'
      BY <2>8 DEF CreateMember, RefuseMember
    <2>9. CASE MembersResolved(a) \/ Send(a) \/ Fail(a)
      BY <2>9 DEF MembersResolved, Send, Fail, Misses
    <2> HIDE <2>1 DEF PhaseOf, Goto, TypeOK
    <2>10. (\E n \in Names : CreateMember(a, n) \/ RefuseMember(a, n)) => PhaseOf(a)'
      BY <2>8, Zenon
    <2> QED
      BY <1>1, <2>2, <2>3, <2>4, <2>5, <2>6, <2>7, <2>9, <2>10 DEF Step
  <1>2. ASSUME NEW a \in Apply, Step(a), NEW b \in Apply, b # a PROVE PhaseOf(b)'
    <2>1. UNCHANGED <<pc[b], qosId[b], memberIds[b], refused[b], request>>
      BY <1>2, OthersKept
    <2>2. PhaseOf(b)
      BY DEF PhaseOK, PhaseOf
    <2> QED
      BY <2>1, <2>2 DEF PhaseOf
  <1>3. CASE OthersDelete \/ OthersCreate
    BY <1>3 DEF OthersDelete, OthersCreate, PhaseOK
  <1>4. CASE UNCHANGED vars
    BY <1>4 DEF vars, PhaseOK
  <1>5. (\A b \in Apply : PhaseOf(b)') => PhaseOK'
    BY DEF PhaseOK, PhaseOf
  <1> QED
    BY <1>1, <1>2, <1>3, <1>4, <1>5 DEF Next

\* What a step does to the groups: they are rewritten one by one, or one is added under the
\* next id, or some are gone.  One of the provider's own is added by an apply that has the
\* lock and misses the name.
Rewrites == \E g \in UserGroup, q \in QosRequest :
  /\ userGroups' = {Rewritten(h, g, q) : h \in userGroups}
  /\ \A h \in userGroups : /\ Rewritten(h, g, q).id = h.id
                           /\ Rewritten(h, g, q).name = h.name
                           /\ Rewritten(h, g, q).own = h.own
AddsUser == \E g \in UserGroup :
  /\ g.id = nextId /\ userGroups' = userGroups \cup {g} /\ nextId' = nextId + 1
  /\ <<g.id, g.name>> \in everNamed'
  /\ g.own => \E a \in Apply : /\ pc[a] = "resolve qos" /\ pc'[a] # "resolve qos"
                               /\ \A h \in users[a] : h.name # g.name
AddsMember == \E g \in MemberGroup :
  /\ g.id = nextId /\ memberGroups' = memberGroups \cup {g} /\ nextId' = nextId + 1
  /\ <<g.id, g.name>> \in everNamed'
  /\ g.own => \E a \in Apply : /\ pc[a] = "create members"
                               /\ g.name \in Misses(a) /\ g.name \notin Misses(a)'

\* Every step leaves each kind of group alone, or does one of these to it.
LEMMA GroupsChange ==
  ASSUME TypeOK, PhaseOK, [Next]_vars
  PROVE  /\ everNamed \subseteq everNamed' /\ nextId <= nextId' /\ nextId' \in Ids
         /\ \/ userGroups' \subseteq userGroups /\ memberGroups' \subseteq memberGroups
            \/ Rewrites /\ memberGroups' = memberGroups
            \/ AddsUser /\ memberGroups' = memberGroups
            \/ AddsMember /\ userGroups' = userGroups
  <1>1. nextId \in Ids /\ nextId <= nextId /\ nextId <= nextId + 1 /\ nextId + 1 \in Ids
    BY NextIdType DEF Ids
  <1> DEFINE Goal == /\ everNamed \subseteq everNamed' /\ nextId <= nextId' /\ nextId' \in Ids
                     /\ \/ userGroups' \subseteq userGroups /\ memberGroups' \subseteq memberGroups
                        \/ Rewrites /\ memberGroups' = memberGroups
                        \/ AddsUser /\ memberGroups' = memberGroups
                        \/ AddsMember /\ userGroups' = userGroups
  <1>2. ASSUME NEW a \in Apply, ResolveListed(a) \/ ResolveQosLocked(a) PROVE Goal
    <2>1. /\ request[a].qos \in QosRequest /\ request[a].qos.rates \in RateSet
          /\ GroupName(request[a].qos) \in AnyName
      BY <1>2, RequestType DEF PhaseOK, ResolveListed, ResolveQosLocked
    <2>2. CASE \E g \in users[a] : WriteGroup(g, request[a].qos) /\ UNCHANGED <<nextId, everNamed>>
      <3>1. PICK g \in UserGroup : WriteGroup(g, request[a].qos)
        BY <2>2 DEF TypeOK
      <3>2. Rewrites
        BY <2>1, <3>1, WriteGroupRewrites DEF Rewrites, TypeOK
      <3> QED
        BY <1>1, <1>2, <2>2, <3>2 DEF ResolveListed, ResolveQosLocked
    <2>3. CASE /\ ResolveQosLocked(a)
               /\ \A h \in users[a] : h.name # GroupName(request[a].qos)
               /\ userGroups' = userGroups \cup {[id |-> nextId, name |-> GroupName(request[a].qos),
                                                 rates |-> request[a].qos.rates, own |-> TRUE]}
               /\ everNamed' = everNamed \cup {<<nextId, GroupName(request[a].qos)>>}
               /\ nextId' = nextId + 1
      <3> DEFINE g == [id |-> nextId, name |-> GroupName(request[a].qos),
                       rates |-> request[a].qos.rates, own |-> TRUE]
      <3>1. g \in UserGroup /\ g.id = nextId /\ g.name = GroupName(request[a].qos)
        BY <1>1, <2>1 DEF UserGroup
      <3>2. pc[a] = "resolve qos" /\ pc'[a] # "resolve qos"
        BY <2>3 DEF ResolveQosLocked, Goto, TypeOK
      <3>3. AddsUser
        BY <2>3, <3>1, <3>2 DEF AddsUser
      <3> QED
        BY <1>1, <1>2, <2>3, <3>3 DEF ResolveListed, ResolveQosLocked
    <2> QED
      BY <1>2, <2>2, <2>3 DEF ResolveListed, ResolveQosLocked
  <1>3. ASSUME NEW a \in Apply, NEW n \in Names, CreateMember(a, n) PROVE Goal
    <2> DEFINE g == [id |-> nextId, name |-> n, own |-> TRUE]
    <2>1. g \in MemberGroup /\ g.id = nextId /\ g.name = n
      BY <1>1 DEF MemberGroup
    <2>2. pc[a] = "create members" /\ n \in Misses(a) /\ n \notin Misses(a)'
      BY <1>3 DEF CreateMember, Misses, With, TypeOK
    <2>3. AddsMember
      BY <1>3, <2>1, <2>2 DEF AddsMember, CreateMember
    <2> QED
      BY <1>1, <1>3, <2>3 DEF CreateMember
  <1>4. ASSUME OthersDelete PROVE Goal
    BY <1>1, <1>4 DEF OthersDelete
  <1>5. ASSUME OthersCreate PROVE Goal
    <2>1. PICK n \in Names :
         /\ \/ /\ memberGroups' = memberGroups \cup {[id |-> nextId, name |-> n, own |-> FALSE]}
               /\ UNCHANGED userGroups
            \/ /\ userGroups' = userGroups \cup
                    {[id |-> nextId, name |-> n, rates |-> [l \in Limits |-> Null], own |-> FALSE]}
               /\ UNCHANGED memberGroups
         /\ everNamed' = everNamed \cup {<<nextId, n>>}
      BY <1>5 DEF OthersCreate
    <2> DEFINE m == [id |-> nextId, name |-> n, own |-> FALSE]
               u == [id |-> nextId, name |-> n, rates |-> [l \in Limits |-> Null], own |-> FALSE]
    <2>2. m \in MemberGroup /\ m.id = nextId /\ m.name = n /\ ~m.own
      BY <1>1 DEF MemberGroup
    <2>3. u \in UserGroup /\ u.id = nextId /\ u.name = n /\ ~u.own
      BY <1>1 DEF UserGroup, AnyName, RateSet
    <2>4. nextId' = nextId + 1
      BY <1>5 DEF OthersCreate
    <2> HIDE DEF m, u
    <2>5. \/ AddsMember /\ userGroups' = userGroups
          \/ AddsUser /\ memberGroups' = memberGroups
      BY <2>1, <2>2, <2>3, <2>4 DEF AddsMember, AddsUser, m, u
    <2> QED
      BY <1>1, <2>1, <2>4, <2>5
  <1>6. ASSUME UNCHANGED ctlVars PROVE Goal
    BY <1>1, <1>6 DEF ctlVars
  <1>7. ASSUME NEW a \in Apply,
               \/ PrefetchUsers(a) \/ PrefetchMembers(a) \/ UseGivenId(a) \/ LockForQos(a)
               \/ RelistUsers(a) \/ GroupsKnown(a) \/ LockForGroups(a) \/ RelistMembers(a)
               \/ (\E n \in Names : RefuseMember(a, n))
               \/ MembersResolved(a) \/ Send(a) \/ Fail(a)
        PROVE  Goal
    BY <1>6, <1>7 DEF PrefetchUsers, PrefetchMembers, UseGivenId, LockForQos, RelistUsers,
                GroupsKnown, LockForGroups, RelistMembers, RefuseMember, MembersResolved, Send, Fail
  <1>8. ASSUME UNCHANGED vars PROVE Goal
    BY <1>6, <1>8 DEF vars, ctlVars
  <1> HIDE DEF Goal
  <1>9. ASSUME NEW a \in Apply, Step(a) PROVE Goal
    BY <1>2, <1>3, <1>7, <1>9 DEF Step
  <1>10. Goal
    BY <1>4, <1>5, <1>8, <1>9 DEF Next
  <1> QED
    BY <1>10 DEF Goal

\* No two usergroups share an id.
LEMMA FreshStep ==
  ASSUME TypeOK, PhaseOK, FreshOK, [Next]_vars
  PROVE  FreshOK'
  <1>1. /\ nextId <= nextId' /\ nextId' \in Ids /\ nextId \in Ids
        /\ \A g \in userGroups \cup memberGroups : g.id \in Ids /\ g.id < nextId'
    <2>1. nextId <= nextId' /\ nextId' \in Ids /\ nextId \in Ids
      BY GroupsChange, NextIdType
    <2>2. \A g \in userGroups \cup memberGroups : g.id \in Ids /\ g.id < nextId
      BY DEF TypeOK, FreshOK, UserGroup, MemberGroup
    <2> QED
      BY <2>1, <2>2 DEF Ids
  <1>2. CASE userGroups' \subseteq userGroups /\ memberGroups' \subseteq memberGroups
    BY <1>1, <1>2 DEF FreshOK
  <1>3. CASE Rewrites /\ memberGroups' = memberGroups
    BY <1>1, <1>3 DEF FreshOK, Rewrites
  <1>4. CASE AddsUser /\ memberGroups' = memberGroups
    <2>1. PICK g \in UserGroup : g.id = nextId /\ userGroups' = userGroups \cup {g}
                                 /\ nextId' = nextId + 1
      BY <1>4 DEF AddsUser
    <2> QED
      BY <1>1, <1>4, <2>1 DEF FreshOK, Ids
  <1>5. CASE AddsMember /\ userGroups' = userGroups
    <2>1. PICK g \in MemberGroup : g.id = nextId /\ memberGroups' = memberGroups \cup {g}
                                   /\ nextId' = nextId + 1
      BY <1>5 DEF AddsMember
    <2> QED
      BY <1>1, <1>5, <2>1 DEF FreshOK, Ids
  <1> QED
    BY <1>2, <1>3, <1>4, <1>5, GroupsChange

\* One apply's share of NamedOK.
NamedOf(a) ==
  /\ \A g \in users[a] \cup members[a] : <<g.id, g.name>> \in everNamed
  /\ \A n \in DOMAIN memberIds[a] : <<memberIds[a][n], n>> \in everNamed

\* A vocabulary gives every name an id that goes by it.
LEMMA VocabularyNamed ==
  ASSUME TypeOK, NamedOK, NEW f \in Vocabularies(memberGroups), NEW n \in DOMAIN f
  PROVE  <<f[n], n>> \in everNamed
  <1>1. PICK g \in memberGroups : g.name = n /\ g.id = f[n]
    BY VocabularyType DEF TypeOK
  <1> QED
    BY <1>1 DEF NamedOK

\* What an apply lists, and the ids it picks from it, are named as the controller has them.
LEMMA NamedLocal ==
  ASSUME TypeOK, NamedOK, NEW a \in Apply, Step(a), everNamed \subseteq everNamed'
  PROVE  NamedOf(a)'
  <1>1. /\ NamedOf(a)
        /\ \A g \in userGroups \cup memberGroups : <<g.id, g.name>> \in everNamed
    BY DEF NamedOK, NamedOf
  <1> USE <1>1 DEF NamedOf, TypeOK
  <1>2. CASE PrefetchUsers(a) \/ RelistUsers(a)
    BY <1>2 DEF PrefetchUsers, RelistUsers, ctlVars
  <1>3. CASE PrefetchMembers(a)
    <2>1. PICK f \in Vocabularies(memberGroups) : memberIds' = [memberIds EXCEPT ![a] = f]
      BY <1>3 DEF PrefetchMembers
    <2>2. \A n \in DOMAIN f : <<f[n], n>> \in everNamed
      BY VocabularyNamed
    <2> QED
      BY <1>3, <2>1, <2>2 DEF PrefetchMembers
  <1>4. CASE RelistMembers(a)
    <2>1. PICK f \in Vocabularies(memberGroups) :
            memberIds' = [memberIds EXCEPT ![a] =
              [n \in DOMAIN memberIds[a] \cup (Misses(a) \cap DOMAIN f) |->
                 IF n \in DOMAIN memberIds[a] THEN memberIds[a][n] ELSE f[n]]]
      BY <1>4 DEF RelistMembers
    <2>2. \A n \in DOMAIN f : <<f[n], n>> \in everNamed
      BY VocabularyNamed
    <2> QED
      BY <1>4, <2>1, <2>2 DEF RelistMembers
  <1>5. ASSUME NEW n \in Names, CreateMember(a, n) PROVE NamedOf(a)'
    BY <1>5 DEF CreateMember, With
  <1>6. ASSUME UNCHANGED <<users[a], members[a], memberIds[a]>> PROVE NamedOf(a)'
    BY <1>6
  <1>7. CASE \/ UseGivenId(a) \/ ResolveListed(a) \/ LockForQos(a) \/ ResolveQosLocked(a)
             \/ GroupsKnown(a) \/ LockForGroups(a) \/ MembersResolved(a) \/ Send(a) \/ Fail(a)
             \/ \E n \in Names : RefuseMember(a, n)
    BY <1>6, <1>7 DEF UseGivenId, ResolveListed, LockForQos, ResolveQosLocked, GroupsKnown,
                      LockForGroups, MembersResolved, Send, Fail, RefuseMember
  <1> QED
    BY <1>2, <1>3, <1>4, <1>5, <1>7 DEF Step

\* Names stay with their ids.
LEMMA NamedStep ==
  ASSUME TypeOK, PhaseOK, NamedOK, [Next]_vars
  PROVE  NamedOK'
  <1>1. everNamed \subseteq everNamed'
    BY GroupsChange
  <1>2. \A g \in userGroups' \cup memberGroups' : <<g.id, g.name>> \in everNamed'
    <2>1. \A g \in userGroups \cup memberGroups : <<g.id, g.name>> \in everNamed'
      BY <1>1 DEF NamedOK
    <2>2. CASE userGroups' \subseteq userGroups /\ memberGroups' \subseteq memberGroups
      BY <2>1, <2>2
    <2>3. CASE Rewrites /\ memberGroups' = memberGroups
      BY <2>1, <2>3 DEF Rewrites
    <2>4. CASE AddsUser /\ memberGroups' = memberGroups
      BY <2>1, <2>4 DEF AddsUser
    <2>5. CASE AddsMember /\ userGroups' = userGroups
      BY <2>1, <2>5 DEF AddsMember
    <2> QED
      BY <2>2, <2>3, <2>4, <2>5, GroupsChange
  <1>3. ASSUME NEW b \in Apply PROVE NamedOf(b)'
    <2>1. NamedOf(b)
      BY DEF NamedOK, NamedOf
    <2>2. ASSUME NEW a \in Apply, Step(a) PROVE NamedOf(b)'
      <3>1. CASE a = b
        BY <1>1, <2>2, <3>1, NamedLocal
      <3>2. CASE a # b
        BY <1>1, <2>1, <2>2, <3>2, OthersKept DEF NamedOf
      <3> QED
        BY <3>1, <3>2
    <2>3. CASE OthersDelete \/ OthersCreate
      BY <1>1, <2>1, <2>3 DEF OthersDelete, OthersCreate, NamedOf
    <2>4. CASE UNCHANGED vars
      BY <2>1, <2>4 DEF vars, NamedOf
    <2> QED
      BY <2>2, <2>3, <2>4 DEF Next
  <1> QED
    BY <1>2, <1>3 DEF NamedOK, NamedOf

\* One apply's share of QosOK.
QosOf(a) ==
  pc[a] \in {"groups", "relist members", "create members", "send"} /\ request[a].qos # Null =>
    LET q == request[a].qos IN
    \/ q.id # Null /\ qosId[a] = q.id
    \/ q.id = Null /\ <<qosId[a], GroupName(q)>> \in everNamed

\* The usergroup an apply resolves is the one its request names.
LEMMA QosLocal ==
  ASSUME TypeOK, PhaseOK, NamedOK, QosOK, NEW a \in Apply, Step(a), everNamed \subseteq everNamed'
  PROVE  QosOf(a)'
  <1>1. QosOf(a) /\ \A g \in users[a] : <<g.id, g.name>> \in everNamed
    BY DEF QosOK, QosOf, NamedOK
  <1> USE DEF QosOf, TypeOK, Goto
  <1>2. CASE PrefetchUsers(a) \/ LockForQos(a) \/ RelistUsers(a) \/ Fail(a)
    BY <1>1, <1>2 DEF PrefetchUsers, LockForQos, RelistUsers, Fail
  <1>3. CASE PrefetchMembers(a)
    BY <1>3 DEF PrefetchMembers
  <1>4. CASE UseGivenId(a)
    BY <1>4 DEF UseGivenId
  <1>5. CASE ResolveListed(a)
    BY <1>1, <1>5 DEF ResolveListed
  <1>6. CASE ResolveQosLocked(a)
    <2>1. request[a].qos.id = Null
      BY <1>6 DEF ResolveQosLocked, PhaseOK
    <2> QED
      BY <1>1, <1>6, <2>1 DEF ResolveQosLocked
  <1>7. CASE GroupsKnown(a) \/ LockForGroups(a) \/ MembersResolved(a) \/ Send(a)
    BY <1>1, <1>7 DEF GroupsKnown, LockForGroups, MembersResolved, Send
  <1>8. CASE RelistMembers(a) \/ \E n \in Names : CreateMember(a, n) \/ RefuseMember(a, n)
    BY <1>1, <1>8 DEF RelistMembers, CreateMember, RefuseMember
  <1> QED
    BY <1>2, <1>3, <1>4, <1>5, <1>6, <1>7, <1>8 DEF Step

\* So it stays.
LEMMA QosStep ==
  ASSUME TypeOK, PhaseOK, NamedOK, QosOK, [Next]_vars
  PROVE  QosOK'
  <1>1. everNamed \subseteq everNamed'
    BY GroupsChange
  <1>2. ASSUME NEW b \in Apply PROVE QosOf(b)'
    <2>1. QosOf(b)
      BY DEF QosOK, QosOf
    <2>2. ASSUME NEW a \in Apply, Step(a) PROVE QosOf(b)'
      <3>1. CASE a = b
        BY <1>1, <2>2, <3>1, QosLocal
      <3>2. CASE a # b
        BY <1>1, <2>1, <2>2, <3>2, OthersKept DEF QosOf
      <3> QED
        BY <3>1, <3>2
    <2>3. CASE OthersDelete \/ OthersCreate
      BY <1>1, <2>1, <2>3 DEF OthersDelete, OthersCreate, QosOf
    <2>4. CASE UNCHANGED vars
      BY <2>1, <2>4 DEF vars, QosOf
    <2> QED
      BY <2>2, <2>3, <2>4 DEF Next
  <1> QED
    BY <1>2 DEF QosOK, QosOf

\* An apply comes to a resolution under the lock with a listing of the present.
LEMMA Arrives ==
  ASSUME TypeOK, [Next]_vars, NEW b \in Apply
  PROVE  /\ pc'[b] = "resolve qos" =>
              \/ pc[b] = "resolve qos" /\ users'[b] = users[b]
              \/ users'[b] = userGroups /\ userGroups' = userGroups
         /\ pc'[b] = "create members" =>
              \/ pc[b] = "create members" /\ Misses(b)' \subseteq Misses(b)
              \/ memberGroups' = memberGroups /\ \A g \in memberGroups : g.name \notin Misses(b)'
  <1> DEFINE Goal == /\ pc'[b] = "resolve qos" =>
                          \/ pc[b] = "resolve qos" /\ users'[b] = users[b]
                          \/ users'[b] = userGroups /\ userGroups' = userGroups
                     /\ pc'[b] = "create members" =>
                          \/ pc[b] = "create members" /\ Misses(b)' \subseteq Misses(b)
                          \/ /\ memberGroups' = memberGroups
                             /\ \A g \in memberGroups : g.name \notin Misses(b)'
  <1>1. CASE RelistUsers(b)
    BY <1>1 DEF RelistUsers, Goto, TypeOK, ctlVars
  <1>2. CASE RelistMembers(b)
    <2>1. PICK f \in Vocabularies(memberGroups) :
            memberIds' = [memberIds EXCEPT ![b] =
              [n \in DOMAIN memberIds[b] \cup (Misses(b) \cap DOMAIN f) |->
                 IF n \in DOMAIN memberIds[b] THEN memberIds[b][n] ELSE f[n]]]
      BY <1>2 DEF RelistMembers
    <2>2. memberGroups \subseteq MemberGroup
      BY DEF TypeOK
    <2>3. DOMAIN f = {g.name : g \in memberGroups}
      BY <2>2, VocabularyType
    <2>4. \A g \in memberGroups : g.name \in DOMAIN f
      BY <2>3
    <2>5. DOMAIN memberIds'[b] = DOMAIN memberIds[b] \cup (Misses(b) \cap DOMAIN f)
      BY <2>1 DEF TypeOK
    <2>6. \A g \in memberGroups : g.name \notin Misses(b)'
      BY <1>2, <2>4, <2>5 DEF Misses, RelistMembers
    <2> QED
      BY <1>2, <2>6 DEF RelistMembers, Goto, TypeOK, ctlVars
  <1>3. ASSUME NEW n \in Names, CreateMember(b, n) \/ RefuseMember(b, n)
        PROVE  Goal
    <2>1. pc[b] = "create members" /\ pc' = pc
      BY <1>3 DEF CreateMember, RefuseMember, ctlVars
    <2>2. CASE CreateMember(b, n)
      <3>1. DOMAIN memberIds'[b] = DOMAIN memberIds[b] \cup {n} /\ UNCHANGED <<request, refused>>
        BY <2>2 DEF CreateMember, With, TypeOK
      <3> QED
        BY <2>1, <3>1 DEF Misses
    <2>3. CASE RefuseMember(b, n)
      <3>1. refused'[b] = refused[b] \cup {n} /\ UNCHANGED <<request, memberIds>>
        BY <2>3 DEF RefuseMember, TypeOK
      <3> QED
        BY <2>1, <3>1 DEF Misses
    <2> QED
      BY <1>3, <2>2, <2>3
  <1>4. CASE \/ PrefetchUsers(b) \/ PrefetchMembers(b) \/ UseGivenId(b) \/ ResolveListed(b)
             \/ LockForQos(b) \/ ResolveQosLocked(b) \/ GroupsKnown(b) \/ LockForGroups(b)
             \/ MembersResolved(b) \/ Send(b) \/ Fail(b)
    <2>1. pc'[b] # "resolve qos" /\ pc'[b] # "create members"
      BY <1>4 DEF PrefetchUsers, PrefetchMembers, UseGivenId, ResolveListed, LockForQos,
                  ResolveQosLocked, GroupsKnown, LockForGroups, MembersResolved, Send, Fail,
                  Goto, TypeOK
    <2> QED
      BY <2>1
  <1>5. ASSUME NEW a \in Apply, Step(a), a # b PROVE Goal
    BY <1>5, OthersKept DEF Misses
  <1>6. CASE OthersDelete \/ OthersCreate
    BY <1>6 DEF OthersDelete, OthersCreate, Misses
  <1>7. CASE UNCHANGED vars
    BY <1>7 DEF vars, Misses
  <1> QED
    BY <1>1, <1>2, <1>3, <1>4, <1>5, <1>6, <1>7 DEF Next, Step

\* What the holder of the lock misses nobody else creates.
LEMMA SeenStep ==
  ASSUME TypeOK, LockOK, PhaseOK, SeenOK, [Next]_vars
  PROVE  SeenOK'
  <1>1. ASSUME NEW b \in Apply, pc'[b] = "resolve qos", NEW g \in userGroups', g.own
        PROVE  \E h \in users'[b] : h.name = g.name
    <2>1. CASE users'[b] = userGroups /\ userGroups' = userGroups
      BY <2>1
    <2>2. CASE pc[b] = "resolve qos" /\ users'[b] = users[b]
      <3>1. CASE \E k \in userGroups : k.own /\ k.name = g.name
        <4>1. PICK k \in userGroups : k.own /\ k.name = g.name
          BY <3>1
        <4>2. \E h \in users[b] : h.name = k.name
          BY <2>2, <4>1 DEF SeenOK
        <4> QED
          BY <2>2, <4>1, <4>2
      <3>2. CASE ~\E k \in userGroups : k.own /\ k.name = g.name
        <4>3. g \notin userGroups
          BY <1>1, <3>2
        <4>4. ASSUME Rewrites PROVE FALSE
          <5>1. PICK r \in UserGroup, q \in QosRequest :
                  /\ userGroups' = {Rewritten(h, r, q) : h \in userGroups}
                  /\ \A h \in userGroups : /\ Rewritten(h, r, q).name = h.name
                                           /\ Rewritten(h, r, q).own = h.own
            BY <4>4 DEF Rewrites
          <5>2. PICK h \in userGroups : g = Rewritten(h, r, q)
            BY <1>1, <5>1
          <5>3. g.name = h.name /\ g.own = h.own
            BY <5>1, <5>2
          <5> QED
            BY <1>1, <3>2, <5>3
        <4>1. AddsUser /\ g \notin userGroups
          BY <1>1, <4>3, <4>4, GroupsChange
        <4>2. \E a \in Apply : pc[a] = "resolve qos" /\ pc'[a] # "resolve qos"
          BY <1>1, <4>1 DEF AddsUser
        <4> QED
          BY <1>1, <2>2, <4>2 DEF LockOK, Locked
      <3> QED
        BY <3>1, <3>2
    <2> QED
      BY <1>1, <2>1, <2>2, Arrives
  <1>2. ASSUME NEW b \in Apply, pc'[b] = "create members", NEW g \in memberGroups', g.own
        PROVE  g.name \notin Misses(b)'
    <2>1. CASE memberGroups' = memberGroups /\ \A k \in memberGroups : k.name \notin Misses(b)'
      BY <2>1
    <2>2. CASE pc[b] = "create members" /\ Misses(b)' \subseteq Misses(b)
      <3>1. CASE g \in memberGroups
        BY <1>2, <2>2, <3>1 DEF SeenOK
      <3>2. CASE g \notin memberGroups
        <4>1. AddsMember
          BY <3>2, GroupsChange
        <4>2. \E a \in Apply : pc[a] = "create members" /\ g.name \notin Misses(a)'
          BY <1>2, <3>2, <4>1 DEF AddsMember
        <4> QED
          BY <2>2, <4>2 DEF LockOK, Locked
      <3> QED
        BY <3>1, <3>2
    <2> QED
      BY <1>2, <2>1, <2>2, Arrives
  <1> QED
    BY <1>1, <1>2 DEF SeenOK

\* So one group is created of each kind and name.
LEMMA OneGroupStep ==
  ASSUME TypeOK, PhaseOK, SeenOK, OneGroupPerName, [Next]_vars
  PROVE  OneGroupPerName'
  <1>1. CASE userGroups' \subseteq userGroups /\ memberGroups' \subseteq memberGroups
    BY <1>1 DEF OneGroupPerName
  <1>2. CASE Rewrites /\ memberGroups' = memberGroups
    BY <1>2 DEF OneGroupPerName, Rewrites
  <1>3. CASE AddsUser /\ memberGroups' = memberGroups
    <2>1. PICK g \in UserGroup :
            /\ userGroups' = userGroups \cup {g}
            /\ g.own => \E a \in Apply : /\ pc[a] = "resolve qos"
                                         /\ \A h \in users[a] : h.name # g.name
      BY <1>3 DEF AddsUser
    <2>2. ASSUME g.own, NEW k \in userGroups, k.own PROVE k.name # g.name
      <3>1. PICK a \in Apply : pc[a] = "resolve qos" /\ \A h \in users[a] : h.name # g.name
        BY <2>1, <2>2
      <3>2. \E h \in users[a] : h.name = k.name
        BY <2>2, <3>1 DEF SeenOK
      <3> QED
        BY <3>1, <3>2
    <2> QED
      BY <1>3, <2>1, <2>2 DEF OneGroupPerName
  <1>4. CASE AddsMember /\ userGroups' = userGroups
    <2>1. PICK g \in MemberGroup :
            /\ memberGroups' = memberGroups \cup {g}
            /\ g.own => \E a \in Apply : pc[a] = "create members" /\ g.name \in Misses(a)
      BY <1>4 DEF AddsMember
    <2>2. g.own => \A k \in memberGroups : k.own => k.name # g.name
      BY <2>1 DEF SeenOK
    <2>3. \A k, h \in memberGroups \cup {g} : k.own /\ h.own /\ k.name = h.name => k = h
      BY <2>2 DEF OneGroupPerName
    <2> QED
      BY <1>4, <2>1, <2>3 DEF OneGroupPerName
  <1> QED
    BY <1>1, <1>2, <1>3, <1>4, GroupsChange

\* One apply's share of RefsAreTheNamed.
RefsOf(a) ==
  client[a] # Null =>
    LET q == request[a].qos IN
    /\ q = Null => client[a].user = Null
    /\ q # Null => \/ q.id # Null /\ client[a].user = q.id
                   \/ q.id = Null /\ <<client[a].user, GroupName(q)>> \in everNamed
    /\ DOMAIN client[a].groups = request[a].groups
    /\ \A n \in request[a].groups : <<client[a].groups[n], n>> \in everNamed

\* A client is written with what was resolved for it, and with nothing else.
LEMMA RefsStep ==
  ASSUME TypeOK, PhaseOK, NamedOK, QosOK, RefsAreTheNamed, [Next]_vars
  PROVE  RefsAreTheNamed'
  <1>1. everNamed \subseteq everNamed'
    BY GroupsChange
  <1>2. ASSUME NEW b \in Apply PROVE RefsOf(b)'
    <2>1. RefsOf(b)
      BY DEF RefsAreTheNamed, RefsOf
    <2>2. ASSUME UNCHANGED <<client[b], request[b]>> PROVE RefsOf(b)'
      BY <1>1, <2>1, <2>2 DEF RefsOf
    <2>3. CASE Send(b)
      <3>1. client'[b] = [user |-> qosId[b], groups |-> MemberRefs(b)] /\ UNCHANGED <<request, everNamed>>
        BY <2>3 DEF Send, TypeOK, ctlVars
      <3>2. /\ \A n \in request[b].groups : n \in DOMAIN memberIds[b]
            /\ request[b].qos = Null => qosId[b] = Null
        BY <2>3 DEF Send, PhaseOK
      <3>3. \A n \in request[b].groups : <<MemberRefs(b)[n], n>> \in everNamed
        BY <3>2 DEF MemberRefs, NamedOK
      <3>4. DOMAIN MemberRefs(b) = request[b].groups
        BY DEF MemberRefs
      <3>5. request[b].qos # Null =>
              \/ request[b].qos.id # Null /\ qosId[b] = request[b].qos.id
              \/ request[b].qos.id = Null /\ <<qosId[b], GroupName(request[b].qos)>> \in everNamed
        BY <2>3 DEF Send, QosOK
      <3> QED
        BY <3>1, <3>2, <3>3, <3>4, <3>5 DEF RefsOf
    <2>4. ASSUME NEW a \in Apply, Step(a), a # b PROVE RefsOf(b)'
      BY <2>2, <2>4, OthersKept
    <2>5. CASE \/ PrefetchUsers(b) \/ PrefetchMembers(b) \/ UseGivenId(b) \/ ResolveListed(b)
               \/ LockForQos(b) \/ RelistUsers(b) \/ ResolveQosLocked(b) \/ GroupsKnown(b)
               \/ LockForGroups(b) \/ RelistMembers(b) \/ MembersResolved(b) \/ Fail(b)
               \/ \E n \in Names : CreateMember(b, n) \/ RefuseMember(b, n)
      BY <2>2, <2>5 DEF PrefetchUsers, PrefetchMembers, UseGivenId, ResolveListed, LockForQos,
             RelistUsers, ResolveQosLocked, GroupsKnown, LockForGroups, RelistMembers,
             MembersResolved, Fail, CreateMember, RefuseMember
    <2>6. CASE OthersDelete \/ OthersCreate \/ UNCHANGED vars
      BY <2>2, <2>6 DEF OthersDelete, OthersCreate, vars
    <2> QED
      BY <2>3, <2>4, <2>5, <2>6 DEF Next, Step
  <1> QED
    BY <1>2 DEF RefsAreTheNamed, RefsOf

-----------------------------------------------------------------------------
(* The invariant holds.                                                      *)

\* Nobody holds the lock, nothing is listed, and the controller's groups are its own.
LEMMA GroupsStart == Init => GroupsInv
  <1> SUFFICES ASSUME Init PROVE GroupsInv
    OBVIOUS
  <1>1. /\ userGroups \subseteq UserGroup /\ memberGroups \subseteq MemberGroup
        /\ \A g \in userGroups \cup memberGroups : g.id < nextId /\ ~g.own
        /\ \A g, h \in userGroups : g.id = h.id => g = h
    BY GroupsAssumption DEF Init
  <1>2. everNamed \subseteq Ids \X AnyName
    BY <1>1 DEF Init, UserGroup, MemberGroup, AnyName
  <1>3. edits \in 0..MaxEdits
    BY GroupsAssumption DEF Init
  <1>4. \A a \in Apply : memberIds[a] = <<>> /\ DOMAIN memberIds[a] = {}
    BY DEF Init
  <1>5. \A a \in Apply : IsMap(memberIds[a], Names, Ids)
    <2>1. DOMAIN << >> = {} /\ << >> = [i \in {} |-> i] /\ [i \in {} |-> i] \in [{} -> Ids]
      OBVIOUS
    <2> QED
      BY <1>4, <2>1 DEF IsMap
  <1>6. memberIds = [a \in Apply |-> memberIds[a]] /\ client = [a \in Apply |-> client[a]]
    BY DEF Init
  <1>7. TypeOK
    BY <1>1, <1>2, <1>3, <1>5, <1>6, GroupsAssumption DEF Init, TypeOK, Reference
  <1>8. LockOK /\ PhaseOK /\ QosOK /\ SeenOK /\ RefsAreTheNamed
    BY DEF Init, LockOK, Locked, PhaseOK, QosOK, SeenOK, RefsAreTheNamed
  <1>9. FreshOK /\ OneGroupPerName
    BY <1>1 DEF FreshOK, OneGroupPerName
  <1>10. NamedOK
    BY <1>4 DEF Init, NamedOK
  <1> QED
    BY <1>7, <1>8, <1>9, <1>10 DEF GroupsInv

\* Whatever the applies and the others do, in whatever order, the groups and what each apply
\* holds of them stay consistent.
THEOREM GroupsInductive == Spec => []GroupsInv
  <1>1. GroupsInv /\ [Next]_vars => GroupsInv'
    <2> SUFFICES ASSUME GroupsInv, [Next]_vars PROVE GroupsInv'
      OBVIOUS
    <2> USE DEF GroupsInv
    <2>1. TypeOK' /\ LockOK' /\ PhaseOK'
      BY TypeOKStep, LockStep, PhaseStep
    <2>2. FreshOK' /\ NamedOK' /\ QosOK'
      BY FreshStep, NamedStep, QosStep
    <2>3. SeenOK' /\ OneGroupPerName' /\ RefsAreTheNamed'
      BY SeenStep, OneGroupStep, RefsStep
    <2> QED
      BY <2>1, <2>2, <2>3
  <1> QED
    BY <1>1, GroupsStart, PTL DEF Spec

\* Every variable of the client groups keeps its type.
THEOREM TypeCorrect == Spec => []TypeOK
  <1>1. GroupsInv => TypeOK
    BY DEF GroupsInv
  <1> QED
    BY <1>1, GroupsInductive, PTL

\* However many applies ask for the same new name at once, one group of that name is created.
THEOREM OneGroupCreated == Spec => []OneGroupPerName
  <1>1. GroupsInv => OneGroupPerName
    BY DEF GroupsInv
  <1> QED
    BY <1>1, GroupsInductive, PTL

\* A client is written with the groups its configuration names: never an empty id, never
\* another group's.
THEOREM NamedGroupsWritten == Spec => []RefsAreTheNamed
  <1>1. GroupsInv => RefsAreTheNamed
    BY DEF GroupsInv
  <1> QED
    BY <1>1, GroupsInductive, PTL

\* What is written back for a listing that is still current keeps every limit the request
\* leaves out: the group written to is the group that was listed.
LEMMA CurrentKeeps ==
  ASSUME TypeOK, FreshOK, NEW g \in userGroups, NEW q \in QosRequest, WriteGroup(g, q),
         NEW k \in userGroups, NEW h \in userGroups', k.id = h.id,
         NEW l \in Limits, q.rates[l] = Null
  PROVE  h.rates[l] = k.rates[l]
  <1>1. g \in UserGroup /\ k \in UserGroup /\ userGroups \subseteq UserGroup
    BY DEF TypeOK
  <1>2. PICK m \in userGroups : h = Rewritten(m, g, q)
    BY <1>1, WriteGroupRewrites
  <1>3. h.id = m.id
    BY <1>1, <1>2, WriteGroupRewrites
  <1>4. m = k
    BY <1>3 DEF FreshOK
  <1>5. CASE NeedsRerate(g, q) /\ k.id = g.id
    <2>1. k = g /\ h = Written(k, Rerated(g, q))
      BY <1>2, <1>4, <1>5 DEF Rewritten, FreshOK
    <2>2. Rerated(g, q) \in UserGroup /\ Rerated(g, q).rates[l] = g.rates[l]
      BY <1>1, ReratedType
    <2>3. h.rates[l] = IF Rerated(g, q).rates[l] # Null THEN Rerated(g, q).rates[l] ELSE k.rates[l]
      BY <1>1, <2>1, <2>2, WrittenType
    <2> QED
      BY <2>1, <2>2, <2>3
  <1>6. CASE ~(NeedsRerate(g, q) /\ k.id = g.id)
    BY <1>2, <1>4, <1>6 DEF Rewritten
  <1> QED
    BY <1>5, <1>6

\* Re-rating a group from a listing that is still current leaves the limits the request does
\* not name as they are.
THEOREM RerateIsPartial == Spec => RerateKeepsTheRest
  <1> DEFINE Keeps == \A a \in Apply : Step(a) /\ userGroups = users[a] /\ request[a].qos # Null =>
                        \A g \in userGroups, h \in userGroups' : g.id = h.id =>
                          \A l \in Limits : request[a].qos.rates[l] = Null => h.rates[l] = g.rates[l]
  <1>1. GroupsInv /\ [Next]_vars => [Keeps]_vars
    <2> SUFFICES ASSUME GroupsInv, NEW a \in Apply, Step(a), userGroups = users[a],
                        request[a].qos # Null,
                        NEW g \in userGroups, NEW h \in userGroups', g.id = h.id,
                        NEW l \in Limits, request[a].qos.rates[l] = Null
                 PROVE  h.rates[l] = g.rates[l]
      OBVIOUS
    <2>1. TypeOK /\ FreshOK /\ request[a].qos \in QosRequest
      BY RequestType DEF GroupsInv
    <2>2. CASE \E k \in userGroups : WriteGroup(k, request[a].qos)
      BY <2>1, <2>2, CurrentKeeps
    <2>3. CASE \E i \in UserGroup : i.id = nextId /\ userGroups' = userGroups \cup {i}
      <3>1. PICK i \in UserGroup : i.id = nextId /\ userGroups' = userGroups \cup {i}
        BY <2>3
      <3>2. g.id \in Nat /\ nextId \in Nat /\ g.id < nextId
        BY <2>1, NextIdType DEF FreshOK, TypeOK, UserGroup, Ids
      <3>3. h \in userGroups
        BY <3>1, <3>2
      <3> QED
        BY <2>1, <3>3 DEF FreshOK
    <2>4. CASE UNCHANGED userGroups
      BY <2>1, <2>4 DEF FreshOK
    <2>5. ASSUME ResolveQosLocked(a), \A k \in users[a] : k.name # GroupName(request[a].qos),
                 userGroups' = userGroups \cup
                   {[id |-> nextId, name |-> GroupName(request[a].qos),
                     rates |-> request[a].qos.rates, own |-> TRUE]}
          PROVE  \E i \in UserGroup : i.id = nextId /\ userGroups' = userGroups \cup {i}
      BY <2>1, <2>5, RequestType DEF UserGroup, TypeOK
    <2>6. CASE ResolveListed(a) \/ ResolveQosLocked(a)
      BY <2>2, <2>3, <2>5, <2>6 DEF ResolveListed, ResolveQosLocked
    <2>7. CASE \/ PrefetchUsers(a) \/ PrefetchMembers(a) \/ UseGivenId(a) \/ LockForQos(a)
               \/ RelistUsers(a) \/ GroupsKnown(a) \/ LockForGroups(a) \/ RelistMembers(a)
               \/ (\E n \in Names : CreateMember(a, n) \/ RefuseMember(a, n))
               \/ MembersResolved(a) \/ Send(a) \/ Fail(a)
      BY <2>4, <2>7 DEF PrefetchUsers, PrefetchMembers, UseGivenId, LockForQos, RelistUsers,
           GroupsKnown, LockForGroups, RelistMembers, CreateMember, RefuseMember,
           MembersResolved, Send, Fail, ctlVars
    <2> QED
      BY <2>6, <2>7 DEF Step
  <1> HIDE DEF Keeps
  <1>2. Spec => [][Keeps]_vars
    BY <1>1, GroupsInductive, PTL DEF Spec
  <1> QED
    BY <1>2 DEF RerateKeepsTheRest, Keeps

=============================================================================
