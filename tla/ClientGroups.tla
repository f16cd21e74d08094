---------------------------- MODULE ClientGroups ----------------------------
(***************************************************************************)
(* Concurrent applies of unifi_client (unifi/client_descriptor.go).        *)
(*                                                                         *)
(* A client names the usergroup of its qos_rate and its network-members    *)
(* groups; the controller wants their ids.  Each apply first lists both    *)
(* kinds of group (Prefetch, no lock), then BeforeSend turns names into    *)
(* ids.  A name the listing lacks is resolved under clientGroupMu, which   *)
(* lives on the provider's client and is shared by all applies: the group  *)
(* is looked for again and created only if it is still absent.             *)
(*                                                                         *)
(* One action is one call to the controller, so applies interleave between *)
(* any two calls.  Groups also come and go through other hands.            *)
(***************************************************************************)
EXTENDS Naturals, Sequences, FiniteSets

CONSTANTS
    Apply,          \* the applies running concurrently
    Requests,       \* what an apply may ask for
    OldUserGroups,  \* usergroups that may exist beforehand
    OldMemberGroups,\* network-members groups that may exist beforehand
    FirstId,        \* ids below it are the old groups'
    Names,          \* names a configuration can give a group
    Limits, Rates,  \* the limits of a usergroup (max_up, max_down), their values
    Null, Unknown,  \* an absent value; one the plan leaves to the controller
    NoApply,        \* nobody holds the lock
    MaxEdits        \* bound: groups created or deleted by others

Ids == Nat \ {0}
RateSet == [Limits -> Rates \cup {Null}]
AnyName == Names \cup RateSet        \* a group without a name is named after its rates
QosRequest == [id : Ids \cup {Null}, name : Names \cup {Null}, rates : RateSet]
Request == [qos : QosRequest \cup {Null}, groups : SUBSET Names]
UserGroup == [id : Ids, name : AnyName, rates : RateSet, own : BOOLEAN]
MemberGroup == [id : Ids, name : Names, own : BOOLEAN]

ASSUME GroupsAssumption ==
    /\ FirstId \in Ids /\ MaxEdits \in Nat
    /\ Null \notin Names \cup Rates \cup Ids /\ Null \notin QosRequest
    /\ NoApply \notin Apply
    /\ Requests \subseteq Request
    /\ OldUserGroups \subseteq UserGroup /\ OldMemberGroups \subseteq MemberGroup
    /\ \A g \in OldUserGroups \cup OldMemberGroups : g.id < FirstId /\ ~g.own
    /\ \A g, h \in OldUserGroups \cup OldMemberGroups : g.id = h.id => g = h

VARIABLES
    userGroups, memberGroups,   \* the controller's groups
    nextId,                     \* the id the controller gives next
    lock,                       \* clientGroupMu: the apply holding it, or NoApply
    pc,                         \* where each apply stands
    request,                    \* what it asks for
    users, members,             \* the groups its last listing of each kind showed
    qosId,                      \* the usergroup id it resolved, or Null
    memberIds,                  \* name -> id of the member groups it resolved
    refused,                    \* member groups it could not create
    client,                     \* what it wrote to the controller, or Null
    recorded,                   \* qos_rate as it left it in state
    edits,                      \* edits by others
    everNamed                   \* history: <<id, name>> of every group there ever was

ctlVars == <<userGroups, memberGroups, nextId, everNamed>>
vars == <<userGroups, memberGroups, nextId, lock, pc, request, users, members,
          qosId, memberIds, refused, client, recorded, edits, everNamed>>

-----------------------------------------------------------------------------
\* Mutant of GroupName: no name is made up from the rates.
GivenName(q) == q.name

GroupName(q) == IF q.name # Null THEN q.name ELSE q.rates

\* Mutant of Rerated: an absent limit goes out as zero.
RateAnew(g, q) ==
    [g EXCEPT !.rates = [l \in Limits |-> IF q.rates[l] # Null THEN q.rates[l] ELSE 0]]

\* A limit the request leaves out is not the request's to change.
Rerated(g, q) ==
    [g EXCEPT !.rates = [l \in Limits |->
        IF q.rates[l] # Null THEN q.rates[l] ELSE g.rates[l]]]

NeedsRerate(g, q) == Rerated(g, q) # g

Misses(a) == request[a].groups \ (DOMAIN memberIds[a] \cup refused[a])

\* The prefetched vocabulary: one of the ids listed under each name.
Vocabularies(groups) ==
    {f \in [{g.name : g \in groups} -> {g.id : g \in groups}] :
        \A n \in DOMAIN f : \E g \in groups : g.name = n /\ g.id = f[n]}

With(f, n, i) == [x \in DOMAIN f \cup {n} |-> IF x = n THEN i ELSE f[x]]

\* A name the map lacks would go out as the empty id.
MemberRefs(a) ==
    [n \in request[a].groups |->
        IF n \in DOMAIN memberIds[a] THEN memberIds[a][n] ELSE Null]

\* The plan's qos_rate: what the configuration leaves out is Unknown.
PlannedQos(q) ==
    [id |-> IF q.id = Null THEN Unknown ELSE q.id,
     name |-> IF q.name = Null THEN Unknown ELSE q.name,
     rates |-> [l \in Limits |-> IF q.rates[l] = Null THEN Unknown ELSE q.rates[l]]]

\* AfterReceive looks the id up in the prefetched listing, then
\* copyUncoveredPlanValues puts the plan's object over the answer whole.
Recorded(a) ==
    IF request[a].qos # Null THEN PlannedQos(request[a].qos) ELSE Null

Goto(a, where) == pc' = [pc EXCEPT ![a] = where]

-----------------------------------------------------------------------------
Init ==
    /\ userGroups \in SUBSET OldUserGroups /\ memberGroups \in SUBSET OldMemberGroups
    /\ nextId = FirstId
    /\ lock = NoApply
    /\ pc = [a \in Apply |-> "start"]
    /\ request \in [Apply -> Requests]
    /\ users = [a \in Apply |-> {}] /\ members = [a \in Apply |-> {}]
    /\ qosId = [a \in Apply |-> Null]
    /\ memberIds = [a \in Apply |-> <<>>]
    /\ refused = [a \in Apply |-> {}]
    /\ client = [a \in Apply |-> Null] /\ recorded = [a \in Apply |-> Null]
    /\ edits = 0
    /\ everNamed = {<<g.id, g.name>> : g \in userGroups \cup memberGroups}

\* Prefetch: two listings, without the lock.
PrefetchUsers(a) ==
    /\ pc[a] = "start"
    /\ users' = [users EXCEPT ![a] = userGroups]
    /\ Goto(a, "prefetch")
    /\ UNCHANGED <<ctlVars, lock, request, members, qosId, memberIds, refused,
                   client, recorded, edits>>

PrefetchMembers(a) ==
    /\ pc[a] = "prefetch"
    /\ members' = [members EXCEPT ![a] = memberGroups]
    /\ \E f \in Vocabularies(memberGroups) : memberIds' = [memberIds EXCEPT ![a] = f]
    /\ Goto(a, IF request[a].qos = Null THEN "groups" ELSE "qos")
    /\ UNCHANGED <<ctlVars, lock, request, users, qosId, refused, client,
                   recorded, edits>>

\* A request that gives the id needs no group to be looked for.
UseGivenId(a) ==
    /\ pc[a] = "qos" /\ request[a].qos.id # Null
    /\ qosId' = [qosId EXCEPT ![a] = request[a].qos.id]
    /\ Goto(a, "groups")
    /\ UNCHANGED <<ctlVars, lock, request, users, members, memberIds, refused,
                   client, recorded, edits>>

\* clientUpdateGroupIfNeeded: g, as it was listed, is written back whole with
\* the requested limits when they disagree.  The controller keeps a limit the
\* object does not carry; a group gone meanwhile is an error.
Written(h, g) ==
    [h EXCEPT !.rates = [l \in Limits |-> IF g.rates[l] # Null THEN g.rates[l] ELSE @[l]]]

WriteGroup(g, q) ==
    /\ NeedsRerate(g, q) => \E h \in userGroups : h.id = g.id
    /\ userGroups' =
         IF NeedsRerate(g, q)
         THEN {IF h.id = g.id THEN Written(h, Rerated(g, q)) ELSE h : h \in userGroups}
         ELSE userGroups

\* clientResolveGroup: the prefetched listing has the name; no lock is taken.
ResolveListed(a) ==
    /\ pc[a] = "qos" /\ request[a].qos.id = Null
    /\ \E g \in users[a] :
         /\ g.name = GroupName(request[a].qos)
         /\ WriteGroup(g, request[a].qos)
         /\ qosId' = [qosId EXCEPT ![a] = g.id]
    /\ Goto(a, "groups")
    /\ UNCHANGED <<memberGroups, nextId, lock, request, users, members,
                   memberIds, refused, client, recorded, edits, everNamed>>

LockForQos(a) ==
    /\ pc[a] = "qos" /\ request[a].qos.id = Null
    /\ \A g \in users[a] : g.name # GroupName(request[a].qos)
    /\ lock = NoApply /\ lock' = a
    /\ Goto(a, "relist users")
    /\ UNCHANGED <<ctlVars, request, users, members, qosId, memberIds, refused,
                   client, recorded, edits>>

\* Mutant of RelistUsers: under the lock, the prefetched listing is trusted.
TrustPrefetch(a) ==
    /\ pc[a] = "relist users"
    /\ Goto(a, "resolve qos")
    /\ UNCHANGED <<ctlVars, lock, request, users, members, qosId, memberIds,
                   refused, client, recorded, edits>>

\* The listing under the lock sees what the lock's last holder created.
RelistUsers(a) ==
    /\ pc[a] = "relist users"
    /\ users' = [users EXCEPT ![a] = userGroups]
    /\ Goto(a, "resolve qos")
    /\ UNCHANGED <<ctlVars, lock, request, members, qosId, memberIds, refused,
                   client, recorded, edits>>

\* clientResolveGroupLocked: reuse or create, and unlock on return.
ResolveQosLocked(a) ==
    /\ pc[a] = "resolve qos"
    /\ LET q == request[a].qos IN
         \/ /\ \E g \in users[a] :
                 /\ g.name = GroupName(q)
                 /\ WriteGroup(g, q)
                 /\ qosId' = [qosId EXCEPT ![a] = g.id]
            /\ UNCHANGED <<nextId, everNamed>>
         \/ /\ \A g \in users[a] : g.name # GroupName(q)
            /\ userGroups' = userGroups \cup
                 {[id |-> nextId, name |-> GroupName(q), rates |-> q.rates, own |-> TRUE]}
            /\ everNamed' = everNamed \cup {<<nextId, GroupName(q)>>}
            /\ qosId' = [qosId EXCEPT ![a] = nextId]
            /\ nextId' = nextId + 1
    /\ lock' = NoApply
    /\ Goto(a, "groups")
    /\ UNCHANGED <<memberGroups, request, users, members, memberIds, refused,
                   client, recorded, edits>>

\* Every name already in the vocabulary: no lock.
GroupsKnown(a) ==
    /\ pc[a] = "groups" /\ Misses(a) = {}
    /\ Goto(a, "send")
    /\ UNCHANGED <<ctlVars, lock, request, users, members, qosId, memberIds,
                   refused, client, recorded, edits>>

LockForGroups(a) ==
    /\ pc[a] = "groups" /\ Misses(a) # {}
    /\ lock = NoApply /\ lock' = a
    /\ Goto(a, "relist members")
    /\ UNCHANGED <<ctlVars, request, users, members, qosId, memberIds, refused,
                   client, recorded, edits>>

\* clientResolveMemberGroupsLocked: the misses the new listing has are resolved.
RelistMembers(a) ==
    /\ pc[a] = "relist members"
    /\ members' = [members EXCEPT ![a] = memberGroups]
    /\ \E f \in Vocabularies(memberGroups) :
         memberIds' = [memberIds EXCEPT ![a] =
             [n \in DOMAIN memberIds[a] \cup (Misses(a) \cap DOMAIN f) |->
                 IF n \in DOMAIN memberIds[a] THEN memberIds[a][n] ELSE f[n]]]
    /\ Goto(a, "create members")
    /\ UNCHANGED <<ctlVars, lock, request, users, qosId, refused, client,
                   recorded, edits>>

\* The rest are created one by one; a refused one is noted and skipped.
CreateMember(a, n) ==
    /\ pc[a] = "create members" /\ n \in Misses(a)
    /\ memberGroups' = memberGroups \cup {[id |-> nextId, name |-> n, own |-> TRUE]}
    /\ everNamed' = everNamed \cup {<<nextId, n>>}
    /\ memberIds' = [memberIds EXCEPT ![a] = With(@, n, nextId)]
    /\ nextId' = nextId + 1
    /\ UNCHANGED <<userGroups, lock, pc, request, users, members, qosId,
                   refused, client, recorded, edits>>

RefuseMember(a, n) ==
    /\ pc[a] = "create members" /\ n \in Misses(a)
    /\ refused' = [refused EXCEPT ![a] = @ \cup {n}]
    /\ UNCHANGED <<ctlVars, lock, pc, request, users, members, qosId, memberIds,
                   client, recorded, edits>>

\* Mutant of MembersResolved: a refused group does not fail the apply.
SendAnyway(a) ==
    /\ pc[a] = "create members" /\ Misses(a) = {}
    /\ lock' = NoApply
    /\ Goto(a, "send")
    /\ UNCHANGED <<ctlVars, request, users, members, qosId, memberIds, refused,
                   client, recorded, edits>>

\* The loop ends and the lock is released; one refusal fails the apply.
MembersResolved(a) ==
    /\ pc[a] = "create members" /\ Misses(a) = {}
    /\ lock' = NoApply
    /\ Goto(a, IF refused[a] # {} THEN "failed" ELSE "send")
    /\ UNCHANGED <<ctlVars, request, users, members, qosId, memberIds, refused,
                   client, recorded, edits>>

\* The client goes out with the resolved ids, and state is recorded.
Send(a) ==
    /\ pc[a] = "send"
    /\ client' = [client EXCEPT ![a] =
         [user |-> qosId[a], groups |-> MemberRefs(a)]]
    /\ recorded' = [recorded EXCEPT ![a] = Recorded(a)]
    /\ Goto(a, "done")
    /\ UNCHANGED <<ctlVars, lock, request, users, members, qosId, memberIds,
                   refused, edits>>

\* Mutant of Fail: an early return keeps the lock.
FailLocked(a) ==
    /\ pc[a] \in {"start", "prefetch", "qos", "relist users", "resolve qos",
                  "relist members", "send"}
    /\ Goto(a, "failed")
    /\ UNCHANGED <<ctlVars, lock, request, users, members, qosId, memberIds,
                   refused, client, recorded, edits>>

\* A call to the controller fails; a deferred Unlock releases the lock.
\* Creating a member group has its own action, it does not end the apply.
Fail(a) ==
    /\ pc[a] \in {"start", "prefetch", "qos", "relist users", "resolve qos",
                  "relist members", "send"}
    /\ lock' = IF lock = a THEN NoApply ELSE lock
    /\ Goto(a, "failed")
    /\ UNCHANGED <<ctlVars, request, users, members, qosId, memberIds, refused,
                   client, recorded, edits>>

\* Somebody else deletes a group, or creates one under any name.
OthersDelete ==
    /\ edits < MaxEdits /\ edits' = edits + 1
    /\ \/ \E g \in userGroups : userGroups' = userGroups \ {g} /\ UNCHANGED memberGroups
       \/ \E g \in memberGroups : memberGroups' = memberGroups \ {g} /\ UNCHANGED userGroups
    /\ UNCHANGED <<nextId, lock, pc, request, users, members, qosId, memberIds,
                   refused, client, recorded, everNamed>>

OthersCreate ==
    /\ edits < MaxEdits /\ edits' = edits + 1
    /\ \E n \in Names :
         /\ \/ /\ memberGroups' = memberGroups \cup {[id |-> nextId, name |-> n, own |-> FALSE]}
               /\ UNCHANGED userGroups
            \/ /\ userGroups' = userGroups \cup
                    {[id |-> nextId, name |-> n, rates |-> [l \in Limits |-> Null], own |-> FALSE]}
               /\ UNCHANGED memberGroups
         /\ everNamed' = everNamed \cup {<<nextId, n>>}
    /\ nextId' = nextId + 1
    /\ UNCHANGED <<lock, pc, request, users, members, qosId, memberIds, refused,
                   client, recorded>>

Step(a) ==
    \/ PrefetchUsers(a) \/ PrefetchMembers(a)
    \/ UseGivenId(a) \/ ResolveListed(a)
    \/ LockForQos(a) \/ RelistUsers(a) \/ ResolveQosLocked(a)
    \/ GroupsKnown(a) \/ LockForGroups(a) \/ RelistMembers(a)
    \/ \E n \in Names : CreateMember(a, n) \/ RefuseMember(a, n)
    \/ MembersResolved(a) \/ Send(a) \/ Fail(a)

Next == (\E a \in Apply : Step(a)) \/ OthersDelete \/ OthersCreate

Spec == Init /\ [][Next]_vars

\* Go runs every goroutine, every call to the controller returns (the context
\* of an operation has a deadline), and a mutex that is released is handed on.
FairSpec == Spec /\ \A a \in Apply : WF_vars(Step(a))

-----------------------------------------------------------------------------
(* Properties.                                                             *)

Reference == Ids \cup {Null}
IsMap(f, X, Y) == DOMAIN f \subseteq X /\ f \in [DOMAIN f -> Y]

\* Every variable holds a value the program can hold there.
TypeOK ==
    /\ userGroups \subseteq UserGroup /\ memberGroups \subseteq MemberGroup
    /\ nextId \in Ids
    /\ lock \in Apply \cup {NoApply}
    /\ pc \in [Apply -> {"start", "prefetch", "qos", "relist users", "resolve qos",
                         "groups", "relist members", "create members", "send",
                         "done", "failed"}]
    /\ request \in [Apply -> Requests]
    /\ users \in [Apply -> SUBSET UserGroup]
    /\ members \in [Apply -> SUBSET MemberGroup]
    /\ qosId \in [Apply -> Reference]
    /\ memberIds = [a \in Apply |-> memberIds[a]]
    /\ \A a \in Apply : IsMap(memberIds[a], Names, Ids)
    /\ refused \in [Apply -> SUBSET Names]
    /\ client = [a \in Apply |-> client[a]]
    /\ \A a \in Apply : client[a] # Null =>
         client[a].user \in Reference /\ IsMap(client[a].groups, Names, Reference)
    /\ edits \in 0..MaxEdits
    /\ everNamed \subseteq Ids \X AnyName

\* However many applies ask for the same new name at once, the provider creates
\* one usergroup and one network-members group of that name: the second apply
\* finds the first one's under the lock.
OneGroupPerName ==
    /\ \A g, h \in userGroups : g.own /\ h.own /\ g.name = h.name => g = h
    /\ \A g, h \in memberGroups : g.own /\ h.own /\ g.name = h.name => g = h

\* What a client is written with is what its configuration named: the usergroup
\* id is the one given or one a group of that name bore, every requested
\* member group has an id, never an empty one and never another group's.
RefsAreTheNamed ==
    \A a \in Apply : client[a] # Null =>
        LET q == request[a].qos IN
        /\ q = Null => client[a].user = Null
        /\ q # Null => \/ q.id # Null /\ client[a].user = q.id
                       \/ q.id = Null /\ <<client[a].user, GroupName(q)>> \in everNamed
        /\ DOMAIN client[a].groups = request[a].groups
        /\ \A n \in request[a].groups : <<client[a].groups[n], n>> \in everNamed

\* Re-rating a group from a listing that is still current leaves the limits
\* the request does not name as they are.
RerateKeepsTheRest ==
    [][\A a \in Apply : Step(a) /\ userGroups = users[a] /\ request[a].qos # Null =>
        \A g \in userGroups, h \in userGroups' : g.id = h.id =>
            \A l \in Limits :
                request[a].qos.rates[l] = Null => h.rates[l] = g.rates[l]]_vars

\* Every apply ends: neither a miss in both vocabularies nor a call that fails
\* under the lock leaves anyone waiting for clientGroupMu.
EveryApplyEnds == \A a \in Apply : <>(pc[a] \in {"done", "failed"})

\* client_descriptor.go says a group is re-rated when the requested limits
\* disagree with what the controller already has: an apply then never changes
\* a limit its configuration leaves out.
RerateFromTheController ==
    [][\A a \in Apply : Step(a) /\ request[a].qos # Null =>
        \A g \in userGroups, h \in userGroups' : g.id = h.id =>
            \A l \in Limits :
                request[a].qos.rates[l] = Null => h.rates[l] = g.rates[l]]_vars
=============================================================================
