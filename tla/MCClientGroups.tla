--------------------------- MODULE MCClientGroups ---------------------------
\* ClientGroups on two names, two limits and two rates.
EXTENDS ClientGroups

CONSTANTS n1, n2, a1, a2

MCLimits == {"max_up", "max_down"}
Limited(up, down) == [l \in MCLimits |-> IF l = "max_up" THEN up ELSE down]
Qos(i, n, up, down) == [id |-> i, name |-> n, rates |-> Limited(up, down)]
Ask(q, groups) == [qos |-> q, groups |-> groups]

\* A name both kinds of group may lack, a re-rate of either limit, a group named
\* after its rates, an id given, no qos_rate at all.
MCRequests ==
    {Ask(Qos(Null, n1, 2, Null), {n1}),
     Ask(Qos(Null, n1, Null, 2), {n1}),
     Ask(Qos(Null, Null, 1, Null), {}),
     Ask(Qos(1, Null, Null, Null), {}),
     Ask(Null, {n1, n2})}

MCOldUserGroups ==
    {[id |-> 1, name |-> n1, rates |-> Limited(1, 1), own |-> FALSE]}
MCOldMemberGroups == {[id |-> 2, name |-> n1, own |-> FALSE]}
=============================================================================
