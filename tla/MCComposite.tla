----------------------------- MODULE MCComposite -----------------------------
\* Composite on four sections: mgmt, with a secret; usg and ips, each with an Extra
\* that older controllers do not expose; and igmp_snooping, which can be dropped.
EXTENDS Composite

CONSTANTS mgmt, usg, usg_geo, ips, ips_suppression, igmp,
          password, ping, block, geo, alerts, networks, z, v

MCSectionOf == [d \in {mgmt, usg, usg_geo, ips, ips_suppression, igmp} |->
    CASE d = usg_geo -> usg [] d = ips_suppression -> ips [] OTHER -> d]
MCDocOf == (password :> mgmt) @@ (ping :> usg) @@ (block :> usg_geo) @@ (geo :> usg_geo)
           @@ (alerts :> ips_suppression) @@ (networks :> igmp)
MCOrder == <<mgmt, usg, usg_geo, ips, ips_suppression, igmp>>

\* A configuration: what each attribute is set to, and sections left empty.
Given(assignment, empty) ==
    [claims |-> {MCSectionOf[MCDocOf[a]] : a \in DOMAIN assignment} \cup empty,
     set |-> [a \in DOMAIN MCDocOf |->
                IF a \in DOMAIN assignment THEN assignment[a] ELSE Null]]

\* Sections without their Extras; Extras and explicit zeros, a section left empty;
\* Extras without their primary documents.
MCConfigs ==
    {Given((password :> v) @@ (ping :> z) @@ (networks :> v), {}),
     Given((password :> z) @@ (ping :> v) @@ (geo :> z) @@ (alerts :> z), {igmp}),
     Given((block :> v) @@ (geo :> v) @@ (alerts :> v), {})}
=============================================================================
