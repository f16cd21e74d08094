SPECIFICATION Spec
CONSTANTS
    mgmt = mgmt
    usg = usg
    usg_geo = usg_geo
    ips = ips
    ips_suppression = ips_suppression
    igmp = igmp
    password = password
    ping = ping
    block = block
    geo = geo
    alerts = alerts
    networks = networks
    z = z
    v = v
    Sections = {mgmt, usg, ips, igmp}
    Docs = {mgmt, usg, usg_geo, ips, ips_suppression, igmp}
    Attrs = {password, ping, block, geo, alerts, networks}
    SectionOf <- MCSectionOf
    DocOf <- MCDocOf
    Order <- MCOrder
    Extra = {usg_geo, ips_suppression}
    OptionalOnly = {igmp}
    Kept = {networks}
    Conditioned = {password, ping, block, geo, alerts}
    Restored = {password}
    NullZero = {block}
    Carried = {usg_geo}
    ZeroIfAbsent = {ips_suppression}
    Gated = {usg_geo, ips_suppression}
    InitiallyPresent = {mgmt, usg, ips, igmp}
    Configs <- MCConfigs
    Values = {z, v}
    Zero = z
    Null = Null
    NoState = NoState
    MaxEdits = 1
INVARIANTS
    TypeOK
    AppliedLands
    StateTellsTruth
    ManagedOnly
PROPERTY
    UnplannedUntouched
