SPECIFICATION Spec
CONSTANTS
    n1 = n1
    n2 = n2
    a1 = a1
    a2 = a2
    Apply = {a1, a2}
    Requests <- MCRequests
    OldUserGroups <- MCOldUserGroups
    OldMemberGroups <- MCOldMemberGroups
    FirstId = 3
    Names = {n1, n2}
    Limits <- MCLimits
    Rates = {0, 1, 2}
    Null = Null
    Unknown = Unknown
    NoApply = NoApply
    MaxEdits = 0
CHECK_DEADLOCK FALSE
PROPERTY
    RerateFromTheController
