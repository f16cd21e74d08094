SPECIFICATION Spec
CONSTANTS
    poe = poe
    auto = auto
    op = op
    zero = zero
    v = v
    Ports <- MCPorts
    Members <- MCMembers
    TextMembers = {poe}
    ComputedMembers = {auto}
    OpMode = op
    PoeMode = poe
    Values = {zero, v}
    Zero = zero
    Null = Null
    Unknown = Unknown
    NoEntry = NoEntry
    NoState = NoState
    Configs <- MCConfigs
    MaxApplies = 2
    MaxEdits = 1
INVARIANT
    AppliedBlocksTracked
