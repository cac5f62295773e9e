CONSTANTS
    Absent = Absent
    Torn = Torn
    None = None
    Ids = {"t1", "t2"}
    PrefixOf <- MCPrefixOf
    Agents = {"bot", "sso"}
    Users = {"", "ann"}
    IPs = {"a", "b"}
    Clis = {c1, c2}
    Reqs = {r1}
    Inputs <- MCInputs
    Commands <- MCCommands
    Peppers = {k1, k2}
    Config <- MCConfig
    Bounds <- MCBounds
    Keys <- MCKeys
    Rate = 1
    Burst = 2
    Grace = 1
    MaxKeys = 2
    MaxTime = 4
SYMMETRY Interchangeable
SPECIFICATION Spec
CHECK_DEADLOCK FALSE
INVARIANTS
    IdentityFromToken
    TokensHold
PROPERTIES
    LimiterRefinesIdeal
