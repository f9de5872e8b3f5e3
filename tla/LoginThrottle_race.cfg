\* Two attempts at once on one account, in steps of two and a half minutes.
SPECIFICATION Spec
CONSTANTS
    Accounts = {a1}
    Devices = {d1}
    Sources = {s1}
    ReqIds = {r1, r2}
    None = None
    Threshold <- MCThreshold
    Window = 4
    Penalties <- MCPenalties
    PurgeAfter = 7
    Delay = 1
    MaxClock = 9
INVARIANTS TypeOK RateBounded
PROPERTIES CooldownHolds
SYMMETRY Symmetry
