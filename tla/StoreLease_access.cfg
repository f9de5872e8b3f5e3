\* Grants and nodes changed under a member and an administrator.
SPECIFICATION Spec
CONSTANTS
    Users = {u1, a1}
    Admins = {a1}
    Devices = {d1}
    Stores = {s1}
    Nodes = {n1}
    LeaseIds = {l1, l2}
    ReqIds = {r1}
    None = None
    HeartbeatTimeout = 1
    LeaseTTL = 2
    TicketTTL = 1
    RequestMax = 1
    MaxClock = 2
    MaxVersion = 1
    Ops = {"connect", "ticket", "list", "grant", "node"}
INVARIANTS RevokedGrantLapses
SYMMETRY Symmetry
