\* Requests of a member and of administrators on one store, two side by side.
SPECIFICATION Spec
CONSTANTS
    Users = {u1}
    Admins = {}
    Devices = {d1}
    Stores = {s1}
    Nodes = {n1, n2}
    LeaseIds = {l1, l2}
    ReqIds = {r1, r2}
    None = None
    HeartbeatTimeout = 1
    LeaseTTL = 2
    TicketTTL = 1
    RequestMax = 1
    MaxClock = 2
    MaxVersion = 1
    Ops = {"connect", "heartbeat", "disconnect", "force_store", "force_lease", "update", "delete_store"}
INVARIANTS TypeOK OneLeasePerDevice
PROPERTIES EndedStaysEnded RebindOnlyIdle
SYMMETRY Symmetry
