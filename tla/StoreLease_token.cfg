\* Tickets and leases against the end of the token and the grant they rest on.
SPECIFICATION Spec
CONSTANTS
    Users = {u1}
    Admins = {}
    Devices = {d1}
    Stores = {s1}
    Nodes = {n1}
    LeaseIds = {l1}
    ReqIds = {r1, r2}
    None = None
    HeartbeatTimeout = 0
    LeaseTTL = 2
    TicketTTL = 2
    RequestMax = 1
    MaxClock = 2
    MaxVersion = 2
    Ops = {"connect", "heartbeat", "ticket", "password", "delete_user", "user", "grant"}
INVARIANTS TicketWithinLease SupersededTokenLapses SupersededTicketLapses
SYMMETRY Symmetry
\* The clock is at its bound and the only account deleted: nothing is left to do.
CHECK_DEADLOCK FALSE
