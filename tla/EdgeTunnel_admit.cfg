\* Two handlers, two tickets, one slot; the process may restart.
SPECIFICATION Spec
CONSTANTS
    Conns = {c1, c2}
    Tickets = {t1, t2}
    None = None
    MaxConnections = 1
    MaxBytes = 0
    MaxFrame = 1
    MaxTTL = 2
    FutureSkew = 1
    MaxLead = 2
    MaxClock = 3
    Faults = {"reset", "restart"}
INVARIANTS TypeOK SlotsAccounted OneUseWhileValid
SYMMETRY Symmetry
