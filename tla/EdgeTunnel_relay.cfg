\* Two tunnels relaying one after the other, against every fault.
SPECIFICATION FairSpec
CONSTANTS
    Conns = {c1}
    Tickets = {t1, t2}
    None = None
    MaxConnections = 1
    MaxBytes = 2
    MaxFrame = 2
    MaxTTL = 2
    FutureSkew = 1
    MaxLead = 0
    MaxClock = 2
    Faults = {"reset", "timeout", "stall", "clog"}
INVARIANTS ByteLimit CloseCodeTells
PROPERTIES TunnelEndsUnlessUnread
