\* A machine registers and becomes a node, one request at a time, the monitor beside it.
SPECIFICATION FairSpec
CONSTANTS
    Nodes = {n1}
    Regs = {r1}
    Codes = {}
    Ips = {a}
    Elsewhere = b
    ReqIds = {q1}
    None = None
    Ops = {"register", "prove", "accept", "claim_approved", "report", "ready", "failed", "update", "disable", "maintain", "resume", "expect"}
    SampleCount = 3
    MinSuccess = 3
INVARIANTS MonTypeOK FreshVerdictHolds
PROPERTIES MaintenanceHides

