\* Two codes of one node, or two registrations of one machine.
SPECIFICATION Spec
CONSTANTS
    Nodes = {n1}
    Regs = {r1, r2}
    Codes = {c1, c2}
    Ips = {a}
    ReqIds = {q1, q2}
    None = None
    Ops = {"create", "claim", "report", "installing", "ready", "revoke", "regenerate", "list_enrollments", "delete", "create_node", "update", "enable", "lapse", "register", "prove", "accept", "reject", "claim_approved", "list_registrations", "lapse_registration"}
INVARIANTS RedeemedOnce DecidedOnce RevokedMeansOff
PROPERTIES SupersededCodeDead
CONSTRAINT Bound
SYMMETRY Symmetry
\* Every code, node and registration has been used up, and no request is open.
CHECK_DEADLOCK FALSE
