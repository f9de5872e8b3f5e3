\* Three starts of one user, two requests at once, every fault.
SPECIFICATION Spec
CONSTANTS
    Sids = {s1, s2, s3}
    Tabs = {t1, t2}
    ReqIds = {q1, q2}
    None = None
    Ops = {"start", "get", "stop", "tabs", "fail", "die", "restart"}
INVARIANTS TypeOK ProfileExclusive StoppedIsClean
PROPERTIES LastTabStays
SYMMETRY Symmetry
