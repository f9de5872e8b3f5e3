\* Two agents, a double click, every fault.
SPECIFICATION FairSpec
CONSTANTS
    Agents = {a1, a2}
    Launches = {k1, k2}
    None = None
    MaxGen = 2
    MaxLeases = 1
    MaxSignIns = 2
    Faults = {"end", "revoke", "lose", "crash", "browser", "prepare"}
INVARIANTS TypeOK OneBrowser
PROPERTIES StopsOnlyIfTokenDead ReplayOnlyAfterLoss CutOffCloses
CHECK_DEADLOCK FALSE
