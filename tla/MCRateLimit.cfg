\* Two workers, in one process or in two.  A limit and a window of two, so that a
\* window can hold requests of two seconds, of which some have left it.
SPECIFICATION LimitSpec
CONSTANTS
    Workers = {w1, w2}
    Processes = {p1, p2}
    Kinds = {"locked", "unlocked", "redis", "redis_open"}
    Limit = 2
    Window = 2
    Patience = 1
SYMMETRY Symmetry
INVARIANTS
    LimitTypeOK
    QuotaKept
    KeyExpires
PROPERTIES
    RefusedOnlyOverQuota
