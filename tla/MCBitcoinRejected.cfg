\* Expected to fail: a transaction the node has is recorded as rejected.
SPECIFICATION SendSpec
CONSTANTS
    None = None
    Workers = {w1, w2}
    Keys = {k1}
    Requests = {r1}
    Tokens = {c1, c2, c3}
    TxIds = {t1}
    Coins = {u1}
    Lease = 1
    Ttl = 2
    Lag = 0
    MaxPsbt = 0
SYMMETRY Symmetry
INVARIANTS
    RejectedNotAccepted
