\* Expected to fail: the row of an unknown outcome expires.
SPECIFICATION SendSpec
CONSTANTS
    None = None
    Workers = {w1, w2}
    Keys = {k1}
    Requests = {r1}
    Tokens = {c1, c2, c3}
    TxIds = {t1, t2}
    Coins = {u1, u2}
    Lease = 1
    Ttl = 2
    Lag = 0
    MaxPsbt = 0
SYMMETRY Symmetry
PROPERTIES
    ReconciledBeforeRetry
