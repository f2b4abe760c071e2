\* Two workers on one key, and two transactions: enough for one to displace the
\* other before, while and after it funds, saves and sends.  The wallet has two
\* coins, so that the two transactions do not exclude each other at the node,
\* and the node may forget its locks.  One token per worker; the
\* run send_locks has a third, for a claim while a displaced worker still runs.
SPECIFICATION RestartSpec
CONSTANTS
    None = None
    Workers = {w1, w2}
    Keys = {k1}
    Requests = {r1}
    Tokens = {c1, c2}
    TxIds = {t1, t2}
    Coins = {u1, u2}
    Lease = 1
    Ttl = 2
    Lag = 0
    MaxPsbt = 0
SYMMETRY Symmetry
INVARIANTS
    SendTypeOK
    PersistedBeforeSent
    AtMostOnePayment
    SettledMatchesNode
    OneAnswer
    OkMeansAccepted
