\* No symmetry: the properties are liveness ones.  A row expires after its lease
\* lapses, so that a retry can take it over.  Two tokens: the one that the row names
\* and the one of a worker that lost its claim, which ends before the next takeover.
SPECIFICATION FairSpec
CONSTANTS
    None = None
    Workers = {w1, w2}
    Keys = {k1}
    Requests = {r1}
    Tokens = {c1, c2}
    TxIds = {t1}
    Coins = {u1}
    Lease = 1
    Ttl = 2
    Lag = 0
    MaxPsbt = 0
PROPERTIES
    RequestsEnd
    OpenKeysSettle
