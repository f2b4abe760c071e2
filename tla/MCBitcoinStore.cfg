\* One row for which PSBT requests and requests of other endpoints compete; two
\* tokens, so that a displaced holder and the owner coexist; two transactions and
\* two PSBTs, so that the row's record is often not the newest; a TTL one unit
\* above the lease, so that a lease lapses before, with or after its row; a clock
\* that lags by one.
SPECIFICATION PsbtSpec
CONSTANTS
    None = None
    Keys = {k1}
    Requests = {psbt, other}
    PsbtRequests = {psbt}
    Tokens = {c1, c2}
    TxIds = {t1, t2}
    Lease = 1
    Ttl = 2
    Lag = 1
    MaxPsbt = 2
SYMMETRY Symmetry
INVARIANTS
    StoreTypeOK
    OneOwner
    TablesAgree
    OnePsbtTold
PROPERTIES
    LiveClaimKept
    KeyKept
    RecordsKept
CHECK_DEADLOCK FALSE
