\* Two keys and two requests, so that rows can be confused; three tokens, so that
\* a displaced holder and the owners of both rows coexist; a clock that lags by one.
SPECIFICATION LightningStoreSpec
CONSTANTS
    None = None
    Keys = {k1, k2}
    Requests = {r1, r2}
    Tokens = {c1, c2, c3}
    Hashes = {h1, h2}
    Replies = {a1, a2}
    Lease = 1
    Lag = 1
    MaxAge = 1
SYMMETRY Symmetry
INVARIANTS
    StoreTypeOK
    OneOwner
PROPERTIES
    LiveClaimKept
    KeyKept
CHECK_DEADLOCK FALSE
