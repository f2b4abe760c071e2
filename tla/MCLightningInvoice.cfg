\* A good and a bad request; two keys and two workers, four invoices.  Tokens:
\* one per worker and per row.
SPECIFICATION InvoiceSpec
CONSTANTS
    None = None
    Invalid = Invalid
    Workers = {w1, w2}
    Keys = {k1, k2}
    Requests = {good, bad}
    ValidRequests = {good}
    Tokens = {c1, c2, c3, c4}
    Hashes = {}
    Invoices = {i1, i2, i3, i4}
    Replies = {i1, i2, i3, i4, Invalid}
    Lease = 1
    Lag = 1
    MaxAge = 1
SYMMETRY Symmetry
INVARIANTS
    InvoiceTypeOK
    OneAnswer
    AnswersLogged
PROPERTIES
    LightningStoreSpec
