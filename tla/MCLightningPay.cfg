\* Two keys for one invoice, so that each may be in the other's way; two workers,
\* which meet on one key or on two.  Tokens: one per worker and per row.
SPECIFICATION PaySpec
CONSTANTS
    None = None
    Workers = {w1, w2}
    Keys = {k1, k2}
    Requests = {r1}
    Tokens = {c1, c2, c3, c4}
    Hashes = {h1}
    HashOf <- OneInvoice
    Replies = {"submitted", "paid", "rejected", "failed"}
    Lease = 1
    Lag = 0
    MaxAge = 1
SYMMETRY Symmetry
INVARIANTS
    PayTypeOK
    SubmittedOnce
    SubmittedFirst
    SettledMatchesLnd
    RejectedNotPaid
    OneAnswer
    AnswersLogged
PROPERTIES
    LightningStoreSpec
    KeepsLedger
