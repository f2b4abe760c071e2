\* Expected to fail: another key's unpaid row counts as a payment.
SPECIFICATION PaySpec
CONSTANTS
    None = None
    Workers = {w1, w2}
    Keys = {k1, k2}
    Requests = {r1}
    Tokens = {c1, c2, c3, c4}
    Hashes = {h1}
    HashOf <- OneInvoice
    Replies = {"submitted", "paid", "rejected", "failed"}
    Lease = 1
    Lag = 0
    MaxAge = 1
SYMMETRY Symmetry
INVARIANTS
    AlreadyPaidIsPaid
