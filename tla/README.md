# Verification of Kerosene Rails

TLA+ specifications, TLC runs and TLAPS proofs for the two payment adapters of
this repository:

- `bitcoin_core_backend/`: an authenticated HTTP facade over Bitcoin Core;
- `lightning_flask/`: an authenticated HTTP facade over LND.

Both move money on behalf of clients that retry. What makes them correct is
therefore not the RPC that they forward but what they do around it: an
idempotency key must stand for one payment and one answer, although several
worker threads and processes handle it at once, leases lapse under slow workers,
processes die between two statements, and the node may have executed a call
whose answer was lost. That is what is modelled here, down to each early return;
HTTP, JSON and message texts are not.

Paths below are relative to `src/`; `B/` stands for `bitcoin_core_backend/src/`
and `L/` for `lightning_flask/src/`.

## 1. Inventory

### Bitcoin adapter

| part | state | operations | hard behaviour | correct when |
|---|---|---|---|---|
| cohesion store, `B/infra/store.py` | SQLite: `idempotency_records` (one row per key), `transaction_records` (a log) | `claim_idempotent`, `store_response`, `save_prepared_broadcast`, `load_prepared_broadcast`, `mark_broadcast`, `mark_unknown`, `mark_failed`, `mark_prepared_failed`, `heartbeat_claim`, `record_transaction`, `prune_expired` | several processes; leases and expiry; clock read before the locks are waited for; two tables under one method | one owner per open row, live claims are exclusive, tables agree, a key keeps its transaction and its answer until it expires |
| create, sign and send, `B/services/bitcoin_service.py` | wallet locks and mempool (in the node) | `create_sign_and_send`, `_fund_psbt`, `_unlock_psbt_inputs`, `_transaction_known`, `_require_claim_heartbeat` | crash between funding, saving, sending and answering; `sendrawtransaction` that times out and lands later; displaced workers that go on | persisted before sent; one payment per key; no coin shared by transactions that stand; what is called broadcast is |
| idempotency wrapper, `_json_post` in `B/api/app.py` | none of its own | claim, replay, run the handler, store the answer | the answer cannot be stored after the effect happened | one definite answer per key |
| PSBT creation and wallet reads, `B/services/bitcoin_service.py` | a record per PSBT | `create_psbt`, `open_wallet`, reads | a retried or displaced request makes a second PSBT under its key | clients of a key see one PSBT, which is recorded |
| JSON-RPC client, `B/infra/rpc.py` | none | `call` | an error may hide an executed call | callers never read an error as a "no" they act on |
| rate limiters, `B/api/app.py` | in memory behind a lock, or Redis | `allow` | `INCR` and `EXPIRE` are two calls; one in-memory limiter per process | at most the quota per window; nobody is blocked for ever |
| validation and configuration, `B/core` | none | `normalize_outputs`, amount conversions, environment | boundaries of amounts | conversions round trip, totals are exact |
| authentication, admin and status routes, `B/api/app.py` | none | bearer comparison, routing | - | a scope is never exceeded |

### Lightning adapter

| part | state | operations | hard behaviour | correct when |
|---|---|---|---|---|
| cohesion store, `L/infra/cohesion.py` | SQLite: `idempotency`, `lightning_events` | `claim_idempotent`, `mark_submitted`, `mark_unknown`, `mark_failed`, `save_idempotent`, `heartbeat_claim`, `query_payment_by_hash`, `append_event` | several processes; leases; the query by hash and the claim are two transactions; rows never expire | one owner per open row, live claims are exclusive, a row only moves forward |
| payments, `POST /v1/payments` in `L/api/app.py` | payments in LND | duplicate check, claim, submit, POST, reconcile, settle | POST executed with its answer lost; retries that reconcile by hash; two keys for one invoice | one POST per key, recorded first; answers agree with LND |
| invoices, `POST /v1/invoices` in `L/api/app.py` | invoices in LND | claim, validate, create, settle | invoice created and answer lost; an error handler that reads, then writes | one invoice per key reaches clients |
| LND client, `L/infra/lnd.py` | a status cache | `pay_invoice`, `lookup_payment`, `create_invoice`, reads | pagination stops after 20 pages | a miss is not read as a failure |
| security helpers and limiters, `L/core/security.py` | in-memory counters without a lock, or Redis | bearer scopes, limiter, BOLT11 amount | threads share the counters | as above |
| configuration and start-up checks, `L/core/config.py` | none | environment, network comparison | - | - |

The parts interact by calls inside one request, and requests interact only
through the SQLite rows and the node: there is no message between workers. A
worker that lost its claim learns it from the first store method whose `WHERE`
clause matches no row; until then it goes on.

`PROJECT.json` lists these parts under "components", each with what is modelled
of it, and the hazards of the code, each at its line, with the properties that
would catch it going wrong. The main ones: a call that is executed although it
failed (`bitcoin_service.py:246`, `lightning app.py:375`), a crash between two
steps (`bitcoin_service.py:204`, `lightning app.py:370`), a lease that lapses
under a slow worker (`store.py:150`, `cohesion.py:172`), a claim or a hash that
was checked and then used later (`bitcoin_service.py:221`, `lightning
app.py:299`), a row that expires with its outcome open (`store.py:99`), and two
tables under one method (`store.py:421`).

## 2. Modules

    PaymentLedger      what both adapters promise about money, abstractly
    BitcoinStore       the two tables; StoreSpec = the most general client
      BitcoinSend      POST .../transactions/send over BitcoinStore + Bitcoin Core
      BitcoinPsbt      POST .../transactions/psbt, beside any other client
      BitcoinStoreProofs, BitcoinSendProofs, BitcoinPsbtProofs
      BitcoinLedgerProofs   BitcoinSend implements PaymentLedger
    LightningStore     the table; LightningStoreSpec = the most general client
      LightningPay     POST /v1/payments over LightningStore + LND
      LightningInvoice POST /v1/invoices over LightningStore + LND
      LightningStoreProofs, LightningInvoiceProofs
      LightningPayProofs    also: LightningPay implements PaymentLedger
    RateLimit          the limiters in front of every route of either adapter
      RateLimitProofs
    MC*                instances for TLC

The store modules serve twice. They are composed into the handlers (EXTENDS: a
handler's action is one store method with the worker's own step), and their
specifications are the *abstract* ones: any holder of a claim token may call any
method with any arguments at any time. Each handler is shown to implement its
store's specification, so what is proved of the store holds under it. The
refinement mapping is the identity on the store's variables.

`PaymentLedger` is the second abstract specification, one for both adapters: a
ledger of keys and payments without rows, leases, tokens or workers. A key
chooses a payment before anything leaves, what leaves may arrive late, twice or
never, a key is settled "ok" only for a payment the network took, and a settled
key stays settled. The mappings (`Ledger`, at the end of each handler's module):

| ledger | `BitcoinSend` | `LightningPay` |
|---|---|---|
| `chosen[k]` | the txid of the record that the row names | the row's payment hash once it is SUBMITTED |
| `issued` | every recorded txid | every chosen hash |
| `flying`, `taken` | `wire`, `accepted` | hashes of POSTs under way; hashes LND took |
| `verdict[k]` | the stored reply | the stored reply |
| `Exclusive` | TRUE: keys never share a transaction | FALSE: two keys may pay one invoice |
| `Forgetful` | TRUE: a row expires | FALSE: rows are kept |

### How state and actions correspond to the code

**Rows.** `idem[k]` is the row of key `k` (`NoRow` if there is none): `request`
is the fingerprint, `token`, `lease`, `payhash`, `state` and `reply` the columns
of those names, `prepared` the id in `records`. `records` is
`transaction_records`, the position being the AUTOINCREMENT id.

**Methods.** A writing method runs in one SQLite write transaction (`BEGIN
IMMEDIATE` under a process lock) or is one `UPDATE`, hence is one step. `CanX` (or
`Owns`) is its `WHERE` clause, `X` its effect. A method that matches no row raises
and changes nothing: a handler takes `LoseClaim` then.

**Workers.** `pc[w]` and `job[w]` are the control point and the locals of worker
`w`; workers stand for threads of all processes. There is a label before every
store method and every call to the node, so that between any two of them other
workers run, time passes, or the process dies (`Crash`). The label `sent` /
`posted` is the wait for an answer: `Land` lets the node process a submitted
call at any later time, also after its sender has given up or died.

**Time.** A deadline column is kept as what is left of it, and `Tick` takes one
unit from every deadline. Methods read `time.time()` *before* they wait for the
process lock and for SQLite (`store.py:84`, `cohesion.py:115`), so a reading may
be up to `Lag` units old when its transaction runs: every method takes a `d` in
`0..Lag`, a deadline with `n` units left looks past iff `n + d <= 0`, and what it
grants is `d` units short. This also covers a small backward step of the system
clock. Below `-Lag` all readings agree, so counting stops there and the state
space stays finite. `Lag <= Lease` (and `<= Ttl`) says that a lease is never
granted in the past; the lease is 300 s, the busy timeout 10 s.

**The nodes** are external and modelled from what the code relies on. Bitcoin
Core: a funded transaction spends some coin that is neither locked nor spent by
a taken transaction; a transaction whose coin is spent is never taken;
everything else (a `testmempoolaccept` that says no, an RPC that fails, a lost
answer, another txid) is a free choice, and `_transaction_known` may say False of
a known transaction, because it reads every `RpcError` that way. A coin stands
for a transaction's set of inputs. LND: it pays a hash at most once, refuses a
POST while a payment of the hash is in flight or has succeeded, and takes the
next one after a failed one; a listing may miss a payment.

**PSBT requests.** `post[tok]` is the request that holds claim token `tok`; it is at
`fund` before the wallet's call, at `record` before `record_transaction`, at
`respond` before `store_response`. There is no heartbeat and nothing a retry could
find, so a request whose lease lapsed runs on beside its successor and each makes
and records a PSBT (`psbt` in its record); which of them clients see is decided by the
`WHERE` clause of `store_response`. `told` holds the 200 answers given since the key's row was last
deleted, because an expired key is by design a new one. `Unkeyed` is the request
without an Idempotency-Key. `Elsewhere` is everything other endpoints could do to
the store (they record no PSBTs), so the instance checks the store under its most
general client and the endpoint at once.

**Limiters.** `RateLimit` has all of them: `kind` is drawn at the start. The locked
`FixedWindowLimiter` is one step per request. Lightning's `RateLimiter` has no lock,
so every statement that touches the shared deque is a step (`peek`, `head`, `pop`,
`count`, `append`), with the clock reading carried along (`seen`); an emptied deque
raises `IndexError`. The Redis limiter is `connect`, `ping`, `incr`, `expire`, any of
which may fail executed or not; `redis` refuses then (production), `redis_open` lets
pass. `home[w]` is the process of a thread; a `Restart` loses what the process has in
memory. `served` counts only what was admitted on a count, not what a limiter that
fails open lets through.

**Code that is dead in this system** and therefore only an action of the most
general client: `mark_failed` and `prune_expired` of the Bitcoin store and
`heartbeat_claim` of the Lightning store are called by no handler; the branch
of `save_prepared_broadcast` that returns an earlier transaction cannot be
reached by `create_sign_and_send` (`FundingPrivate`, proved); the `mark_failed`
of Lightning's error handler finds nothing to do in `pay_invoice`, which is why
`LightningPay!LoseClaim` leaves the row alone.

## 3. Runs

| run | configuration | asks |
|---|---|---|
| `store` | `MCBitcoinStore` | types, `OneOwner`, `TablesAgree`, `LiveClaimKept`, `KeyKept`, `RecordsKept` under PSBT requests and any other client; `OnePsbtTold` |
| `send_restart` | `MCBitcoinSendRestart` | `PersistedBeforeSent`, `AtMostOnePayment`, `SettledMatchesNode`, `OneAnswer`, `OkMeansAccepted` with a node that may restart |
| `send_locks` | `MCBitcoinSendLocks` | `NoSharedCoin`, `LockInv` while the node keeps its locks; the handler implements `StoreSpec` and `PaymentLedger` (`KeepsLedger`) |
| `send_ends` | `MCBitcoinSendEnds` | liveness: every request ends (`RequestsEnd`); open keys are settled by retries (`OpenKeysSettle`) |
| `lightning_store` | `MCLightningStore` | types, `OneOwner`, `LiveClaimKept`, `KeyKept` under any client |
| `lightning_pay` | `MCLightningPay` | `SubmittedOnce`, `SubmittedFirst`, `SettledMatchesLnd`, `RejectedNotPaid`, `OneAnswer`, `AnswersLogged`; implements `LightningStoreSpec` and `PaymentLedger` |
| `lightning_invoice` | `MCLightningInvoice` | `OneAnswer`, `AnswersLogged`; implements `LightningStoreSpec` |
| `rate_limit` | `MCRateLimit` | `QuotaKept`, `KeyExpires`, `RefusedOnlyOverQuota` of all limiters |
| `retry_forgets` | `MCBitcoinRetry` | violated: `ReconciledBeforeRetry` |
| `rejected_accepted` | `MCBitcoinRejected` | violated: `RejectedNotAccepted` |
| `lightning_already_paid` | `MCLightningAlreadyPaid` | violated: `AlreadyPaidIsPaid` |
| `lightning_failed` | `MCLightningFailed` | violated: `FailedNotPaid` |

### What the passing runs show

- A claim whose lease (and row) is unexpired is never displaced, whatever late
  clock readings, token holders and expiries do; a settled row has no token that
  a late worker could still use.
- Bitcoin: nothing reaches the network that is not in the store; at most one
  transaction of a key leaves for the network unless the key's row expired in
  between; what is marked broadcast, or answered 2xx, the node has taken.
- Bitcoin, while the node keeps its locks: no two transactions spend one input that
  the store holds as prepared or broadcast, or that a worker reconciles or sends
  while the key is its own, although handlers unlock inputs on two error paths. This
  does not hold of everything that may leave: a displaced worker may send what the
  new owner has recorded as rejected (finding 2), and its input, given back by then,
  may be in a later transaction. The node takes one of the two.
- Bitcoin, liveness: a handler that lost its claim anywhere still ends; and once it
  is calm (see Fairness), a key in whatever open state is settled.
- PSBTs: a key may make and record several, but until its row is deleted all its
  clients get the same one, and a record of that key, request and PSBT was written
  before the answer left.
- Both adapters are the same ledger to their clients, up to the two switches above.
- Limiters: the locked one admits at most the limit in any 60 seconds, both ends
  included, per process; the Redis one at most twice the limit in 60 seconds over all
  processes (the end of one window and the start of the next), however INCR and
  EXPIRE interleave and fail. A Redis key without an expiry is always one whose
  EXPIRE is still to come or was lost. Neither limiter in memory refuses a
  principal that has room.
- Lightning: at most one POST per key, recorded before it leaves; 202 is only
  answered for a payment LND took (the API specification allows more: finding 5);
  "rejected" is only answered when the POST of
  that key is spent; an invoice that a client sees is logged, and no client of
  the key sees another.

`AtMostOnePayment` and the Bitcoin `OneAnswer` are stated "unless the row
expired" (`recycled`). That exception is the code's: the first finding below is
what happens without it.

### Findings

1. `retry_forgets`. `claim_idempotent` (`store.py:99`) deletes a row once
   `expires_at` passed, also one in state UNKNOWN, and a retry then prepares a
   second transaction while the first may be in the mempool. The client had been
   told "the exact prepared transaction will be reconciled before retry"
   (`bitcoin_service.py:261`). Only claims and 2xx answers move `expires_at`; the
   default TTL is a day, the accepted minimum 60 s.
2. `rejected_accepted`. A retry records "Bitcoin Core rejected the prepared
   transaction" (`bitcoin_service.py:237`) for a transaction that the mempool has
   or is about to have: (a) the first `sendrawtransaction` landed,
   `testmempoolaccept` therefore says no, and `_transaction_known` reads an RPC
   timeout as "not known"; (b) a displaced worker checks its claim once, before
   line 222, and sends after the new owner settled the key. In (b) the new owner
   also unlocks the transaction's coins (`bitcoin_service.py:239`), which a later one
   may be funded with before the displaced worker sends.
3. `lightning_already_paid`. The duplicate check (`app.py:303`) answers "Invoice
   has already been paid" (`app.py:306`) whenever the newest row of the payment
   hash is another key's and is not FAILED_FINAL: also for a key that was only
   claimed, or submitted and never paid.
4. `lightning_failed`. Reconciliation (`app.py:346`) asks LND for the hash, not
   for the attempt. After one key's attempt failed, a second key submits; a
   retry of the second key finds the *first* attempt's failure and settles the
   second key as failed (`app.py:352`), while its own POST is still travelling
   and then pays.
5. `lightning_pay`, `SettledMatchesLnd`. `lightning_flask/API_SPEC.md:325` says that a
   payment error from LND may still be answered 202 ("a resposta ainda pode ser
   `202`"), with `payment_error` and the status `failed`. The code stores such a payment
   as FAILED_FINAL and answers 409 `payment_rejected` (`app.py:404`). The document
   says "may", which no behaviour contradicts; what shows the disagreement is that
   the property *holds*, so that the documented answer is never given.

### Observed while modelling

Not findings, because no text of the repository says otherwise (or not of a state
that a run could check), but a reader of the code should know:

- The unlocked `RateLimiter` of Lightning does admit more than its limit: two threads
  that both count before either appends, or one that pops an entry it did not look
  at. In the instance of `rate_limit` five requests get through for a limit of two,
  so `QuotaKept` makes no claim for it.
- When the EXPIRE after the first INCR is lost, the principal is refused for ever,
  although `lightning_flask/DEPLOYMENT.md` explains 429 by an exceeded rate.
- `L/core/security.py:271` logs "falling back to in-memory" when Redis fails, but
  nothing in memory counts; and `self._redis = False` is never retried, so that a
  process whose first ping failed stays that way until it is restarted.
- `lookup_payment` asks LND for the newest page first and for the next page from
  `last_index_offset` (`L/infra/lnd.py:148`). If LND numbers a page in ascending
  order also when it is asked for in reverse, as its documentation of
  `first_index_offset` suggests, pages overlap almost entirely and 20 of them
  reach far fewer than 2000 payments. `LightningPay!Lookup` allows any miss.
- `create_psbt` passes a client's `lockUnspents` on (`bitcoin_service.py:431`), and
  nothing unlocks those coins.
- A TTL of 60 s, the accepted minimum, is shorter than the lease of 300 s: a row
  then expires before anyone may take it over, and `OpenKeysSettle` does not hold.
- `max_daily_payment_sats` and `max_in_flight_sats` (`L/core/config.py:32`) are read
  and enforced nowhere.
- The amount pattern of `decode_bolt11_amount_msat` (`L/core/security.py:147`)
  requires digits, so its documented None for an invoice without amount cannot
  come about.

### Bounds, and why they are enough

- Workers: two. They can displace each other at every pair of labels, and a
  worker that crashes or ends starts again, so any number of requests follow
  each other.
- Keys: one for `send` (handlers of distinct keys meet only in the wallet, which
  the second transaction and the single coin of `send_locks` bring in) and for
  `store` (rows of distinct keys meet only in the log of records; the proofs are
  for all keys), two for Lightning, where keys meet over an invoice. A third key
  of that invoice (let through by a failed attempt that hides one in flight,
  `cohesion.py:324`) makes the run too large; the proofs cover it.
- Tokens: one per worker and one per row in `send_locks` and Lightning, so that no
  claim is refused for want of one. `send_restart` and `send_ends` have one per
  worker: a takeover beside a displaced worker waits there until that worker gave
  its token up, and `send_locks` has what they leave out. The store runs may hold
  tokens for ever, so there (only) deadlock checking is off and the number of tokens
  is what bounds concurrent holders.
- `TxIds` bounds the number of fundings of a run: two, so that a forgotten or a
  raced first one meets a second one. `Coins`: two where the two transactions must
  not exclude each other at the node, one where a coin unlocked too early must
  be taken at once.
- `Lease = 1`, `Ttl = 2`: what matters is the order in which a lease lapses, a row
  expires and a worker's next step comes, and with these all orders happen. `Lag = 1` in the store runs and `lightning_invoice`; 0 in the
  other handler runs, which only add workers to store steps already checked with
  a lag and proved for every lag.
- `MaxPsbt = 2`, and two PSBTs that the wallet can make: what a key's clients are told
  can differ. `Limit = 2`, `Window = 2`: a window holds requests of two seconds, of which
  some have left it; `Patience = 1`: a thread of the unlocked limiter may be preempted
  for a second, so that an older reading is appended behind a newer one; two
  threads in one process or in two. `MaxAge = 1`: `query_payment_by_hash`
  tells newer rows from older ones, and rows of one second apart from none.
- `Invoices`: four, two retries of each of two keys.
- `Requests`: one in the handler runs of Bitcoin and of payments. `lightning_pay`
  was also run with two (no error).

Symmetry is used in the safety runs only, and no constant names a symmetric value.

### Fairness

Only `BitcoinSend` has fairness. `FairSpec` is weak fairness of `Handle(w)` for each
worker. A handler's next step is always an RPC with a timeout
(`B/core/config.py:164`), a SQLite statement with a busy timeout, or local code,
so a handler that stays called takes its step or its process dies. Nothing is
assumed of the node, of clients, or of time. `RequestsEnd` fails as soon as one
label has no way out once the claim is lost (its mutant).

`OpenKeysSettle` assumes more, in the formula itself, and only from some point on:
before it anything may have happened to the key, and the claim is about what that
left. From then on nobody crashes, the node is reached and says what is true, what
can be funded is, clients retry (`WF` of `Begin`), submitted calls arrive and seconds
pass, but only while no handler runs and so that a lapsed lease is retried before
its row expires. These are assumptions on clients, node and clock that the code
does not make true; without any one of them a key can stay open for ever, by
design (a row whose outcome is unknown is never guessed). The claim is that
nothing *in the code* keeps it open: no state that `claim_idempotent` hands out and
no handler accepts, no lease that retries themselves renew. Its mutant takes an
UNKNOWN row for one that nobody may take over.

## 4. Proofs

All for any number of keys, requests, tokens, workers, transactions, coins and
invoices, and any lease, TTL and lag, from `TimeAssumption` (positive lease and TTL,
`Lag` at most both), `NoneAssumption` (NULL is no value), `PsbtAssumption` and
`CoinsAssumption`; for Lightning from `LightningTimeAssumption`,
`LightningNoneAssumption`, `PayAssumption` (a request names one hash; the four replies) and
`InvoiceAssumption` (a reply is an invoice or the 400); for the limiters from `LimitAssumption`: positive limit and window,
any patience, finitely many threads and processes. (The last is what makes a sum over
processes a number; the system has both.)

Each component has an inductive invariant, in a section of its own at the end of its
module: the properties that the runs check follow from it, and are mostly not
inductive by themselves. TLC checked each as an invariant of its component's
instance before it was proved.

### Bitcoin

- `BitcoinStoreProofs`: `StoreInv` (types, `OneOwner`, `TablesAgree`) is inductive. The
  parts need each other: that updating a record disturbs no other row rests on
  the key that the record names (`TablesAgree`), and that an owner's row is open,
  so that its record's status may still move, on `OneOwner`. From it `LiveClaimKept`, `KeyKept` and
  `RecordsKept`.
- `BitcoinSendProofs`: `SendInv` is inductive for `RestartSpec`. The properties that
  the runs check are not inductive: that a worker about to send acts for the one
  transaction of its key needs to know which token belongs to which worker
  (`TokenIdentifiesJob`), that nobody else knows a transaction that is funded and
  not saved (`FundingPrivate`), which record a worker past saving acts for, also
  after it lost the claim (`ActsForRecord`), that a key's records are what its row
  names (`PreparedOnce`), and that what was told is what the row holds
  (`ToldFromRow`). The proof goes action by action; it is split into what concerns
  shape (jobs, tokens, records) and what concerns answers, with one frame lemma
  for each half for the actions that leave it alone. It yields
  `PersistedBeforeSent`, `AtMostOnePayment`, `SettledMatchesNode`, `OkMeansAccepted`,
  `OneAnswer`, and the refinement `RestartSpec => StoreSpec` (likewise `SendSpec`).
  `LockInv` (what a record holds as prepared or broadcast, and what a worker has funded
  or is about to unlock, has a coin of its own under lock) is inductive with `SendInv`
  for `SendSpec`. It yields `NoSharedCoin`, since a worker that owns its key past saving
  acts for a record that is not rejected (`StandingHolds`). It does not hold for
  `RestartSpec`: a restarted node has forgotten its locks.
- `BitcoinLedgerProofs`: `RestartSpec => KeepsLedger` (likewise `SendSpec`), by mapping each
  action to a step of the ledger or a stutter: saving is `Choose`, sending `Leave`,
  `Land` is `Arrive`, storing the answer `SettleOk`, `mark_prepared_failed` `Refuse`, and a
  claim of an expired row `Forget`. It needs `SendInv`, and that a row that is open
  has no reply (`Unanswered`).
- `BitcoinPsbtProofs`: `PsbtInv` is inductive for `PsbtSpec`; hence `OnePsbtTold`, and
  `PsbtSpec => StoreSpec`. Beside the store's own invariant it says that a row of this
  endpoint is owned by a request of it (`OwnEndpoint`, since a token that another
  endpoint held could settle the row with anything), that such a row is settled
  only with a PSBT that was made and recorded (`SettledWithPsbt`), and that what was
  told is what the row holds (`ToldFromRow`).

### Lightning

- `LightningStoreProofs`: `StoreInv` of the Lightning table is inductive; from it
  `LiveClaimKept` and `KeyKept`: once SUBMITTED, a key is never CLAIMED again.
- `LightningPayProofs`: `PayInv` is inductive for `PaySpec`. What the client and LND see
  depends on what displaced workers still believe, so it says what each worker relies
  on at its label, also after it lost the claim (`WorkerKnows`): from `post` on that the
  row left CLAIMED, which it does once and in one worker's hands (`OnePoster`; that a
  token names one worker and one row, `TokenIdentifiesJob`, is why); at `post` that
  nothing was posted under the key; and at `log` or `save` that LND did what the answer
  says (`Backed`). A rejection is the delicate one: it must stay true although POSTs
  land late and failed hashes are tried again, which takes that the key's one POST is
  neither under way nor the attempt that LND is making (`Spent`). Rows are related to
  LND by `KeyKnown`. Hence all six properties of the run, `PaySpec =>
  LightningStoreSpec`, and
- `PaySpec => KeepsLedger`, in the same module: `mark_submitted` is the ledger's
  `Choose`, the POST its `Leave`, `Land` its `Arrive`, storing a 202 `SettleOk`,
  `mark_failed` `Refuse`; all else is a stutter. With `BitcoinLedgerProofs`, both adapters
  are proved to be one ledger.
- `LightningInvoiceProofs`: `InvoiceInv` is inductive for `InvoiceSpec`: a row stands for one
  request for good (`StandsFor`), an invoice is in one worker's hands or in one row
  (`Apart`), a row is settled with an invoice that LND made and the log has, or because
  its request is bad (`KeyKnown`), and what was told is in the row (`ToldKnown`; a 400 may be
  told and not stored, when the worker was displaced, and then agrees with the row
  because the request is bad whoever looks at it). Hence `OneAnswer`, `AnswersLogged` and
  `InvoiceSpec => LightningStoreSpec`.

### Limiters

- `RateLimitProofs`: `LimitInv` is inductive for `LimitSpec`, for all four limiters at
  once; hence `LimitTypeOK`, `QuotaKept` and `RefusedOnlyOverQuota`. (`KeyExpires` has a
  smaller invariant of its own.) Its parts:
  - `DequeBounded`: a deque outgrows the limit only by threads that have counted it and
    not appended yet (`Appending`), each of which counted less than the limit.
  - `OneExpirer`: only who made the key has an EXPIRE to do, and until then the key has
    no expiry. Without `ttl > 0 => count > 0` the invariant is not inductive: a key that
    had an expiry and no value would be made again with the old expiry still running,
    which Redis excludes because the two go together.
  - `KeyCounts`: why twice the limit and not more. While a key has an expiry, all that was
    admitted since it was set is on its count (`Used`), and what is older than that is the
    previous key's, at most the limit; who has the EXPIRE still to do is counted
    and not admitted.
  - `LockedCounts`: under the lock the deque has an entry for every admission that is in
    the window, age by age.
  - `EntriesDated`: for a refusal to be right, every entry must stand for an admission
    that is still in the window, which is not evident of the unlocked deque: entries are
    appended with old readings, out of order, and popped by threads that looked at
    others. The invariant gives each entry a date of admission, no older than the entry
    and in the order of the entries; who is about to count has seen one in the window.

  Admissions are counted as the cardinality of a set (`Admissions`) and expired entries
  as one (`Past`), so that no fold needs induction.

### Only model-checked

`RequestsEnd` and `OpenKeysSettle` (liveness under fairness, and ENABLED, are out of the
prover's reach), and the four violations, which are counterexamples. Every other
property of a passing run is proved.

## 5. Not modelled

- HTTP, JSON, TLS, logging, message texts, the syntax checks on strings, the
  environment: pure I/O or stateless.
- Validation (`normalize_outputs`, amounts, BOLT11 syntax), request fingerprints,
  bearer scopes and the start-up comparison of networks: sequential, stateless
  functions of strings and decimals, which unit tests reach.
- What wallets the node has and their addresses (`open_wallet`, `new_address`): only
  how these endpoints use the store is modelled (`BitcoinPsbt!Elsewhere`).
- The status cache of the LND client: a reading at most `status_cache_seconds` old that
  no decision is made from.
- A restart of the Redis server, and clocks of different rates.
- The pages of `lookup_payment`: a lookup may miss any payment.
- `ALTER TABLE` migrations in both `_init_db`: start-up code on an old schema.
- Mempool eviction, replacement and confirmation: `accepted` means "ever taken".
- Recovery of coins that a lost funding call locked: the code has none (the leak
  itself is in the model: `FundLost`, `Crash`).
- A Lightning worker that dies between `mark_submitted` and the POST leaves a key
  that every retry finds unknown. The code prefers this to a second payment; it
  is in the model and listed as a hazard, and no property claims the contrary.

## 6. Plan

Done: the stores, the three Bitcoin and Lightning handlers that move money or name
an invoice, `create_psbt`, the limiters, the common ledger, liveness of the send
handler, and the proofs above.

Next, proofs:

1. What `PaymentLedger` promises, as invariants of the ledger alone, so that both
   adapters inherit them through the refinements.
2. That a settled key of either adapter stays settled in the ledger's sense, and that
   the PSBT and invoice endpoints are one ledger of answers, if an abstraction of the
   two pays for itself.

Next, modelling, where a run can be spared: the amounts and outputs of the Bitcoin
adapter against reference definitions; the pages of `lookup_payment` with payments
that arrive between two of them.
