----------------------------- MODULE LightningPay -----------------------------
(***************************************************************************)
(* POST /v1/payments of the Lightning adapter: workers that run            *)
(* pay_invoice (lightning_flask/src/api/app.py) over LightningStore and a  *)
(* Lightning node reached over HTTP.                                       *)
(*                                                                         *)
(*   pc[w]    where worker w is; between two labels other workers run,     *)
(*            leases lapse, HTTP calls are lost                            *)
(*   job[w]   its locals: key, fingerprint, claim token, and the answer    *)
(*            that it is about to store                                    *)
(*   events   lightning_events, by kind and key                            *)
(*   posts    history: how often a payment was POSTed under each key       *)
(*   told     history: the definite answers that clients were given, each  *)
(*            of them stored in a settled row                              *)
(*                                                                         *)
(* LND is external; what the code relies on:                               *)
(*   wire     keys whose POST the node has not processed yet               *)
(*   lnd[h]   what it says of the payment of hash h                        *)
(*   payer[h] the key whose POST it last took for h                        *)
(*   taken    history: the keys whose POST it took                         *)
(*                                                                         *)
(* LND pays a hash at most once: it refuses a POST while a payment of the  *)
(* hash is in flight or after one succeeded; after a failed one it takes   *)
(* the next.  Everything else is a free choice: any call may be lost on    *)
(* either way, and a listing may miss a payment (lookup_payment reads at   *)
(* most 20 pages).                                                         *)
(***************************************************************************)
EXTENDS LightningStore

CONSTANTS
    Workers,   \* worker threads, over all processes
    HashOf     \* the payment hash that LND decodes from each request's invoice

\* The answers that are stored.  "submitted" (202): LND took the payment.  "paid"
\* (202): a retry found it succeeded.  "rejected" (409): LND refused it.
\* "failed" (409): a retry found it failed.
ASSUME PayAssumption ==
    /\ HashOf \in [Requests -> Hashes]
    /\ Replies = {"submitted", "paid", "rejected", "failed"}

VARIABLES pc, job, events, posts, told, wire, lnd, payer, taken

lndVars == <<wire, lnd, payer, taken>>
payVars == <<storeVars, lndVars, pc, job, events, posts, told>>

-----------------------------------------------------------------------------
(* Workers *)

NoJob == [key |-> None, request |-> None, token |-> None, result |-> None]

Job == [key     : Keys \cup {None},
        request : Requests \cup {None},
        token   : Tokens \cup {None},
        result  : Replies \cup {None}]

Labels == {"idle", "claim", "lookup", "submit", "post", "posted",
           "unknown", "fail", "log", "save"}

Goto(w, label) == pc' = [pc EXCEPT ![w] = label]

\* Worker w, at label from, moves on to label to.
Step(w, from, to) == pc[w] = from /\ Goto(w, to) /\ UNCHANGED job

\* Worker w knows what to answer.
Conclude(w, result, to) == Goto(w, to) /\ job' = [job EXCEPT ![w].result = result]

\* payment_hash, in worker w's handler.
Hash(w) == HashOf[job[w].request]

\* The handler returns or raises; its locals are gone.
End(w) ==
    /\ Goto(w, "idle")
    /\ job' = [job EXCEPT ![w] = NoJob]
    /\ held' = held \ {job[w].token}

Answer(k, r, reply) == [key |-> k, request |-> r, reply |-> reply]

Tell(w, reply) == told' = told \cup {Answer(job[w].key, job[w].request, reply)}

PayInit ==
    /\ StoreInit
    /\ pc = [w \in Workers |-> "idle"]
    /\ job = [w \in Workers |-> NoJob]
    /\ events = {}
    /\ posts = [k \in Keys |-> 0]
    /\ told = {}
    /\ wire = {}
    /\ lnd = [h \in Hashes |-> "none"]
    /\ payer = [h \in Hashes |-> None]
    /\ taken = {}

-----------------------------------------------------------------------------
(* The duplicate check and the claim *)

\* Another key's row, the newest with this hash, stands in the way.
Blocks(o, k) == o # k /\ idem[o].state # "FAILED_FINAL"

\* The 409 payment_hash_already_settled, which changes nothing.
Duplicate(k, r) == \E o \in Newest(HashOf[r]) : Blocks(o, k)

\* The invoice is decoded and valid, and the query finds no other key with its
\* hash, or one whose payment failed, or, of several as new, the key itself.
Unblocked(k, r) ==
    Newest(HashOf[r]) = {} \/ \E o \in Newest(HashOf[r]) : ~Blocks(o, k)

Begin(w) ==
    /\ pc[w] = "idle"
    /\ \E k \in Keys, r \in Requests :
        /\ Unblocked(k, r)
        /\ job' = [job EXCEPT ![w] = [NoJob EXCEPT !.key = k, !.request = r]]
    /\ Goto(w, "claim")
    /\ UNCHANGED <<storeVars, lndVars, events, posts, told>>

\* What the claim returned decides: only a row that was never submitted pays.
AfterClaim(k) == IF idem[k].state \in {"SUBMITTED", "UNKNOWN"} THEN "lookup" ELSE "submit"

ClaimKey(w) ==
    LET j == job[w] IN
    /\ pc[w] = "claim"
    /\ \E tok \in Tokens, d \in 0..Lag :
        /\ Claim(j.key, j.request, tok, Hash(w), d)
        /\ held' = held \cup {tok}
        /\ job' = [job EXCEPT ![w].token = tok]
    /\ Goto(w, AfterClaim(j.key))
    /\ UNCHANGED <<lndVars, events, posts, told>>

\* The key is settled: its stored answer is given again.
Replay(w) ==
    LET j == job[w] IN
    /\ pc[w] = "claim"
    /\ CanReplay(j.key, j.request)
    /\ Tell(w, idem[j.key].reply)
    /\ End(w)
    /\ UNCHANGED <<idem, lndVars, events, posts>>

\* A 409: another request, or a live claim.
ClaimRefused(w) ==
    /\ pc[w] = "claim"
    /\ \E d \in 0..Lag : Refused(job[w].key, job[w].request, d)
    /\ End(w)
    /\ UNCHANGED <<idem, lndVars, events, posts, told>>

-----------------------------------------------------------------------------
(* A retry of a submitted payment: lookup_payment and its outcomes *)

\* Mutant of Lookup: a payment in flight counts as paid.
LookupTrusts(w) ==
    /\ pc[w] = "lookup"
    /\ \/ lnd[Hash(w)] # "none" /\ Conclude(w, "paid", "log")
       \/ lnd[Hash(w)] = "failed" /\ Conclude(w, "failed", "fail")
       \/ Goto(w, "unknown") /\ UNCHANGED job
    /\ UNCHANGED <<storeVars, lndVars, events, posts, told>>

Lookup(w) ==
    /\ pc[w] = "lookup"
    /\ \/ lnd[Hash(w)] = "succeeded" /\ Conclude(w, "paid", "log")
       \/ lnd[Hash(w)] = "failed" /\ Conclude(w, "failed", "fail")
       \/ Goto(w, "unknown") /\ UNCHANGED job
    /\ UNCHANGED <<storeVars, lndVars, events, posts, told>>

-----------------------------------------------------------------------------
(* A first attempt *)

\* Mutant of Submit: the store is not told before the payment is POSTed.
SubmitSilently(w) ==
    Step(w, "submit", "post") /\ UNCHANGED <<storeVars, lndVars, events, posts, told>>

\* mark_submitted
Submit(w) ==
    LET j == job[w] IN
    /\ Step(w, "submit", "post")
    /\ \E d \in 0..Lag : MarkSubmitted(j.key, j.request, j.token, Hash(w), d)
    /\ UNCHANGED <<held, lndVars, events, posts, told>>

\* pay_invoice: the POST leaves ...
Post(w) ==
    /\ Step(w, "post", "posted")
    /\ wire' = wire \cup {job[w].key}
    /\ posts' = [posts EXCEPT ![job[w].key] = @ + 1]
    /\ UNCHANGED <<storeVars, lnd, payer, taken, events, told>>

\* ... reaches LND, perhaps long after its sender gave up, or is lost or refused ...
Land(k) ==
    LET h == HashOf[idem[k].request] IN
    /\ k \in wire
    /\ wire' = wire \ {k}
    /\ \/ UNCHANGED <<lnd, payer, taken>>
       \/ /\ lnd[h] \in {"none", "failed"}
          /\ lnd' = [lnd EXCEPT ![h] = "in_flight"]
          /\ payer' = [payer EXCEPT ![h] = k]
          /\ taken' = taken \cup {k}
    /\ UNCHANGED <<storeVars, pc, job, events, posts, told>>

\* ... which gets the payment through, or not.
Resolve(h) ==
    /\ lnd[h] = "in_flight"
    /\ \E s \in {"succeeded", "failed"} : lnd' = [lnd EXCEPT ![h] = s]
    /\ UNCHANGED <<storeVars, wire, payer, taken, pc, job, events, posts, told>>

\* LND has taken the POST of key k and its payment is or may yet be made.
Paying(k, h) == payer[h] = k /\ lnd[h] \in {"in_flight", "succeeded"}

\* Mutant of Answered: an exception counts as a rejection.
AnsweredRejects(w) ==
    /\ pc[w] = "posted"
    /\ \/ Paying(job[w].key, Hash(w)) /\ Conclude(w, "submitted", "log")
       \/ Conclude(w, "rejected", "fail")
    /\ UNCHANGED <<storeVars, lndVars, events, posts, told>>

\* The answer: no payment_error; a payment_error, because LND refused the POST or
\* the payment failed; or an exception, another hash or an unknown state.
Answered(w) ==
    /\ pc[w] = "posted"
    /\ \/ Paying(job[w].key, Hash(w)) /\ Conclude(w, "submitted", "log")
       \/ /\ job[w].key \notin wire /\ ~Paying(job[w].key, Hash(w))
          /\ Conclude(w, "rejected", "fail")
       \/ Goto(w, "unknown") /\ UNCHANGED job
    /\ UNCHANGED <<storeVars, lndVars, events, posts, told>>

-----------------------------------------------------------------------------
(* The outcome *)

\* mark_unknown; the client gets a 409, 502, 503 or 504 that settles nothing.
BecomeUnknown(w) ==
    LET j == job[w] IN
    /\ pc[w] = "unknown"
    /\ \E d \in 0..Lag : MarkUnknown(j.key, j.request, j.token, Hash(w), d)
    /\ End(w)
    /\ UNCHANGED <<lndVars, events, posts, told>>

\* mark_failed, and the 409.
BecomeFailed(w) ==
    LET j == job[w] IN
    /\ pc[w] = "fail"
    /\ MarkFailed(j.key, j.request, j.token, j.result)
    /\ Tell(w, j.result)
    /\ End(w)
    /\ UNCHANGED <<lndVars, events, posts>>

\* Mutant of Log: an event that cannot be written is skipped.
LogSkips(w) ==
    Step(w, "log", "save") /\ UNCHANGED <<storeVars, lndVars, events, posts, told>>

\* append_event: payment_submitted or payment_reconciled, by the result.
Log(w) ==
    /\ Step(w, "log", "save")
    /\ events' = events \cup {<<job[w].result, job[w].key>>}
    /\ UNCHANGED <<storeVars, lndVars, posts, told>>

\* Mutant of Save: the 202 is given although it could not be stored.
SaveUnstored(w) ==
    /\ pc[w] = "save"
    /\ Tell(w, job[w].result)
    /\ End(w)
    /\ UNCHANGED <<idem, lndVars, events, posts>>

\* _idempotent stores the 202 and gives it.
Save(w) ==
    LET j == job[w] IN
    /\ pc[w] = "save"
    /\ SaveIdempotent(j.key, j.request, j.token, j.result)
    /\ Tell(w, j.result)
    /\ End(w)
    /\ UNCHANGED <<lndVars, events, posts>>

\* The store method that worker w is about to call finds no row to change.
ClaimLost(w) ==
    LET j == job[w] IN
    \/ pc[w] = "submit" /\ ~Owns(j.key, j.request, j.token, {"CLAIMED"})
    \/ pc[w] = "unknown" /\ ~Owns(j.key, j.request, j.token, {"SUBMITTED", "UNKNOWN"})
    \/ pc[w] \in {"fail", "save"} /\ ~Owns(j.key, j.request, j.token, Open)

\* Mutant of LoseClaim: the error handler does not look at the row's token.
LoseClaimFails(w) ==
    /\ ClaimLost(w)
    /\ Settle(job[w].key, "FAILED_FINAL", "rejected")
    /\ End(w)
    /\ UNCHANGED <<lndVars, events, posts, told>>

\* It raises idempotency_claim_lost.  The error handler marks a row as failed only
\* if it is CLAIMED with the worker's token, which it then is not.
LoseClaim(w) ==
    /\ ClaimLost(w)
    /\ End(w)
    /\ UNCHANGED <<idem, lndVars, events, posts, told>>

\* The process dies, or the database is busy for too long.  The row stays.
Crash(w) ==
    /\ pc[w] # "idle"
    /\ End(w)
    /\ UNCHANGED <<idem, lndVars, events, posts, told>>

Second ==
    /\ Tick
    /\ UNCHANGED <<lndVars, pc, job, events, posts, told>>

-----------------------------------------------------------------------------
Handle(w) ==
    \/ ClaimKey(w) \/ Replay(w) \/ ClaimRefused(w) \/ Lookup(w)
    \/ Submit(w) \/ Post(w) \/ Answered(w)
    \/ BecomeUnknown(w) \/ BecomeFailed(w) \/ Log(w) \/ Save(w) \/ LoseClaim(w)

PayNext ==
    \/ \E w \in Workers : Begin(w) \/ Handle(w) \/ Crash(w)
    \/ \E k \in Keys : Land(k)
    \/ \E h \in Hashes : Resolve(h)
    \/ Second

PaySpec == PayInit /\ [][PayNext]_payVars

-----------------------------------------------------------------------------
(* Properties *)

PayTypeOK ==
    /\ StoreTypeOK
    /\ pc \in [Workers -> Labels]
    /\ job \in [Workers -> Job]
    /\ events \subseteq Replies \X Keys
    /\ posts \in [Keys -> Nat]
    /\ told \subseteq [key : Keys, request : Requests, reply : Replies]
    /\ wire \subseteq Keys
    /\ lnd \in [Hashes -> {"none", "in_flight", "succeeded", "failed"}]
    /\ payer \in [Hashes -> Keys \cup {None}]
    /\ taken \subseteq Keys

\* However often a key is retried, taken over and raced, and whatever was lost,
\* one payment at most is POSTed under it ("no second payment was submitted").
SubmittedOnce == \A k \in Keys : posts[k] <= 1

\* Write-ahead: a key under which a payment was POSTed says so in the store, so
\* that after a crash the next claim reconciles and does not pay.
SubmittedFirst ==
    \A k \in Keys : posts[k] > 0 => idem[k].state \notin {"ABSENT", "CLAIMED"}

\* The payment of a key settled with 202 was taken by LND, and that of one that
\* a retry settled, whoever made it, went through.  (API_SPEC.md:325 allows a 202
\* also for a payment that LND refused; app.py:404 answers 409 then.)
SettledMatchesLnd ==
    \A k \in Keys :
        /\ idem[k].reply = "submitted" => k \in taken
        /\ idem[k].reply = "paid" => lnd[idem[k].payhash] = "succeeded"

\* A key settled as "LND rejected the payment" is not the one LND pays or will
\* still pay for: the POST of that key is spent.
RejectedNotPaid ==
    \A k \in Keys : idem[k].reply = "rejected" =>
        k \notin wire /\ ~Paying(k, idem[k].payhash)

\* Clients get one definite answer per key, for the one request it stands for,
\* from whichever worker and by whichever replay.
OneAnswer ==
    \A a, b \in told : a.key = b.key => a = b

\* Nobody is told 202 without the event of that outcome in the log.
AnswersLogged ==
    \A a \in told : a.reply \in {"submitted", "paid"} => <<a.reply, a.key>> \in events

\* The payment that key k stands for, once its row says that it is submitted.
ChosenHash(k) ==
    IF idem[k].state \in {"ABSENT", "CLAIMED"} THEN None ELSE idem[k].payhash

Verdict(reply) ==
    CASE reply \in {"submitted", "paid"} -> "ok"
      [] reply \in {"rejected", "failed"} -> "refused"
      [] OTHER -> "none"

Ledger == INSTANCE PaymentLedger WITH
    Payments  <- Hashes,
    Exclusive <- FALSE,
    Forgetful <- FALSE,
    chosen    <- [k \in Keys |-> ChosenHash(k)],
    issued    <- {ChosenHash(k) : k \in Keys} \ {None},
    flying    <- {HashOf[idem[k].request] : k \in wire},
    taken     <- {h \in Hashes : lnd[h] # "none"},
    verdict   <- [k \in Keys |-> Verdict(idem[k].reply)]

\* Whatever is lost, raced or retried, clients see a ledger in which a key stands
\* for one payment hash for ever once it is submitted, nothing else ever leaves
\* for LND, and a key is settled with 202 only when LND took a payment of its
\* hash (pay_invoice).
KeepsLedger == Ledger!LedgerSpec

-----------------------------------------------------------------------------
(* The inductive invariant behind them *)

\* A request that runs has a key and a fingerprint, a token from its claim on,
\* and at the end an answer of the right kind.
JobShape ==
    \A w \in Workers :
        /\ pc[w] = "idle" => job[w] = NoJob
        /\ pc[w] # "idle" => job[w].key \in Keys /\ job[w].request \in Requests
        /\ pc[w] \in {"idle", "claim"} <=> job[w].token = None
        /\ job[w].token \in held \cup {None}
        /\ pc[w] = "fail" => job[w].result \in {"rejected", "failed"}
        /\ pc[w] \in {"log", "save"} => job[w].result \in {"submitted", "paid"}

\* No two requests have one token, and a row's is that of a request for the row.
TokenIdentifiesJob ==
    /\ \A v, w \in Workers :
        job[v].token = job[w].token /\ job[v].token # None => v = w
    /\ \A w \in Workers, k \in Keys :
        idem[k].token = job[w].token /\ idem[k].token # None => job[w].key = k

\* A row has the hash of its request, and a reply once it is settled.
RowShape ==
    \A k \in Keys :
        /\ idem[k].state # "ABSENT" =>
               idem[k].request \in Requests /\ idem[k].payhash = HashOf[idem[k].request]
        /\ idem[k].state \in Final <=> idem[k].reply # None

\* From here on a worker knows that the store was told of the payment.
Dispatched == {"lookup", "post", "posted", "unknown", "fail", "log", "save"}

Submitted(k) == idem[k].state \notin {"ABSENT", "CLAIMED"}

\* The one POST of key k was refused or lost, or its payment failed.
Spent(k, h) == posts[k] = 1 /\ k \notin wire /\ ~Paying(k, h)

\* What LND did that justifies a reply.
Backed(reply, k, h) ==
    /\ reply = "submitted" => k \in taken
    /\ reply = "paid" => lnd[h] = "succeeded"
    /\ reply = "rejected" => Spent(k, h)

\* What each worker relies on, also after it lost its claim.
WorkerKnows(w) ==
    LET j == job[w] IN
    /\ pc[w] \in Dispatched => Submitted(j.key)
    /\ pc[w] = "post" => posts[j.key] = 0
    /\ pc[w] = "posted" => posts[j.key] = 1
    /\ pc[w] \in {"fail", "log", "save"} => Backed(j.result, j.key, Hash(w))
    /\ pc[w] = "save" => <<j.result, j.key>> \in events

\* A key leaves CLAIMED once, in the hands of one worker.
OnePoster ==
    \A v, w \in Workers :
        pc[v] = "post" /\ pc[w] = "post" /\ job[v].key = job[w].key => v = w

\* What a key's row, its POST and LND have to do with each other.
KeyKnown(k) ==
    /\ posts[k] <= 1
    /\ posts[k] > 0 => Submitted(k)
    /\ k \in wire \cup taken => posts[k] = 1
    /\ k \in taken => lnd[idem[k].payhash] # "none"
    /\ \A h \in Hashes : payer[h] = k => k \in taken
    /\ Backed(idem[k].reply, k, idem[k].payhash)
    /\ idem[k].reply \in {"submitted", "paid"} => <<idem[k].reply, k>> \in events

\* What a client was told is what the row says for ever.
ToldFromRow ==
    \A a \in told :
        /\ idem[a.key].state \in Final
        /\ idem[a.key].request = a.request /\ idem[a.key].reply = a.reply

PayInv ==
    /\ PayTypeOK /\ OneOwner /\ JobShape /\ TokenIdentifiesJob /\ RowShape
    /\ \A w \in Workers : WorkerKnows(w)
    /\ \A k \in Keys : KeyKnown(k)
    /\ OnePoster /\ ToldFromRow

-----------------------------------------------------------------------------
(* What the code says and does not keep *)

\* app.py:306: a client that is told "Invoice has already been paid" holds an
\* invoice that is paid.
AlreadyPaidIsPaid ==
    \A k \in Keys, r \in Requests : Duplicate(k, r) => lnd[HashOf[r]] = "succeeded"

\* app.py:352: a key settled with "LND reports that the previous payment failed"
\* is not the one whose payment goes through.
FailedNotPaid ==
    \A k \in Keys : idem[k].reply = "failed" =>
        ~(payer[idem[k].payhash] = k /\ lnd[idem[k].payhash] = "succeeded")

=============================================================================
