----------------------------- MODULE BitcoinSend -----------------------------
(***************************************************************************)
(* POST /v1/wallets/<wallet>/transactions/send of the Bitcoin adapter:     *)
(* workers that run _json_post (src/api/app.py) around create_sign_and_send*)
(* (src/services/bitcoin_service.py), over the store of BitcoinStore and a *)
(* Bitcoin Core node reached by RPC.  A worker is a thread of any process. *)
(*                                                                         *)
(*   pc[w]     where worker w is in the handler; between two labels other  *)
(*             workers run, leases lapse, RPCs are lost                    *)
(*   job[w]    its locals: key, request, claim token, prepared.expected_   *)
(*             txid (None until it has one)                                *)
(*   told      history: the definite answers (2xx, or a settled error)     *)
(*             that clients were given                                     *)
(*                                                                         *)
(* The node and its wallet are external; what the code relies on:          *)
(*   spends    the coin that each transaction funded so far spends (a coin *)
(*             stands for the set of inputs; None: not funded)             *)
(*   locked    coins that walletcreatefundedpsbt (lockUnspents) locked     *)
(*   wire      transactions submitted by a sendrawtransaction that the     *)
(*             node has not processed yet                                  *)
(*   accepted  transactions that the node ever took into its mempool       *)
(*                                                                         *)
(* The node takes no transaction whose coin a taken one already spends.    *)
(* Everything else about it is a free choice: testmempoolaccept may say no *)
(* at any time, every RPC may fail, and _transaction_known may say False   *)
(* of a transaction that the node has, because it reads every RpcError,    *)
(* also a timeout, as "not known".                                         *)
(***************************************************************************)
EXTENDS BitcoinStore

CONSTANTS
    Workers,   \* worker threads, over all processes
    Coins      \* the wallet's coins

ASSUME CoinsAssumption == None \notin Coins

VARIABLES pc, job, spends, locked, wire, accepted, told

nodeVars == <<spends, locked, wire, accepted>>
sendVars == <<storeVars, nodeVars, pc, job, told>>

-----------------------------------------------------------------------------
(* Workers *)

NoJob == [key |-> None, request |-> None, token |-> None, tx |-> None]

Job == [key     : Keys \cup {None},
        request : Requests \cup {None},
        token   : Tokens \cup {None},
        tx      : TxIds \cup {None}]

Labels == {"idle", "load", "fund", "save", "abort", "beat", "known1", "accept",
           "known2", "fail", "unlock", "send", "sent", "known3", "unknown",
           "mark", "respond"}

Goto(w, label) == pc' = [pc EXCEPT ![w] = label]

\* Worker w, at label from, moves on to label to.
Step(w, from, to) == pc[w] = from /\ Goto(w, to) /\ UNCHANGED job

\* The handler returns or raises; its locals are gone.
End(w) ==
    /\ Goto(w, "idle")
    /\ job' = [job EXCEPT ![w] = NoJob]
    /\ held' = held \ {job[w].token}

Answer(k, r, reply) == [key |-> k, request |-> r, reply |-> reply]

SendInit ==
    /\ StoreInit
    /\ pc = [w \in Workers |-> "idle"]
    /\ job = [w \in Workers |-> NoJob]
    /\ spends = [t \in TxIds |-> None]
    /\ locked = {}
    /\ wire = {}
    /\ accepted = {}
    /\ told = {}

-----------------------------------------------------------------------------
(* _json_post: the claim *)

\* A 409 (another request, or a live claim) leaves everything as it was.
Begin(w) ==
    /\ pc[w] = "idle"
    /\ \E k \in Keys, r \in Requests, tok \in Tokens, d \in 0..Lag :
        /\ Claim(k, r, tok, d)
        /\ held' = held \cup {tok}
        /\ job' = [job EXCEPT ![w] =
                     [key |-> k, request |-> r, token |-> tok, tx |-> None]]
    /\ Goto(w, "load")
    /\ UNCHANGED <<nodeVars, told>>

\* The key is settled: its stored answer is given again.
Replay(w) ==
    /\ pc[w] = "idle"
    /\ \E k \in Keys, r \in Requests, d \in 0..Lag :
        /\ CanReplay(k, r, d)
        /\ told' = told \cup {Answer(k, r, idem[k].reply)}
    /\ UNCHANGED <<storeVars, nodeVars, pc, job>>

-----------------------------------------------------------------------------
(* create_sign_and_send: preparing the transaction *)

\* load_prepared_broadcast
Load(w) ==
    /\ pc[w] = "load"
    /\ LET id == LoadPrepared(job[w].key, job[w].request) IN
        \/ id = 0 /\ Goto(w, "fund") /\ UNCHANGED job
        \/ id # 0 /\ Goto(w, "beat") /\ job' = [job EXCEPT ![w].tx = records[id].tx]
    /\ UNCHANGED <<storeVars, nodeVars, told>>

\* The wallet picks neither a locked coin nor one that a taken transaction spends.
Spendable == {c \in Coins \ locked : \A t \in accepted : spends[t] # c}

FundTx(t, c) ==
    /\ spends[t] = None
    /\ c \in Spendable
    /\ spends' = [spends EXCEPT ![t] = c]
    /\ locked' = locked \cup {c}

\* _fund_psbt; the signed transaction's txid is named here already.
Fund(w) ==
    /\ pc[w] = "fund"
    /\ \E t \in TxIds, c \in Coins :
        FundTx(t, c) /\ job' = [job EXCEPT ![w].tx = t]
    /\ Goto(w, "save")
    /\ UNCHANGED <<storeVars, wire, accepted, told>>

\* No funds, a bad address, a failed RPC: the request ends with an error.
FundFails(w) ==
    /\ pc[w] = "fund"
    /\ End(w)
    /\ UNCHANGED <<idem, records, recycled, nodeVars, told>>

\* The wallet funded and locked, but the answer is lost or has no PSBT: this
\* is outside the try, and nothing unlocks the coin.
FundLost(w) ==
    /\ pc[w] = "fund"
    /\ \E t \in TxIds, c \in Coins : FundTx(t, c)
    /\ End(w)
    /\ UNCHANGED <<idem, records, recycled, wire, accepted, told>>

\* Signing, finalizing and decoding succeed, and save_prepared_broadcast writes.
\* Its other branch, AlreadySaved, is dead here: SendInv says that an owner that
\* got this far has nothing saved.
Save(w) ==
    /\ Step(w, "save", "beat")
    /\ \E d \in 0..Lag :
        SavePrepared(job[w].key, job[w].request, job[w].token, job[w].tx, d)
    /\ UNCHANGED <<held, nodeVars, told>>

\* Mutant of SaveFails: the exception is swallowed and the handler goes on.
SaveFailsSilently(w) ==
    /\ Step(w, "save", "beat")
    /\ UNCHANGED <<storeVars, nodeVars, told>>

\* ... or one of them raises: an RPC, a busy database, a lost claim.
SaveFails(w) ==
    /\ Step(w, "save", "abort")
    /\ UNCHANGED <<storeVars, nodeVars, told>>

\* _unlock_psbt_inputs is best effort.
Unlock(t) == locked' = locked \/ locked' = locked \ {spends[t]}

Abort(w) ==
    /\ pc[w] = "abort"
    /\ Unlock(job[w].tx)
    /\ End(w)
    /\ UNCHANGED <<idem, records, recycled, spends, wire, accepted, told>>

-----------------------------------------------------------------------------
(* create_sign_and_send: reconciling and broadcasting *)

\* _require_claim_heartbeat
Beat(w) ==
    /\ Step(w, "beat", "known1")
    /\ \E d \in 0..Lag : HeartbeatClaim(job[w].key, job[w].token, d)
    /\ UNCHANGED <<held, nodeVars, told>>

\* Mutant of Known: an RpcError is read as "known".
KnownOnError(w) ==
    /\ pc[w] \in {"known1", "known2", "known3"}
    /\ Goto(w, "mark")
    /\ UNCHANGED <<storeVars, nodeVars, job, told>>

\* _transaction_known
Known(w) ==
    /\ pc[w] \in {"known1", "known2", "known3"}
    /\ job[w].tx \in accepted
    /\ Goto(w, "mark")
    /\ UNCHANGED <<storeVars, nodeVars, job, told>>

NotKnown(w) ==
    /\ \/ Step(w, "known1", "accept")
       \/ Step(w, "known2", "fail")
       \/ Step(w, "known3", "unknown")
    /\ UNCHANGED <<storeVars, nodeVars, told>>

\* testmempoolaccept
TestAccept(w) ==
    /\ Step(w, "accept", "send") \/ Step(w, "accept", "known2")
    /\ UNCHANGED <<storeVars, nodeVars, told>>

\* Mutant of FailPrepared: the row is failed without its transaction record.
FailRowOnly(w) ==
    /\ Step(w, "fail", "unlock")
    /\ CanMarkPreparedFailed(job[w].key, job[w].token)
    /\ Fail(job[w].key)
    /\ UNCHANGED <<records, recycled, held, nodeVars, told>>

FailPrepared(w) ==
    /\ Step(w, "fail", "unlock")
    /\ MarkPreparedFailed(job[w].key, job[w].token)
    /\ UNCHANGED <<held, nodeVars, told>>

\* The inputs are given back and the client gets the 409 MEMPOOL_REJECTED.
UnlockRejected(w) ==
    /\ pc[w] = "unlock"
    /\ Unlock(job[w].tx)
    /\ told' = told \cup {Answer(job[w].key, job[w].request, Rejected)}
    /\ End(w)
    /\ UNCHANGED <<idem, records, recycled, spends, wire, accepted>>

\* sendrawtransaction: the request leaves ...
Post(w) ==
    /\ Step(w, "send", "sent")
    /\ wire' = wire \cup {job[w].tx}
    /\ UNCHANGED <<storeVars, spends, locked, accepted, told>>

\* ... reaches the node, perhaps long after its sender gave up, or is lost ...
Land(t) ==
    /\ t \in wire
    /\ wire' = wire \ {t}
    /\ \/ UNCHANGED accepted
       \/ /\ \A u \in accepted \ {t} : spends[u] # spends[t]
          /\ accepted' = accepted \cup {t}
    /\ UNCHANGED <<storeVars, spends, locked, pc, job, told>>

\* Mutant of Answered: an RpcError counts as a broadcast.
AnsweredOnError(w) ==
    /\ Step(w, "sent", "mark")
    /\ UNCHANGED <<storeVars, nodeVars, told>>

\* ... and is answered: with the txid, with an RpcError, or with another txid.
Answered(w) ==
    /\ \/ job[w].tx \in accepted /\ Step(w, "sent", "mark")
       \/ Step(w, "sent", "known3")
       \/ Step(w, "sent", "unknown")
    /\ UNCHANGED <<storeVars, nodeVars, told>>

\* Mutant of BecomeUnknown: the inputs are given back although the outcome is open.
BecomeUnknownUnlocks(w) ==
    /\ pc[w] = "unknown"
    /\ \E d \in 0..Lag : MarkUnknown(job[w].key, job[w].token, job[w].tx, d)
    /\ Unlock(job[w].tx)
    /\ End(w)
    /\ UNCHANGED <<spends, wire, accepted, told>>

\* The client gets the 503 BROADCAST_RESULT_UNKNOWN (502 on another txid).
BecomeUnknown(w) ==
    /\ pc[w] = "unknown"
    /\ \E d \in 0..Lag : MarkUnknown(job[w].key, job[w].token, job[w].tx, d)
    /\ End(w)
    /\ UNCHANGED <<nodeVars, told>>

BecomeBroadcast(w) ==
    /\ Step(w, "mark", "respond")
    /\ \E d \in 0..Lag : MarkBroadcast(job[w].key, job[w].token, job[w].tx, d)
    /\ UNCHANGED <<held, nodeVars, told>>

\* Mutant of Respond: the answer is given although it could not be stored.
RespondUnstored(w) ==
    /\ pc[w] = "respond"
    /\ told' = told \cup {Answer(job[w].key, job[w].request, Ok(job[w].tx))}
    /\ End(w)
    /\ UNCHANGED <<idem, records, recycled, nodeVars>>

\* _json_post stores the 2xx answer and gives it.
Respond(w) ==
    /\ pc[w] = "respond"
    /\ \E d \in 0..Lag :
        StoreResponse(job[w].key, job[w].request, job[w].token, d, Ok(job[w].tx))
    /\ told' = told \cup {Answer(job[w].key, job[w].request, Ok(job[w].tx))}
    /\ End(w)
    /\ UNCHANGED nodeVars

-----------------------------------------------------------------------------
(* Failures and time *)

\* Mutant of ClaimLost: mark_unknown is retried until the claim comes back.
ClaimLostRetries(w) ==
    LET j == job[w] IN
    \/ pc[w] = "beat"    /\ ~CanHeartbeat(j.key, j.token)
    \/ pc[w] = "fail"    /\ ~CanMarkPreparedFailed(j.key, j.token)
    \/ pc[w] = "mark"    /\ ~CanMarkBroadcast(j.key, j.token, j.tx)
    \/ pc[w] = "respond" /\ ~CanStoreResponse(j.key, j.request, j.token)

\* The store method that worker w is about to call finds no row to change.
ClaimLost(w) ==
    LET j == job[w] IN
    \/ pc[w] = "beat"    /\ ~CanHeartbeat(j.key, j.token)
    \/ pc[w] = "fail"    /\ ~CanMarkPreparedFailed(j.key, j.token)
    \/ pc[w] = "unknown" /\ ~CanMarkUnknown(j.key, j.token, j.tx)
    \/ pc[w] = "mark"    /\ ~CanMarkBroadcast(j.key, j.token, j.tx)
    \/ pc[w] = "respond" /\ ~CanStoreResponse(j.key, j.request, j.token)

\* Mutant of LoseClaim: who lost the claim gives the inputs back.
LoseClaimUnlocks(w) ==
    /\ ClaimLost(w)
    /\ Unlock(job[w].tx)
    /\ End(w)
    /\ UNCHANGED <<idem, records, recycled, spends, wire, accepted, told>>

\* It raises IDEMPOTENCY_CLAIM_LOST.
LoseClaim(w) ==
    /\ ClaimLost(w)
    /\ End(w)
    /\ UNCHANGED <<idem, records, recycled, nodeVars, told>>

\* The process dies, or an exception that no handler treats (a failed RPC, a
\* busy database) ends the request.  The row keeps its state and its lease.
Crash(w) ==
    /\ pc[w] # "idle"
    /\ End(w)
    /\ UNCHANGED <<idem, records, recycled, nodeVars, told>>

\* Bitcoin Core restarts: its coin locks were kept in memory.
CoreRestart ==
    /\ locked # {}
    /\ locked' = {}
    /\ UNCHANGED <<storeVars, spends, wire, accepted, pc, job, told>>

Second ==
    /\ Tick
    /\ UNCHANGED <<nodeVars, pc, job, told>>

-----------------------------------------------------------------------------
Handle(w) ==
    \/ Load(w) \/ Fund(w) \/ FundFails(w) \/ FundLost(w)
    \/ Save(w) \/ SaveFails(w) \/ Abort(w)
    \/ Beat(w) \/ Known(w) \/ NotKnown(w) \/ TestAccept(w)
    \/ FailPrepared(w) \/ UnlockRejected(w)
    \/ Post(w) \/ Answered(w) \/ BecomeUnknown(w)
    \/ BecomeBroadcast(w) \/ Respond(w) \/ LoseClaim(w)

SendNext ==
    \/ \E w \in Workers : Begin(w) \/ Replay(w) \/ Handle(w) \/ Crash(w)
    \/ \E t \in TxIds : Land(t)
    \/ Second

SendSpec == SendInit /\ [][SendNext]_sendVars

\* The same system with a node that may restart.
RestartSpec == SendInit /\ [][SendNext \/ CoreRestart]_sendVars

\* Every RPC has a timeout and SQLite a busy_timeout, so a handler that was
\* called takes its next step unless its process dies.
FairSpec == SendSpec /\ \A w \in Workers : WF_sendVars(Handle(w))

-----------------------------------------------------------------------------
(* Properties *)

SendTypeOK ==
    /\ StoreTypeOK
    /\ pc \in [Workers -> Labels]
    /\ job \in [Workers -> Job]
    /\ spends \in [TxIds -> Coins \cup {None}]
    /\ locked \subseteq Coins
    /\ wire \subseteq TxIds
    /\ accepted \subseteq TxIds
    /\ told \subseteq [key : Keys, request : Requests, reply : Reply]

\* Write-ahead: what was ever submitted to the network is in the store first
\* (save_prepared_broadcast: "Persists the exact transaction before the first
\* broadcast attempt"), whoever submitted it and whatever was lost since.
PersistedBeforeSent == wire \cup accepted \subseteq Recorded

\* However often a key is retried, taken over and raced, at most one of its
\* transactions leaves for the network, unless its row expired meanwhile.
AtMostOnePayment ==
    \A i, j \in DOMAIN records :
        /\ records[i].key = records[j].key
        /\ records[i].key \notin recycled
        /\ {records[i].tx, records[j].tx} \subseteq wire \cup accepted
        => i = j

Live(i) == records[i].status \in {"prepared", "broadcast"}

Persisted == {"beat", "known1", "accept", "known2", "fail", "unlock", "send",
              "sent", "known3", "unknown", "mark", "respond"}

\* Worker w still holds the claim on its key.
Owner(w) == idem[job[w].key].token = job[w].token

\* The transactions that count: those that the store holds as prepared or broadcast,
\* and those that a worker reconciles or sends while the key is still its own.
Standing ==
    {records[i].tx : i \in {n \in DOMAIN records : Live(n)}}
        \cup {job[w].tx : w \in {v \in Workers : pc[v] \in Persisted /\ Owner(v)}}

\* Two of them never spend the same coin: unlocking what a failed request funded,
\* or what a rejected one held, never frees a coin that another transaction relies
\* on (_unlock_psbt_inputs on two error paths of create_sign_and_send).  What a
\* displaced worker sends although the new owner recorded it as rejected does not
\* count (RejectedNotAccepted): its coin was given back, a later transaction may be
\* funded with it, and the node takes one of the two.
NoSharedCoin == \A t, u \in Standing : spends[t] = spends[u] => t = u

\* What the store calls broadcast did reach the node, and a key settled with a
\* 2xx names a broadcast transaction as its answer.
SettledMatchesNode ==
    /\ \A i \in DOMAIN records :
        records[i].status = "broadcast" => records[i].tx \in accepted
    /\ \A k \in Keys : idem[k].state = "SUCCEEDED" =>
        /\ idem[k].prepared # 0
        /\ records[idem[k].prepared].status = "broadcast"
        /\ idem[k].reply = Ok(records[idem[k].prepared].tx)

\* Clients get one definite answer per key, for the one request it stands for,
\* from whichever worker and by whichever replay, unless the row expired.
OneAnswer ==
    \A a, b \in told : a.key = b.key /\ a.key \notin recycled => a = b

\* A client that is told 2xx with a txid can rely on the node having taken it.
OkMeansAccepted == \A a \in told : a.reply.code = "ok" => a.reply.tx \in accepted

\* Every request that is being handled comes to an end, whatever is lost: no
\* label is left without a next step when the claim is gone.
RequestsEnd == \A w \in Workers : pc[w] # "idle" ~> pc[w] = "idle"

\* Calm: nobody crashes, the node is reached and says what is true, what can be
\* funded is, requests are quick on the scale of seconds, and clients retry a key
\* whose lease lapsed before its row expires.
Takable(t) == t \notin accepted /\ \A u \in accepted : spends[u] # spends[t]

CalmHandle(w) ==
    /\ Handle(w) /\ ~FundFails(w) /\ ~FundLost(w) /\ ~SaveFails(w)
    /\ pc[w] \in {"known1", "known2", "known3", "sent"} /\ job[w].tx \in accepted
           => pc'[w] = "mark"
    /\ pc[w] = "accept" => (pc'[w] = "send" <=> Takable(job[w].tx))
    /\ pc[w] = "sent" => job[w].tx \notin wire

CalmLand(t) == Land(t) /\ (Takable(t) => t \in accepted')

CalmSecond ==
    /\ Second
    /\ \A w \in Workers : pc[w] = "idle"
    /\ \A k \in Keys :
        idem[k].state \in Open /\ idem[k].lease <= 0 /\ idem[k].expires > 0
            => idem'[k].expires > 0

Retry == \E w \in Workers : Begin(w)

CalmNext ==
    \/ \E w \in Workers : Begin(w) \/ Replay(w) \/ CalmHandle(w)
    \/ \E t \in TxIds : CalmLand(t)
    \/ CalmSecond

\* No retry loop: once it is calm and clients keep retrying, a key that is open, in
\* whatever state crashes, lost answers and displaced workers have left it, is
\* settled (_json_post, claim_idempotent).
OpenKeysSettle ==
    /\ <>[][CalmNext]_sendVars
    /\ WF_sendVars(Retry)
    /\ WF_sendVars(CalmSecond)
    /\ WF_sendVars(\E t \in TxIds : CalmLand(t))
    => \A k \in Keys : idem[k].state \in Open ~> idem[k].state \in Final

-----------------------------------------------------------------------------
(* The ledger that this implements *)

\* The transaction that the row of key k names.
ChosenTx(k) ==
    IF idem[k].prepared \in DOMAIN records THEN records[idem[k].prepared].tx ELSE None

Verdict(code) ==
    CASE code = "ok" -> "ok" [] code = "rejected" -> "refused" [] OTHER -> "none"

Ledger == INSTANCE PaymentLedger WITH
    Payments  <- TxIds,
    Exclusive <- TRUE,
    Forgetful <- TRUE,
    chosen    <- [k \in Keys |-> ChosenTx(k)],
    issued    <- Recorded,
    flying    <- wire,
    taken     <- accepted,
    verdict   <- [k \in Keys |-> Verdict(idem[k].reply.code)]

\* Whatever is lost, raced or restarted, clients see a ledger in which a key
\* stands for one recorded transaction until its row expires, nothing else ever
\* leaves for the network, and a key is settled "ok" only with its transaction
\* taken (create_sign_and_send under _json_post).
KeepsLedger == Ledger!LedgerSpec

-----------------------------------------------------------------------------
(* Why they hold: the inductive invariants *)

Unfunded  == {"load", "fund"}
Funding   == {"save", "abort"}

\* The request that worker w handles; an idle worker has none.
JobShape ==
    \A w \in Workers :
        /\ pc[w] = "idle" => job[w] = NoJob
        /\ pc[w] # "idle" =>
            /\ job[w].key \in Keys
            /\ job[w].request \in Requests
            /\ job[w].token \in held
            /\ job[w].tx = None <=> pc[w] \in Unfunded

\* A token identifies one request: the one that claimed the row that has it.
TokenIdentifiesJob ==
    /\ \A v, w \in Workers :
        job[v].token = job[w].token /\ job[v].token # None => v = w
    /\ \A w \in Workers, k \in Keys :
        pc[w] # "idle" /\ idem[k].token = job[w].token =>
            k = job[w].key /\ idem[k].request = job[w].request

\* A funded transaction that is not saved yet is known to its worker only, and
\* while that worker owns the claim nothing is saved under the key.
FundingPrivate ==
    \A w \in Workers :
        /\ pc[w] \in Funding =>
            /\ spends[job[w].tx] # None
            /\ job[w].tx \notin Recorded
            /\ \A v \in Workers \ {w} : pc[v] \in Funding => job[v].tx # job[w].tx
        /\ pc[w] \in {"fund", "save"} /\ Owner(w) => idem[job[w].key].prepared = 0

\* Past saving, worker w acts for the record of its transaction, and as long as
\* it owns the claim that is the record that the row names.
ActsForRecord ==
    \A w \in Workers : pc[w] \in Persisted =>
        \E i \in DOMAIN records :
            /\ records[i].key = job[w].key
            /\ records[i].request = job[w].request
            /\ records[i].tx = job[w].tx
            /\ Owner(w) => idem[job[w].key].prepared = i

\* Records are of distinct funded transactions.
RecordsDistinct ==
    /\ \A i \in DOMAIN records :
        /\ records[i].kind = "broadcast" /\ records[i].key \in Keys
        /\ records[i].tx # None /\ spends[records[i].tx] # None
    /\ \A i, j \in DOMAIN records : records[i].tx = records[j].tx => i = j

\* All that a key ever prepared is what its row names, unless the row expired.
PreparedOnce ==
    \A i \in DOMAIN records :
        records[i].key \notin recycled => idem[records[i].key].prepared = i

\* The worker about to report success knows that the node took the transaction,
\* and the row says so before the answer is stored.
MarkedAfterAccepted ==
    \A w \in Workers :
        /\ pc[w] \in {"mark", "respond"} => job[w].tx \in accepted
        /\ pc[w] = "respond" /\ Owner(w) => idem[job[w].key].state = "BROADCAST"

\* A definite answer that was or is about to be given is the one in the row.
ToldFromRow ==
    /\ \A k \in Keys : idem[k].state = "FAILED_FINAL" => idem[k].reply = Rejected
    /\ \A a \in told : a.key \notin recycled =>
        /\ idem[a.key].state \in Final
        /\ idem[a.key].request = a.request
        /\ idem[a.key].reply = a.reply
    /\ \A w \in Workers : pc[w] = "unlock" /\ job[w].key \notin recycled =>
        /\ idem[job[w].key].state = "FAILED_FINAL"
        /\ idem[job[w].key].request = job[w].request

\* What makes every step safe, whether or not the node restarts.
SendInv ==
    /\ SendTypeOK /\ OneOwner /\ TablesAgree
    /\ JobShape /\ TokenIdentifiesJob /\ FundingPrivate /\ ActsForRecord
    /\ RecordsDistinct /\ PreparedOnce /\ PersistedBeforeSent
    /\ SettledMatchesNode /\ MarkedAfterAccepted /\ ToldFromRow /\ OkMeansAccepted

\* The transactions that hold a lock: those that the store holds as prepared or
\* broadcast, and those that some worker funded or is about to unlock.  A rejected
\* one holds none, also while a displaced worker may yet send it.
Holding ==
    {records[i].tx : i \in {n \in DOMAIN records : Live(n)}}
        \cup {job[w].tx : w \in {v \in Workers : pc[v] \in Funding \cup {"unlock"}}}

\* Without restarts, each of them holds a coin of its own under lock.
LockInv ==
    /\ \A t \in Holding : spends[t] \in locked
    /\ \A t, u \in Holding : spends[t] = spends[u] => t = u
    /\ \A v, w \in Workers : pc[v] = "unlock" /\ pc[w] = "unlock" /\ job[v].tx = job[w].tx => v = w
    /\ \A w \in Workers : pc[w] = "unlock" =>
        \A i \in DOMAIN records : records[i].tx = job[w].tx => records[i].status = "rejected"

-----------------------------------------------------------------------------
(* What the code says and does not keep *)

\* bitcoin_service.py:261 tells the client of an unknown outcome that "the exact
\* prepared transaction will be reconciled before retry": the same request,
\* retried, works on the transaction that the row names.
ReconciledBeforeRetry ==
    [][\A k \in Keys :
        idem[k].state = "UNKNOWN" /\ idem'[k].request = idem[k].request
            => idem'[k].prepared = idem[k].prepared]_sendVars

\* bitcoin_service.py:237: a transaction recorded as rejected, whose client is told
\* "Bitcoin Core rejected the prepared transaction", is not on the network.
RejectedNotAccepted ==
    \A i \in DOMAIN records : records[i].status = "rejected" => records[i].tx \notin accepted

=============================================================================
