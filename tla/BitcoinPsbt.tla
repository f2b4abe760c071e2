----------------------------- MODULE BitcoinPsbt -----------------------------
(***************************************************************************)
(* POST /v1/wallets/<wallet>/transactions/psbt of the Bitcoin adapter:     *)
(* create_psbt (src/services/bitcoin_service.py) in _json_post             *)
(* (src/api/app.py).  Unlike a send it saves nothing that a retry could    *)
(* find and renews no lease: the retry of a request that died, or whose    *)
(* lease lapsed while the wallet was slow, makes another PSBT.             *)
(*                                                                         *)
(*   post[tok]  the request that holds claim token tok: where it is, its   *)
(*              key, its request, the PSBT that the wallet made for it     *)
(*   made       the PSBTs that the wallet's answers named so far; members  *)
(*              of TxIds name them, as in the replies of BitcoinStore      *)
(*   told       history: the 200 answers that clients were given since the *)
(*              key's last row was deleted                                 *)
(*                                                                         *)
(* It shares the store with requests of the other endpoints, which are the *)
(* most general client of BitcoinStore here.  The path is part of the      *)
(* request hash, so a request belongs to one endpoint.                     *)
(***************************************************************************)
EXTENDS BitcoinStore

CONSTANTS PsbtRequests   \* the requests to this endpoint

ASSUME PsbtRequestsAssumption == PsbtRequests \subseteq Requests

VARIABLES post, made, told

psbtVars == <<storeVars, post, made, told>>

Post == [at      : {"none", "fund", "record", "respond"},
         key     : Keys \cup {None},
         request : Requests \cup {None},
         psbt    : TxIds \cup {None}]

NoPost == [at |-> "none", key |-> None, request |-> None, psbt |-> None]

At(tok, label) == post[tok].at = label

\* The handler returns or raises.
Finish(tok) ==
    /\ held' = held \ {tok}
    /\ post' = [post EXCEPT ![tok] = NoPost]

Answer(k, r, reply) == [key |-> k, request |-> r, reply |-> reply]

PsbtInit ==
    /\ StoreInit
    /\ post = [tok \in Tokens |-> NoPost]
    /\ made = {}
    /\ told = {}

-----------------------------------------------------------------------------
(* The request *)

\* A claim that finds no row, or deletes an expired one, starts anew.
Surviving(k, d) == {a \in told : a.key = k => ~Vacant(k, d)}

Begin(tok) ==
    /\ \E k \in Keys, r \in PsbtRequests, d \in 0..Lag :
        /\ Claim(k, r, tok, d)
        /\ told' = Surviving(k, d)
        /\ post' = [post EXCEPT ![tok] =
                       [at |-> "fund", key |-> k, request |-> r, psbt |-> None]]
    /\ held' = held \cup {tok}
    /\ UNCHANGED made

\* _fund_psbt: the wallet answers with a new PSBT.
Fund(tok) ==
    /\ At(tok, "fund")
    /\ \E t \in TxIds \ made :
        /\ made' = made \cup {t}
        /\ post' = [post EXCEPT ![tok].at = "record", ![tok].psbt = t]
    /\ UNCHANGED <<storeVars, told>>

\* record_transaction asks for no claim: it writes whoever owns the key by now.
RecordMade(tok) ==
    /\ At(tok, "record")
    /\ Cardinality(Psbts) < MaxPsbt
    /\ RecordPsbt(post[tok].key, post[tok].request, post[tok].psbt)
    /\ post' = [post EXCEPT ![tok].at = "respond"]
    /\ UNCHANGED <<held, made, told>>

\* Mutant of Respond: the answer is given although it could not be stored.
RespondUnstored(tok) ==
    /\ At(tok, "respond")
    /\ told' = told \cup {Answer(post[tok].key, post[tok].request, Ok(post[tok].psbt))}
    /\ Finish(tok)
    /\ UNCHANGED <<idem, records, recycled, made>>

\* _json_post stores the 200 answer and gives it.
Respond(tok) ==
    LET p == post[tok] IN
    /\ At(tok, "respond")
    /\ \E d \in 0..Lag : StoreResponse(p.key, p.request, tok, d, Ok(p.psbt))
    /\ told' = told \cup {Answer(p.key, p.request, Ok(p.psbt))}
    /\ Finish(tok)
    /\ UNCHANGED made

\* store_response finds the claim lost and raises IDEMPOTENCY_CLAIM_LOST.
LoseClaim(tok) ==
    /\ At(tok, "respond")
    /\ ~CanStoreResponse(post[tok].key, post[tok].request, tok)
    /\ Finish(tok)
    /\ UNCHANGED <<idem, records, recycled, made, told>>

\* The validation, an RPC or SQLite fails, the wallet's answer is lost or has no
\* PSBT, or the process dies: the row stays CLAIMED until its lease lapses.
Die(tok) ==
    /\ ~At(tok, "none")
    /\ Finish(tok)
    /\ UNCHANGED <<idem, records, recycled, made, told>>

\* The key is settled: its stored answer is given again.
Replay ==
    /\ \E k \in Keys, r \in PsbtRequests, d \in 0..Lag :
        /\ CanReplay(k, r, d)
        /\ told' = told \cup {Answer(k, r, idem[k].reply)}
    /\ UNCHANGED <<storeVars, post, made>>

\* A request without an Idempotency-Key claims and stores nothing.  It calls the
\* wallet and writes its record, of which no other request reads either; it may
\* fail in between.
Unkeyed ==
    /\ \E t \in TxIds \ made :
        /\ made' = made \cup {t}
        /\ UNCHANGED storeVars \/ \E r \in PsbtRequests : Keyless(r, t)
    /\ UNCHANGED <<post, told>>

-----------------------------------------------------------------------------
(* The other endpoints, housekeeping and time *)

\* Only this endpoint records PSBTs.
Elsewhere ==
    /\ \/ \E k \in Keys, r \in Requests \ PsbtRequests, tok \in Tokens, d \in 0..Lag :
           Claim(k, r, tok, d) /\ held' = held \cup {tok} /\ told' = Surviving(k, d)
       \/ /\ \E tok \in {x \in held : At(x, "none")} :
              Release(tok) \/ \E k \in Keys, d \in 0..Lag : Owned(k, tok, d) /\ Keeps(tok)
          /\ UNCHANGED <<Psbts, told>>
    /\ UNCHANGED <<post, made>>

Prune ==
    /\ \E d \in 0..Lag :
           PruneExpired(d) /\ told' = {a \in told : ~Expired(a.key, d)}
    /\ UNCHANGED <<post, made>>

Second == Tick /\ UNCHANGED <<post, made, told>>

PsbtNext ==
    \/ \E tok \in Tokens :
        \/ Begin(tok) \/ Fund(tok) \/ RecordMade(tok) \/ Respond(tok)
        \/ LoseClaim(tok) \/ Die(tok)
    \/ Replay
    \/ Unkeyed
    \/ Elsewhere
    \/ Prune
    \/ Second

PsbtSpec == PsbtInit /\ [][PsbtNext]_psbtVars

-----------------------------------------------------------------------------
(* Properties *)

\* transaction_records has PSBT t for key k and request r.
PsbtRecorded(k, r, t) ==
    \E i \in Psbts :
        records[i].key = k /\ records[i].request = r /\ records[i].psbt = t

\* However often a PSBT request is retried, raced, displaced and replayed, and
\* however many PSBTs that makes: until the key's row is deleted, every client
\* that got a 200 got the same PSBT, which the wallet made and which a record of the
\* key and the request had before the answer left (create_psbt under _json_post).
OnePsbtTold ==
    \A a, b \in told :
        a.key = b.key =>
            /\ a = b
            /\ a.reply.tx \in made
            /\ PsbtRecorded(a.key, a.request, a.reply.tx)

-----------------------------------------------------------------------------
(* Why it holds: the inductive invariant *)

\* A request has a token, a key and a request of this endpoint; from "record" on
\* it has its PSBT, and from "respond" on the PSBT's record.
PostShape ==
    /\ post \in [Tokens -> Post]
    /\ made \subseteq TxIds
    /\ \A tok \in Tokens : ~At(tok, "none") =>
        /\ tok \in held
        /\ post[tok].key \in Keys
        /\ post[tok].request \in PsbtRequests
        /\ At(tok, "fund") \/ post[tok].psbt \in made
        /\ At(tok, "respond") =>
               PsbtRecorded(post[tok].key, post[tok].request, post[tok].psbt)

\* No other endpoint has a token to a row of this one.
OwnEndpoint ==
    \A k \in Keys :
        idem[k].request \in PsbtRequests /\ idem[k].token \in held
            => ~At(idem[k].token, "none")

\* This endpoint settles a row with a PSBT that was made and recorded only.
SettledWithPsbt ==
    \A k \in Keys :
        idem[k].request \in PsbtRequests /\ idem[k].state \in Final
            => /\ idem[k].reply.tx \in made
               /\ PsbtRecorded(k, idem[k].request, idem[k].reply.tx)

\* What clients were told is what their key's row holds.
ToldFromRow ==
    \A a \in told :
        /\ a.key \in Keys
        /\ a.request \in PsbtRequests
        /\ idem[a.key].state \in Final
        /\ a = Answer(a.key, idem[a.key].request, idem[a.key].reply)

PsbtInv == StoreInv /\ PostShape /\ OwnEndpoint /\ SettledWithPsbt /\ ToldFromRow

=============================================================================
