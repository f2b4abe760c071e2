---------------------------- MODULE BitcoinStore ----------------------------
(***************************************************************************)
(* The durable state of the Bitcoin adapter: CohesionStore of              *)
(* bitcoin_core_backend/src/infra/store.py, two SQLite tables that every   *)
(* worker thread of every gunicorn process reads and writes.               *)
(*                                                                         *)
(*   idem      idempotency_records, one row per Idempotency-Key            *)
(*   records   transaction_records; the AUTOINCREMENT id is the position   *)
(*   recycled  history: keys whose row was deleted because it had expired  *)
(*   held      the claim tokens in the hands of running requests           *)
(*                                                                         *)
(* Every writing method runs in one SQLite write transaction, hence one    *)
(* step.  Each is an operator (its effect, guarded by its WHERE clause)    *)
(* beside a predicate that says when the WHERE clause matches; when it     *)
(* does not, the method raises and changes nothing.  StoreSpec is the most *)
(* general client of the store: any holder of a token calls any method at  *)
(* any time.                                                               *)
(*                                                                         *)
(* Time.  Two columns are deadlines.  The model keeps what is left of each *)
(* and Tick takes one unit from all of them.  A method reads time.time()   *)
(* BEFORE it waits for the locks, so its clock may be up to Lag units late *)
(* when its transaction runs: d is how late.  A deadline with n units left *)
(* is past for that reading iff n + d <= 0, and what it grants is d units  *)
(* short.  What is left is not counted below Past, where every reading     *)
(* agrees; a NULL lease is read as 0, which is Past as well.               *)
(***************************************************************************)
EXTENDS Integers, Sequences, FiniteSets

CONSTANTS
    Keys,      \* namespaced Idempotency-Keys
    Requests,  \* (scope, request_hash) pairs
    Tokens,    \* uuid4 claim tokens
    TxIds,     \* transactions, each named by its txid
    None,      \* SQL NULL
    Lease,     \* claim_lease_seconds
    Ttl,       \* idempotency_ttl_seconds
    Lag,       \* the most a clock reading lags its transaction
    MaxPsbt    \* bound: how many unsigned PSBTs are recorded

ASSUME TimeAssumption ==
    /\ Lease \in Nat \ {0}
    /\ Ttl \in Nat \ {0}
    /\ Lag \in Nat
    /\ Lag <= Lease
    /\ Lag <= Ttl

ASSUME NoneAssumption ==
    None \notin Requests \cup Tokens \cup TxIds

ASSUME PsbtAssumption == MaxPsbt \in Nat

VARIABLES idem, records, recycled, held

storeVars == <<idem, records, recycled, held>>

-----------------------------------------------------------------------------
(* Rows *)

Past == -Lag

Final == {"SUCCEEDED", "FAILED_FINAL"}
Open  == {"CLAIMED", "PREPARED", "BROADCAST", "UNKNOWN"}

\* status_code and response_json: a 2xx answer naming the transaction (None
\* for a PSBT), or an error kept by mark_failed and mark_prepared_failed.
Reply == [code : {"none", "ok", "rejected"}, tx : TxIds \cup {None}]

NoReply  == [code |-> "none", tx |-> None]
Ok(t)    == [code |-> "ok", tx |-> t]
Rejected == [code |-> "rejected", tx |-> None]

Row == [request  : Requests \cup {None},
        state    : {"ABSENT"} \cup Open \cup Final,
        token    : Tokens \cup {None},
        lease    : Past..Lease,
        expires  : Past..Ttl,
        prepared : Nat,
        payhash  : TxIds \cup {None},
        reply    : Reply]

\* No row under this key.
NoRow == [request |-> None, state |-> "ABSENT", token |-> None,
          lease |-> Past, expires |-> Past,
          prepared |-> 0, payhash |-> None, reply |-> NoReply]

\* A PSBT is named by the transaction that it becomes once it is signed.
Record == [kind    : {"broadcast", "psbt"},
           key     : Keys \cup {None},
           request : Requests,
           psbt    : TxIds,
           tx      : TxIds \cup {None},
           status  : {"created", "prepared", "broadcast", "rejected"}]

Recorded == {records[i].tx : i \in DOMAIN records} \ {None}

-----------------------------------------------------------------------------
(* claim_idempotent *)

\* Mutant of Vacant: a row is deleted one unit before it expires.
VacantEarly(k, d) == idem[k].state = "ABSENT" \/ idem[k].expires + d <= 1

\* The claim finds no row, or one whose expires_at it reads as past.
Vacant(k, d) == idem[k].state = "ABSENT" \/ idem[k].expires + d <= 0

CanReplay(k, r, d) ==
    ~Vacant(k, d) /\ idem[k].request = r /\ idem[k].state \in Final

\* Mutant of CanTakeOver: the lease is not looked at.
CanTakeOverAnytime(k, r, d) ==
    ~Vacant(k, d) /\ idem[k].request = r /\ idem[k].state \in Open

\* Mutant of CanTakeOver: a row whose outcome is open is left alone.
CanTakeOverDecided(k, r, d) ==
    /\ ~Vacant(k, d)
    /\ idem[k].request = r
    /\ idem[k].state \in Open \ {"UNKNOWN"}
    /\ idem[k].token = None \/ idem[k].lease + d <= 0

CanTakeOver(k, r, d) ==
    /\ ~Vacant(k, d)
    /\ idem[k].request = r
    /\ idem[k].state \in Open
    /\ idem[k].token = None \/ idem[k].lease + d <= 0

\* DELETE of an expired row, if there is one, and INSERT of a CLAIMED row.
ClaimFresh(k, r, tok, d) ==
    /\ Vacant(k, d)
    /\ idem' = [idem EXCEPT ![k] =
                    [NoRow EXCEPT !.request = r, !.state = "CLAIMED", !.token = tok,
                                  !.lease = Lease - d, !.expires = Ttl - d]]
    /\ recycled' = recycled \cup {x \in {k} : idem[x].state # "ABSENT"}
    /\ UNCHANGED records

\* Mutant of ClaimTakeover: the row starts over and forgets what was prepared.
ClaimTakeoverResets(k, r, tok, d) ==
    /\ CanTakeOver(k, r, d)
    /\ idem' = [idem EXCEPT ![k] =
                    [NoRow EXCEPT !.request = r, !.state = "CLAIMED", !.token = tok,
                                  !.lease = Lease - d, !.expires = Ttl - d]]
    /\ UNCHANGED <<records, recycled>>

\* The lease lapsed: the new token fences the previous owner; the state and
\* the prepared transaction stay.
ClaimTakeover(k, r, tok, d) ==
    /\ CanTakeOver(k, r, d)
    /\ idem' = [idem EXCEPT ![k].token = tok,
                            ![k].lease = Lease - d,
                            ![k].expires = Ttl - d]
    /\ UNCHANGED <<records, recycled>>

\* uuid4: no running request and no row has this token.
Unissued(tok) == tok \notin held /\ \A k \in Keys : idem[k].token # tok

Claim(k, r, tok, d) ==
    /\ Unissued(tok)
    /\ ClaimFresh(k, r, tok, d) \/ ClaimTakeover(k, r, tok, d)

-----------------------------------------------------------------------------
(* The methods a token gives access to *)

CanStoreResponse(k, r, tok) ==
    idem[k].token = tok /\ idem[k].request = r /\ idem[k].state \notin Final

\* Mutant of StoreResponse: the token stays in the settled row.
StoreResponseKeepsToken(k, r, tok, d, reply) ==
    /\ CanStoreResponse(k, r, tok)
    /\ idem' = [idem EXCEPT ![k].state = "SUCCEEDED",
                            ![k].reply = reply,
                            ![k].expires = Ttl - d,
                            ![k].lease = Past]
    /\ UNCHANGED <<records, recycled>>

StoreResponse(k, r, tok, d, reply) ==
    /\ CanStoreResponse(k, r, tok)
    /\ idem' = [idem EXCEPT ![k].state = "SUCCEEDED",
                            ![k].reply = reply,
                            ![k].expires = Ttl - d,
                            ![k].lease = Past,
                            ![k].token = None]
    /\ UNCHANGED <<records, recycled>>

\* save_prepared_broadcast returns the transaction saved before, if any.
AlreadySaved(k, r, tok) ==
    idem[k].token = tok /\ idem[k].request = r /\ idem[k].prepared # 0

CanSavePrepared(k, r, tok) ==
    /\ idem[k].token = tok
    /\ idem[k].request = r
    /\ idem[k].prepared = 0
    /\ idem[k].state = "CLAIMED"

SavePrepared(k, r, tok, t, d) ==
    /\ CanSavePrepared(k, r, tok)
    /\ records' = Append(records, [kind |-> "broadcast", key |-> k, request |-> r,
                                   psbt |-> t, tx |-> t, status |-> "prepared"])
    /\ idem' = [idem EXCEPT ![k].state = "PREPARED",
                            ![k].prepared = Len(records) + 1,
                            ![k].payhash = t,
                            ![k].lease = Lease - d]
    /\ UNCHANGED recycled

\* load_prepared_broadcast checks the key and the request, not the token.
LoadPrepared(k, r) == IF idem[k].request = r THEN idem[k].prepared ELSE 0

\* Mutant of SetStatus: the newest record is updated, not the row's own.
SetStatusOfLast(k, status) ==
    records' = IF records # <<>>
               THEN [records EXCEPT ![Len(records)].status = status]
               ELSE records

\* UPDATE transaction_records ... WHERE id = the row's prepared_record_id.
SetStatus(k, status) ==
    records' = IF idem[k].prepared \in DOMAIN records
               THEN [records EXCEPT ![idem[k].prepared].status = status]
               ELSE records

CanMarkBroadcast(k, tok, t) ==
    /\ idem[k].token = tok
    /\ idem[k].payhash = t
    /\ idem[k].state \in {"PREPARED", "UNKNOWN", "BROADCAST"}

MarkBroadcast(k, tok, t, d) ==
    /\ CanMarkBroadcast(k, tok, t)
    /\ idem' = [idem EXCEPT ![k].state = "BROADCAST", ![k].lease = Lease - d]
    /\ SetStatus(k, "broadcast")
    /\ UNCHANGED recycled

CanMarkUnknown(k, tok, t) ==
    /\ idem[k].token = tok
    /\ idem[k].payhash = t
    /\ idem[k].state \in {"PREPARED", "BROADCAST", "UNKNOWN"}

\* The record keeps its status: only the row says that the fate is open.
MarkUnknown(k, tok, t, d) ==
    /\ CanMarkUnknown(k, tok, t)
    /\ idem' = [idem EXCEPT ![k].state = "UNKNOWN", ![k].lease = Lease - d]
    /\ UNCHANGED <<records, recycled>>

CanMarkFailed(k, tok) == idem[k].token = tok /\ idem[k].state = "CLAIMED"

\* Settling as failed does not extend expires_at, unlike store_response.
Fail(k) ==
    idem' = [idem EXCEPT ![k].state = "FAILED_FINAL",
                         ![k].reply = Rejected,
                         ![k].lease = Past,
                         ![k].token = None]

MarkFailed(k, tok) ==
    /\ CanMarkFailed(k, tok)
    /\ Fail(k)
    /\ UNCHANGED <<records, recycled>>

CanMarkPreparedFailed(k, tok) ==
    idem[k].token = tok /\ idem[k].state \in {"PREPARED", "UNKNOWN"}

\* Mutant of MarkPreparedFailed: the second UPDATE is forgotten.
MarkPreparedFailedRowOnly(k, tok) ==
    CanMarkPreparedFailed(k, tok) /\ Fail(k) /\ UNCHANGED <<records, recycled>>

MarkPreparedFailed(k, tok) ==
    /\ CanMarkPreparedFailed(k, tok)
    /\ Fail(k)
    /\ SetStatus(k, "rejected")
    /\ UNCHANGED recycled

CanHeartbeat(k, tok) == idem[k].token = tok /\ idem[k].state \in Open

\* Mutant of HeartbeatClaim: the lease is added to what is left of the last one.
HeartbeatClaimAdds(k, tok, d) ==
    /\ CanHeartbeat(k, tok)
    /\ idem' = [idem EXCEPT ![k].lease = idem[k].lease + Lease - d]
    /\ UNCHANGED <<records, recycled>>

\* Only the lease is renewed, never expires_at.
HeartbeatClaim(k, tok, d) ==
    /\ CanHeartbeat(k, tok)
    /\ idem' = [idem EXCEPT ![k].lease = Lease - d]
    /\ UNCHANGED <<records, recycled>>

\* record_transaction, as create_psbt calls it: t names the PSBT.
RecordPsbt(k, r, t) ==
    /\ records' = Append(records, [kind |-> "psbt", key |-> k, request |-> r,
                                   psbt |-> t, tx |-> None, status |-> "created"])
    /\ UNCHANGED <<idem, recycled>>

-----------------------------------------------------------------------------
(* Housekeeping and time *)

Expired(k, d) == idem[k].state # "ABSENT" /\ idem[k].expires + d <= 0

PruneExpired(d) ==
    /\ \E k \in Keys : Expired(k, d)
    /\ idem' = [k \in Keys |-> IF Expired(k, d) THEN NoRow ELSE idem[k]]
    /\ recycled' = recycled \cup {k \in Keys : Expired(k, d)}
    /\ UNCHANGED <<records, held>>

Less(n) == IF n > Past THEN n - 1 ELSE n

\* A second passes.
Tick ==
    /\ \E k \in Keys : idem[k].lease > Past \/ idem[k].expires > Past
    /\ idem' = [k \in Keys |-> [idem[k] EXCEPT !.lease = Less(@), !.expires = Less(@)]]
    /\ UNCHANGED <<records, recycled, held>>

-----------------------------------------------------------------------------
(* The most general client *)

StoreInit ==
    /\ idem = [k \in Keys |-> NoRow]
    /\ records = <<>>
    /\ recycled = {}
    /\ held = {}

\* A request that makes its last call gives up its token with it.
Keeps(tok) == held' = held \/ held' = held \ {tok}

Psbts == {i \in DOMAIN records : records[i].kind = "psbt"}

Owned(k, tok, d) ==
    \/ \E r \in Requests :
        \/ \E reply \in {Ok(t) : t \in TxIds \cup {None}} : StoreResponse(k, r, tok, d, reply)
        \/ \E t \in TxIds \ Recorded : SavePrepared(k, r, tok, t, d)
        \/ Cardinality(Psbts) < MaxPsbt /\ \E t \in TxIds : RecordPsbt(k, r, t)
    \/ \E t \in TxIds : MarkBroadcast(k, tok, t, d) \/ MarkUnknown(k, tok, t, d)
    \/ MarkFailed(k, tok)
    \/ MarkPreparedFailed(k, tok)
    \/ HeartbeatClaim(k, tok, d)

\* create_psbt without an Idempotency-Key: nothing is claimed.
Keyless(r, t) ==
    /\ Cardinality(Psbts) < MaxPsbt
    /\ RecordPsbt(None, r, t)
    /\ UNCHANGED held

\* A request ends, or its process dies, with its token in hand.
Release(tok) ==
    /\ held' = held \ {tok}
    /\ UNCHANGED <<idem, records, recycled>>

StoreNext ==
    \/ \E k \in Keys, r \in Requests, tok \in Tokens, d \in 0..Lag :
           Claim(k, r, tok, d) /\ held' = held \cup {tok}
    \/ \E k \in Keys, tok \in held, d \in 0..Lag : Owned(k, tok, d) /\ Keeps(tok)
    \/ \E tok \in held : Release(tok)
    \/ \E r \in Requests, t \in TxIds : Keyless(r, t)
    \/ \E d \in 0..Lag : PruneExpired(d)
    \/ Tick

StoreSpec == StoreInit /\ [][StoreNext]_storeVars

-----------------------------------------------------------------------------
(* Properties *)

\* The columns and the ids hold what the schema and the code put there.
StoreTypeOK ==
    /\ idem \in [Keys -> Row]
    /\ records \in Seq(Record)
    /\ recycled \subseteq Keys
    /\ held \subseteq Tokens

\* A row is open exactly while some claim owns it: a settled row has no token
\* that a late worker could still use, and an open one always has an owner
\* whose lease decides when the next claim may take over.
OneOwner ==
    /\ \A k \in Keys : idem[k].state \in Open <=> idem[k].token # None
    /\ \A j, k \in Keys : idem[j].token = idem[k].token /\ idem[k].token # None => j = k

\* What the status of the prepared record may be, given the row's state.  The
\* store lets a claim be answered 2xx without the broadcast being marked.
StatusFor(state) ==
    CASE state = "PREPARED"     -> {"prepared"}
      [] state = "BROADCAST"    -> {"broadcast"}
      [] state = "UNKNOWN"      -> {"prepared", "broadcast"}
      [] state = "SUCCEEDED"    -> {"prepared", "broadcast"}
      [] state = "FAILED_FINAL" -> {"rejected"}
      [] OTHER                  -> {}

Agrees(k, row, recs) ==
    /\ row.prepared # 0 =>
        /\ row.prepared \in DOMAIN recs
        /\ recs[row.prepared].kind = "broadcast"
        /\ recs[row.prepared].key = k
        /\ recs[row.prepared].request = row.request
        /\ recs[row.prepared].tx = row.payhash
        /\ row.payhash # None
        /\ recs[row.prepared].status \in StatusFor(row.state)
    /\ row.state \in {"PREPARED", "BROADCAST", "UNKNOWN"} => row.prepared # 0
    /\ row.state \in {"ABSENT", "CLAIMED"} => row.prepared = 0

\* The two tables never disagree: a row that names a prepared record names a
\* broadcast record of its own key, request and txid, with the status that
\* fits the row's state, so load_prepared_broadcast never finds the
\* PREPARED_BROADCAST_CORRUPT that it checks for; and a row in one of the
\* states of a prepared transaction does name one.
TablesAgree == \A k \in Keys : Agrees(k, idem[k], records)

\* The inductive invariant of the store: each part relies on the others.
StoreInv == StoreTypeOK /\ OneOwner /\ TablesAgree

LiveClaimStep ==
    \A k \in Keys :
        idem[k].token # None /\ idem[k].lease > 0 /\ idem[k].expires > 0
            => \/ idem'[k].token = idem[k].token
               \/ idem'[k].token = None /\ idem'[k].state \in Final

\* A claim whose lease and row are both unexpired is never displaced: only its
\* own holder ends it, by settling the row.
LiveClaimKept == [][LiveClaimStep]_storeVars

KeyStep ==
    \A k \in Keys :
        idem[k].state # "ABSENT" /\ idem[k].expires > 0 =>
            /\ idem'[k].request = idem[k].request
            /\ idem[k].prepared # 0 => idem'[k].prepared = idem[k].prepared
            /\ idem[k].state \in Final =>
                   /\ idem'[k].state = idem[k].state
                   /\ idem'[k].reply = idem[k].reply

\* Until its row expires a key keeps the request, the prepared transaction and,
\* once settled, the answer that it has.
KeyKept == [][KeyStep]_storeVars

\* How a record's status may move; a rejected one is never revived.
StatusMoves(status) ==
    CASE status = "prepared"  -> {"prepared", "broadcast", "rejected"}
      [] status = "broadcast" -> {"broadcast", "rejected"}
      [] OTHER                -> {status}

RecordsStep ==
    \A i \in DOMAIN records :
        /\ i \in DOMAIN records'
        /\ records'[i] = [records[i] EXCEPT !.status = records'[i].status]
        /\ records'[i].status \in StatusMoves(records[i].status)

\* transaction_records is a log: ids are never reused, a record changes only in
\* its status, and only a prepared transaction's status ever moves.
RecordsKept == [][RecordsStep]_storeVars

=============================================================================
