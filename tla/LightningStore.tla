---------------------------- MODULE LightningStore ----------------------------
(***************************************************************************)
(* The idempotency table of the Lightning adapter: CohesionStore of        *)
(* lightning_flask/src/infra/cohesion.py, one SQLite row per               *)
(* Idempotency-Key, read and written by every worker of every process.     *)
(*                                                                         *)
(*   idem   the rows; a row is never deleted, unlike BitcoinStore's        *)
(*   held   the claim tokens in the hands of running requests              *)
(*                                                                         *)
(* Every writing method is one UPDATE, or one transaction, hence one step: *)
(* an operator with its effect beside a predicate that says when its WHERE *)
(* clause matches; when it does not, the method raises and changes         *)
(* nothing.  LightningStoreSpec is the most general client.                *)
(*                                                                         *)
(* Time is kept as in BitcoinStore: a lease is what is left of it, Tick    *)
(* takes a unit away, and a method's clock reading may be d <= Lag units   *)
(* old when its statement runs.  created_at is kept as the age of the row, *)
(* not counted above MaxAge, where all rows count as equally old.          *)
(***************************************************************************)
EXTENDS Integers, FiniteSets

CONSTANTS
    Keys,      \* namespaced Idempotency-Keys
    Requests,  \* request fingerprints
    Tokens,    \* uuid4 claim tokens
    Hashes,    \* payment hashes
    Replies,   \* (response_json, status_code) pairs
    None,      \* SQL NULL
    Lease,     \* claim_lease_seconds
    Lag,       \* the most a clock reading lags its statement
    MaxAge     \* bound: the oldest age that is told apart

ASSUME LightningTimeAssumption ==
    /\ Lease \in Nat \ {0}
    /\ Lag \in Nat
    /\ MaxAge \in Nat
    /\ Lag <= Lease
    /\ Lag <= MaxAge

ASSUME LightningNoneAssumption ==
    None \notin Keys \cup Requests \cup Tokens \cup Hashes \cup Replies

VARIABLES idem, held

storeVars == <<idem, held>>

-----------------------------------------------------------------------------
(* Rows *)

Past == -Lag

Final == {"SUCCEEDED", "FAILED_FINAL"}
Open  == {"CLAIMED", "SUBMITTED", "UNKNOWN"}

Row == [request : Requests \cup {None},
        state   : {"ABSENT"} \cup Open \cup Final,
        token   : Tokens \cup {None},
        lease   : Past..Lease,
        age     : 0..MaxAge,
        payhash : Hashes \cup {None},
        reply   : Replies \cup {None}]

\* No row under this key.
NoRow == [request |-> None, state |-> "ABSENT", token |-> None,
          lease |-> Past, age |-> 0, payhash |-> None, reply |-> None]

-----------------------------------------------------------------------------
(* claim_idempotent *)

CanReplay(k, r) == idem[k].request = r /\ idem[k].state \in Final

\* Mutant of CanTakeOver: the lease is not looked at.
CanTakeOverAnytime(k, r, d) == idem[k].request = r /\ idem[k].state \in Open

CanTakeOver(k, r, d) ==
    /\ idem[k].request = r
    /\ idem[k].state \in Open
    /\ idem[k].token = None \/ idem[k].lease + d <= 0

\* INSERT of a CLAIMED row; h is None for a request that pays nothing.
ClaimFresh(k, r, tok, h, d) ==
    /\ idem[k].state = "ABSENT"
    /\ idem' = [idem EXCEPT ![k] =
                    [request |-> r, state |-> "CLAIMED", token |-> tok,
                     lease |-> Lease - d, age |-> d, payhash |-> h, reply |-> None]]

\* Mutant of ClaimTakeover: the new owner starts the request over.
ClaimTakeoverRestarts(k, r, tok, d) ==
    /\ CanTakeOver(k, r, d)
    /\ idem' = [idem EXCEPT ![k].state = "CLAIMED",
                            ![k].token = tok,
                            ![k].lease = Lease - d]

\* The lease lapsed: the new token fences the previous owner; what the row says
\* about the payment stays.
ClaimTakeover(k, r, tok, d) ==
    /\ CanTakeOver(k, r, d)
    /\ idem' = [idem EXCEPT ![k].token = tok, ![k].lease = Lease - d]

\* uuid4: no running request and no row has this token.
Unissued(tok) == tok \notin held /\ \A k \in Keys : idem[k].token # tok

Claim(k, r, tok, h, d) ==
    /\ Unissued(tok)
    /\ ClaimFresh(k, r, tok, h, d) \/ ClaimTakeover(k, r, tok, d)

\* Another request under the key, or a live claim: a 409.
Refused(k, r, d) ==
    /\ idem[k].state # "ABSENT"
    /\ ~CanReplay(k, r)
    /\ ~CanTakeOver(k, r, d)

-----------------------------------------------------------------------------
(* The methods a token gives access to *)

Owns(k, r, tok, states) ==
    idem[k].token = tok /\ idem[k].request = r /\ idem[k].state \in states

Settle(k, state, reply) ==
    idem' = [idem EXCEPT ![k].state = state,
                         ![k].reply = reply,
                         ![k].token = None,
                         ![k].lease = Past]

SaveIdempotent(k, r, tok, reply) ==
    Owns(k, r, tok, Open) /\ Settle(k, "SUCCEEDED", reply)

MarkFailed(k, r, tok, reply) ==
    Owns(k, r, tok, Open) /\ Settle(k, "FAILED_FINAL", reply)

\* Mutant of MarkSubmitted: the lease is added to what is left of the last one.
MarkSubmittedAdds(k, r, tok, h, d) ==
    /\ Owns(k, r, tok, {"CLAIMED"})
    /\ idem' = [idem EXCEPT ![k].state = "SUBMITTED",
                            ![k].payhash = h,
                            ![k].lease = idem[k].lease + Lease - d]

MarkSubmitted(k, r, tok, h, d) ==
    /\ Owns(k, r, tok, {"CLAIMED"})
    /\ idem' = [idem EXCEPT ![k].state = "SUBMITTED",
                            ![k].payhash = h,
                            ![k].lease = Lease - d]

\* Mutant of MarkUnknown: the claim is given up with the outcome open.
MarkUnknownReleases(k, r, tok, h, d) ==
    /\ Owns(k, r, tok, {"SUBMITTED", "UNKNOWN"})
    /\ idem' = [idem EXCEPT ![k].state = "UNKNOWN",
                            ![k].payhash = h,
                            ![k].token = None,
                            ![k].lease = Past]

\* The token stays: until the lease lapses a retry is told "in progress".
MarkUnknown(k, r, tok, h, d) ==
    /\ Owns(k, r, tok, {"SUBMITTED", "UNKNOWN"})
    /\ idem' = [idem EXCEPT ![k].state = "UNKNOWN",
                            ![k].payhash = h,
                            ![k].lease = Lease - d]

\* No handler calls it.
HeartbeatClaim(k, r, tok, d) ==
    /\ Owns(k, r, tok, Open)
    /\ idem' = [idem EXCEPT ![k].lease = Lease - d]

-----------------------------------------------------------------------------
(* query_payment_by_hash *)

WithHash(h) == {k \in Keys : idem[k].payhash = h}

\* The rows the query may return: ORDER BY created_at DESC, whole seconds.
Newest(h) == {k \in WithHash(h) : \A j \in WithHash(h) : idem[k].age <= idem[j].age}

-----------------------------------------------------------------------------
(* Time and the most general client *)

Less(n) == IF n > Past THEN n - 1 ELSE n
Older(row) == IF row.state # "ABSENT" /\ row.age < MaxAge THEN row.age + 1 ELSE row.age

\* A second passes.
Tick ==
    /\ \E k \in Keys : idem[k].lease > Past \/ Older(idem[k]) # idem[k].age
    /\ idem' = [k \in Keys |-> [idem[k] EXCEPT !.lease = Less(@), !.age = Older(idem[k])]]
    /\ UNCHANGED held

StoreInit == idem = [k \in Keys |-> NoRow] /\ held = {}

\* A request that makes its last call gives up its token with it.
Keeps(tok) == held' = held \/ held' = held \ {tok}

Owned(k, r, tok, d) ==
    \/ \E reply \in Replies : SaveIdempotent(k, r, tok, reply) \/ MarkFailed(k, r, tok, reply)
    \/ \E h \in Hashes : MarkSubmitted(k, r, tok, h, d) \/ MarkUnknown(k, r, tok, h, d)
    \/ HeartbeatClaim(k, r, tok, d)

\* A request ends, or its process dies, with its token in hand.
Release(tok) == held' = held \ {tok} /\ UNCHANGED idem

StoreNext ==
    \/ \E k \in Keys, r \in Requests, tok \in Tokens, h \in Hashes \cup {None}, d \in 0..Lag :
           Claim(k, r, tok, h, d) /\ held' = held \cup {tok}
    \/ \E k \in Keys, r \in Requests, tok \in held, d \in 0..Lag :
           Owned(k, r, tok, d) /\ Keeps(tok)
    \/ \E tok \in held : Release(tok)
    \/ Tick

LightningStoreSpec == StoreInit /\ [][StoreNext]_storeVars

-----------------------------------------------------------------------------
(* Properties *)

StoreTypeOK == idem \in [Keys -> Row] /\ held \subseteq Tokens

\* A row is open exactly while one claim owns it, so that a settled row has no
\* token that a late worker could still use and an open one can be taken over
\* only when its owner's lease lapses; and while the outcome of a payment is
\* open, the row names it, so that a retry can ask LND about it.
OneOwner ==
    /\ \A k \in Keys : idem[k].state \in Open <=> idem[k].token # None
    /\ \A j, k \in Keys : idem[j].token = idem[k].token /\ idem[k].token # None => j = k
    /\ \A k \in Keys : idem[k].state \in {"SUBMITTED", "UNKNOWN"} => idem[k].payhash # None

\* The inductive invariant of the table.
StoreInv == StoreTypeOK /\ OneOwner

LiveClaimStep ==
    \A k \in Keys :
        idem[k].token # None /\ idem[k].lease > 0
            => \/ idem'[k].token = idem[k].token
               \/ idem'[k].token = None /\ idem'[k].state \in Final

\* A claim whose lease is unexpired is never displaced: only its own holder
\* ends it, by settling the row.
LiveClaimKept == [][LiveClaimStep]_storeVars

\* Where a row may go from a state; nothing leads back to CLAIMED.
Moves(state) ==
    CASE state = "ABSENT"    -> {"ABSENT", "CLAIMED"}
      [] state = "CLAIMED"   -> {"CLAIMED", "SUBMITTED"} \cup Final
      [] state = "SUBMITTED" -> {"SUBMITTED", "UNKNOWN"} \cup Final
      [] state = "UNKNOWN"   -> {"UNKNOWN"} \cup Final
      [] OTHER               -> {state}

KeyStep ==
    \A k \in Keys :
        /\ idem'[k].state \in Moves(idem[k].state)
        /\ idem[k].state # "ABSENT" => idem'[k].request = idem[k].request
        /\ idem[k].state \in Final => idem'[k].reply = idem[k].reply

\* A key is used for one request and only moves forward: once SUBMITTED it is
\* never CLAIMED again (a claim in CLAIMED is a licence to pay), and once
\* settled it keeps its answer for ever.
KeyKept == [][KeyStep]_storeVars

=============================================================================
