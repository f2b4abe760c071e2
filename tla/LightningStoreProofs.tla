------------------------- MODULE LightningStoreProofs -------------------------
(***************************************************************************)
(* Proofs about LightningStore, for all constants: StoreInv is inductive,  *)
(* and it keeps live claims, requests and answers as they are.             *)
(***************************************************************************)
EXTENDS LightningStore, TLAPS

\* What is left of a lease just set, or past for every reading, is in range.
LEMMA PastType ==
    /\ Past \in Past..Lease
    /\ \A d \in 0..Lag : Lease - d \in Past..Lease /\ d \in 0..MaxAge
BY LightningTimeAssumption DEF Past

\* The reason why every write keeps StoreInv: one row changes, to a well-formed
\* one that is open just when it has a token, its old one or a new one.
LEMMA RowWritten ==
    ASSUME StoreInv, NEW k \in Keys, NEW row \in Row, idem' = [idem EXCEPT ![k] = row],
           row.state \in Open <=> row.token # None,
           row.state \in {"SUBMITTED", "UNKNOWN"} => row.payhash # None,
           row.token # None => row.token = idem[k].token \/ \A j \in Keys : idem[j].token # row.token,
           held' \subseteq Tokens
    PROVE  StoreInv'
<1>1. /\ idem \in [Keys -> Row]
      /\ idem'[k] = row /\ \A j \in Keys \ {k} : idem'[j] = idem[j]
  BY DEF StoreInv, StoreTypeOK
<1>2. StoreTypeOK'
  BY <1>1 DEF StoreInv, StoreTypeOK
<1>3. \A i, j \in Keys : idem'[i].token = idem'[j].token /\ idem'[i].token # None => i = j
  <2>1. \A j \in Keys \ {k} : idem'[j].token = row.token => row.token = None
    BY <1>1 DEF StoreInv, OneOwner
  <2> QED
    BY <1>1, <2>1 DEF StoreInv, OneOwner
<1> QED
  BY <1>1, <1>2, <1>3 DEF StoreInv, OneOwner

\* A claim: the row it leaves is open and has the new token.
LEMMA ClaimInv ==
    ASSUME StoreInv, NEW k \in Keys, NEW r \in Requests, NEW tok \in Tokens,
           NEW h \in Hashes \cup {None}, NEW d \in 0..Lag,
           Claim(k, r, tok, h, d), held' \subseteq Tokens
    PROVE  StoreInv'
<1>0. /\ idem[k] \in Row /\ tok # None
      /\ \A j \in Keys : idem[j].token # tok
  BY LightningNoneAssumption DEF Claim, Unissued, StoreInv, StoreTypeOK
<1>1. CASE ClaimFresh(k, r, tok, h, d)
  <2> DEFINE row == [request |-> r, state |-> "CLAIMED", token |-> tok,
                     lease |-> Lease - d, age |-> d, payhash |-> h, reply |-> None]
  <2>1. row \in Row
    BY PastType DEF Row, Open
  <2>2. idem' = [idem EXCEPT ![k] = row]
    BY <1>1 DEF ClaimFresh
  <2> QED
    BY <1>0, <2>1, <2>2, RowWritten DEF Open
<1>2. CASE ClaimTakeover(k, r, tok, d)
  <2> DEFINE row == [idem[k] EXCEPT !.token = tok, !.lease = Lease - d]
  <2>1. row \in Row
    BY <1>0, PastType DEF Row
  <2>2. idem' = [idem EXCEPT ![k] = row]
    BY <1>2 DEF ClaimTakeover
  <2>3. row.state = idem[k].state /\ row.token = tok /\ row.payhash = idem[k].payhash
    BY <1>0 DEF Row
  <2>4. row.state \in Open
    BY <1>2, <2>3 DEF ClaimTakeover, CanTakeOver
  <2>5. row.state \in {"SUBMITTED", "UNKNOWN"} => row.payhash # None
    BY <2>3 DEF StoreInv, OneOwner
  <2> QED
    BY <1>0, <2>1, <2>2, <2>3, <2>4, <2>5, RowWritten
<1> QED
  BY <1>1, <1>2 DEF Claim

\* Settling gives up the token.
LEMMA SettleInv ==
    ASSUME StoreInv, NEW k \in Keys, NEW state \in Final, NEW reply \in Replies,
           Settle(k, state, reply), held' \subseteq Tokens
    PROVE  StoreInv'
<1> DEFINE row == [idem[k] EXCEPT !.state = state, !.reply = reply,
                                  !.token = None, !.lease = Past]
<1>1. idem[k] \in Row
  BY DEF StoreInv, StoreTypeOK
<1>2. row \in Row /\ row.state = state /\ row.token = None
  BY <1>1, PastType DEF Row, Final
<1>3. idem' = [idem EXCEPT ![k] = row]
  BY DEF Settle
<1>4. row.state \notin Open
  BY <1>2 DEF Final, Open
<1>5. row.state \notin {"SUBMITTED", "UNKNOWN"}
  BY <1>2 DEF Final
<1> QED
  BY <1>2, <1>3, <1>4, <1>5, RowWritten

\* An owner moves its row on, or renews its lease.
LEMMA RenewInv ==
    ASSUME StoreInv, NEW k \in Keys, NEW d \in 0..Lag, NEW state \in Open,
           NEW h \in Hashes \cup {None}, idem[k].token # None,
           state \in {"SUBMITTED", "UNKNOWN"} => h # None,
           idem' = [idem EXCEPT ![k].state = state, ![k].payhash = h, ![k].lease = Lease - d],
           held' \subseteq Tokens
    PROVE  StoreInv'
<1> DEFINE row == [idem[k] EXCEPT !.state = state, !.payhash = h, !.lease = Lease - d]
<1>1. idem[k] \in Row
  BY DEF StoreInv, StoreTypeOK
<1>2. /\ row \in Row /\ row.state = state /\ row.payhash = h
      /\ row.token = idem[k].token
  BY <1>1, PastType DEF Row
<1>3. idem' = [idem EXCEPT ![k] = row]
  OBVIOUS
<1> QED
  BY <1>2, <1>3, RowWritten

\* Everything a holder of a token may call.
LEMMA OwnedInv ==
    ASSUME StoreInv, NEW k \in Keys, NEW r \in Requests, NEW tok \in Tokens,
           NEW d \in 0..Lag, Owned(k, r, tok, d), held' \subseteq Tokens
    PROVE  StoreInv'
<1>0. /\ idem[k] \in Row /\ tok # None /\ \A h \in Hashes : h # None
      /\ idem \in [Keys -> Row]
  BY LightningNoneAssumption DEF StoreInv, StoreTypeOK
<1>1. ASSUME NEW reply \in Replies, SaveIdempotent(k, r, tok, reply) PROVE StoreInv'
  BY <1>1, SettleInv DEF SaveIdempotent, Final
<1>2. ASSUME NEW reply \in Replies, MarkFailed(k, r, tok, reply) PROVE StoreInv'
  BY <1>2, SettleInv DEF MarkFailed, Final
<1>3. ASSUME NEW h \in Hashes, MarkSubmitted(k, r, tok, h, d) PROVE StoreInv'
  <2>1. /\ idem' = [idem EXCEPT ![k].state = "SUBMITTED", ![k].payhash = h, ![k].lease = Lease - d]
        /\ idem[k].token # None
    BY <1>0, <1>3 DEF MarkSubmitted, Owns
  <2>2. "SUBMITTED" \in Open
    BY DEF Open
  <2> QED
    BY <1>0, <2>1, <2>2, RenewInv
<1>4. ASSUME NEW h \in Hashes, MarkUnknown(k, r, tok, h, d) PROVE StoreInv'
  <2>1. /\ idem' = [idem EXCEPT ![k].state = "UNKNOWN", ![k].payhash = h, ![k].lease = Lease - d]
        /\ idem[k].token # None
    BY <1>0, <1>4 DEF MarkUnknown, Owns
  <2>2. "UNKNOWN" \in Open
    BY DEF Open
  <2> QED
    BY <1>0, <2>1, <2>2, RenewInv
<1>5. CASE HeartbeatClaim(k, r, tok, d)
  <2> DEFINE row == [idem[k] EXCEPT !.lease = Lease - d]
  <2>1. idem' = [idem EXCEPT ![k] = row]
    BY <1>5 DEF HeartbeatClaim
  <2>2. /\ row \in Row /\ row.state = idem[k].state /\ row.payhash = idem[k].payhash
        /\ row.token = idem[k].token
    BY <1>0, PastType DEF Row
  <2>3. /\ row.state \in Open <=> row.token # None
        /\ row.state \in {"SUBMITTED", "UNKNOWN"} => row.payhash # None
    BY <2>2 DEF StoreInv, OneOwner
  <2> QED
    BY <2>1, <2>2, <2>3, RowWritten
<1> QED
  BY <1>1, <1>2, <1>3, <1>4, <1>5 DEF Owned

\* What a second changes: leases and ages.
LEMMA TickFields ==
    ASSUME idem \in [Keys -> Row], Tick
    PROVE  /\ idem' \in [Keys -> Row] /\ held' = held
           /\ \A k \in Keys : /\ idem'[k].request = idem[k].request
                              /\ idem'[k].state = idem[k].state
                              /\ idem'[k].token = idem[k].token
                              /\ idem'[k].payhash = idem[k].payhash
                              /\ idem'[k].reply = idem[k].reply
<1>1. \A k \in Keys : Less(idem[k].lease) \in Past..Lease /\ Older(idem[k]) \in 0..MaxAge
  <2> SUFFICES ASSUME NEW k \in Keys
               PROVE  Less(idem[k].lease) \in Past..Lease /\ Older(idem[k]) \in 0..MaxAge
    OBVIOUS
  <2>1. idem[k].lease \in Past..Lease /\ idem[k].age \in 0..MaxAge
    BY DEF Row
  <2> QED
    BY <2>1, LightningTimeAssumption DEF Less, Older, Past
<1>2. idem' = [k \in Keys |-> [idem[k] EXCEPT !.lease = Less(idem[k].lease),
                                             !.age = Older(idem[k])]]
  BY DEF Tick
<1>3. ASSUME NEW k \in Keys
      PROVE  /\ idem'[k] \in Row
             /\ idem'[k].request = idem[k].request
             /\ idem'[k].state = idem[k].state
             /\ idem'[k].token = idem[k].token
             /\ idem'[k].payhash = idem[k].payhash
             /\ idem'[k].reply = idem[k].reply
  <2> DEFINE row == [idem[k] EXCEPT !.lease = Less(idem[k].lease), !.age = Older(idem[k])]
  <2>1. idem[k] \in Row /\ idem'[k] = row
    BY <1>2
  <2> QED
    BY <1>1, <2>1 DEF Row
<1>4. idem' = [k \in Keys |-> idem'[k]]
  BY <1>2
<1> QED
  BY <1>3, <1>4 DEF Tick

\* Initially there is no row.
LEMMA StoreInitInv == StoreInit => StoreInv
<1> SUFFICES ASSUME StoreInit PROVE StoreInv
  OBVIOUS
<1>1. NoRow \in Row /\ NoRow.state \notin Open \cup {"SUBMITTED", "UNKNOWN"} /\ NoRow.token = None
  BY PastType, LightningTimeAssumption DEF NoRow, Row, Open
<1> QED
  BY <1>1 DEF StoreInit, StoreInv, StoreTypeOK, OneOwner

\* StoreInv is inductive.
LEMMA StoreStepInv == StoreInv /\ [StoreNext]_storeVars => StoreInv'
<1> SUFFICES ASSUME StoreInv, [StoreNext]_storeVars PROVE StoreInv'
  OBVIOUS
<1>0. held \subseteq Tokens /\ idem \in [Keys -> Row]
  BY DEF StoreInv, StoreTypeOK
<1>1. ASSUME NEW k \in Keys, NEW r \in Requests, NEW tok \in Tokens,
             NEW h \in Hashes \cup {None}, NEW d \in 0..Lag,
             Claim(k, r, tok, h, d), held' = held \cup {tok}
      PROVE  StoreInv'
  BY <1>0, <1>1, ClaimInv
<1>2. ASSUME NEW k \in Keys, NEW r \in Requests, NEW tok \in held, NEW d \in 0..Lag,
             Owned(k, r, tok, d), Keeps(tok)
      PROVE  StoreInv'
  <2>1. held' \subseteq Tokens /\ tok \in Tokens
    BY <1>0, <1>2 DEF Keeps
  <2> QED
    BY <1>2, <2>1, OwnedInv
<1>3. ASSUME NEW tok \in held, Release(tok) PROVE StoreInv'
  BY <1>0, <1>3 DEF Release, StoreInv, StoreTypeOK, OneOwner
<1>4. CASE Tick
  BY <1>0, <1>4, TickFields DEF StoreInv, StoreTypeOK, OneOwner
<1>5. CASE UNCHANGED storeVars
  BY <1>5 DEF storeVars, StoreInv, StoreTypeOK, OneOwner
<1> QED
  BY <1>1, <1>2, <1>3, <1>4, <1>5 DEF StoreNext

-----------------------------------------------------------------------------
\* For any client, and any number of keys, requests and tokens: the rows keep
\* their types and their owners.
THEOREM LightningStoreInvariant == LightningStoreSpec => []StoreInv
BY StoreInitInv, StoreStepInv, PTL DEF LightningStoreSpec

\* Its parts: the types ...
THEOREM LightningTypeCorrect == LightningStoreSpec => []StoreTypeOK
<1>1. StoreInv => StoreTypeOK
  BY DEF StoreInv
<1> QED
  BY <1>1, LightningStoreInvariant, PTL

\* ... and the one owner of every open row.
THEOREM LightningOwnerCorrect == LightningStoreSpec => []OneOwner
<1>1. StoreInv => OneOwner
  BY DEF StoreInv
<1> QED
  BY <1>1, LightningStoreInvariant, PTL

-----------------------------------------------------------------------------
\* What a holder of a token does to the rows: it settles its own, or it moves it
\* on and keeps the token.
LEMMA OwnedEffect ==
    ASSUME StoreInv, NEW j \in Keys, NEW r, NEW tok, NEW d, Owned(j, r, tok, d)
    PROVE  /\ \A k \in Keys \ {j} : idem'[k] = idem[k]
           /\ idem[j].state \in Open
           /\ idem'[j].request = idem[j].request
           /\ \/ idem'[j].token = None /\ idem'[j].state \in Final
              \/ /\ idem'[j].token = idem[j].token
                 /\ \/ idem'[j].state = idem[j].state
                    \/ idem[j].state = "CLAIMED" /\ idem'[j].state = "SUBMITTED"
                    \/ idem[j].state = "SUBMITTED" /\ idem'[j].state = "UNKNOWN"
<1>0. idem \in [Keys -> Row] /\ idem[j] \in Row
  BY DEF StoreInv, StoreTypeOK
<1>1. CASE \E reply \in Replies : SaveIdempotent(j, r, tok, reply) \/ MarkFailed(j, r, tok, reply)
  <2>1. PICK reply \in Replies, state \in Final : Owns(j, r, tok, Open) /\ Settle(j, state, reply)
    BY <1>1 DEF SaveIdempotent, MarkFailed, Final
  <2> DEFINE row == [idem[j] EXCEPT !.state = state, !.reply = reply,
                                    !.token = None, !.lease = Past]
  <2>2. idem' = [idem EXCEPT ![j] = row]
    BY <2>1 DEF Settle
  <2>3. row.request = idem[j].request /\ row.token = None /\ row.state = state
    BY <1>0 DEF Row
  <2> QED
    BY <1>0, <2>1, <2>2, <2>3 DEF Owns
<1>2. CASE \E h \in Hashes : MarkSubmitted(j, r, tok, h, d)
  BY <1>0, <1>2 DEF MarkSubmitted, Owns, Open, Row
<1>3. CASE \E h \in Hashes : MarkUnknown(j, r, tok, h, d)
  <2>1. idem[j].state \in {"SUBMITTED", "UNKNOWN"}
    BY <1>3 DEF MarkUnknown, Owns
  <2> QED
    BY <1>0, <1>3, <2>1 DEF MarkUnknown, Open, Row
<1>4. CASE HeartbeatClaim(j, r, tok, d)
  BY <1>0, <1>4 DEF HeartbeatClaim, Owns, Row
<1> QED
  BY <1>1, <1>2, <1>3, <1>4 DEF Owned

\* Who changes the token of a row: a claim that found its lease past, or the
\* holder that settles it.
LEMMA LiveClaimStepHolds == StoreInv /\ StoreNext => LiveClaimStep
<1> SUFFICES ASSUME StoreInv, StoreNext, NEW k \in Keys,
                    idem[k].token # None, idem[k].lease > 0
             PROVE  \/ idem'[k].token = idem[k].token
                    \/ idem'[k].token = None /\ idem'[k].state \in Final
  BY DEF LiveClaimStep
<1>0. /\ idem \in [Keys -> Row] /\ idem[k] \in Row
      /\ idem[k].lease \in Int /\ idem[k].state \in Open
  BY LightningTimeAssumption DEF StoreInv, StoreTypeOK, OneOwner, Row, Past
<1>1. ASSUME NEW j \in Keys, NEW r \in Requests, NEW tok \in Tokens,
             NEW h \in Hashes \cup {None}, NEW d \in 0..Lag, Claim(j, r, tok, h, d)
      PROVE  idem'[k].token = idem[k].token
  BY <1>0, <1>1, LightningTimeAssumption DEF Claim, ClaimFresh, ClaimTakeover, CanTakeOver, Open
<1>2. ASSUME NEW j \in Keys, NEW r \in Requests, NEW tok \in held, NEW d \in 0..Lag,
             Owned(j, r, tok, d)
      PROVE  \/ idem'[k].token = idem[k].token
             \/ idem'[k].token = None /\ idem'[k].state \in Final
  BY <1>2, OwnedEffect
<1>3. ASSUME NEW tok \in held, Release(tok) PROVE idem'[k].token = idem[k].token
  BY <1>3 DEF Release
<1>4. CASE Tick
  BY <1>0, <1>4, TickFields
<1> QED
  BY <1>1, <1>2, <1>3, <1>4 DEF StoreNext

\* No claim is displaced before its lease lapses.
THEOREM LightningLiveClaims == LightningStoreSpec => LiveClaimKept
<1>1. StoreInv /\ [StoreNext]_storeVars => [LiveClaimStep]_storeVars
  BY LiveClaimStepHolds
<1> QED
  BY <1>1, LightningStoreInvariant, PTL DEF LightningStoreSpec, LiveClaimKept

\* Moves, case by case.
LEMMA MovesOn ==
    /\ \A s \in Open : {s} \cup Final \subseteq Moves(s)
    /\ "CLAIMED" \in Moves("ABSENT")
    /\ "SUBMITTED" \in Moves("CLAIMED")
    /\ "UNKNOWN" \in Moves("SUBMITTED")
<1>1. Moves("ABSENT") = {"ABSENT", "CLAIMED"}
  BY DEF Moves
<1>2. Moves("CLAIMED") = {"CLAIMED", "SUBMITTED"} \cup Final
  BY DEF Moves
<1>3. Moves("SUBMITTED") = {"SUBMITTED", "UNKNOWN"} \cup Final
  BY DEF Moves
<1>4. Moves("UNKNOWN") = {"UNKNOWN"} \cup Final
  BY DEF Moves
<1> QED
  BY <1>1, <1>2, <1>3, <1>4 DEF Open

\* A row may stay in its state.
LEMMA MovesStay == \A s \in {"ABSENT"} \cup Open \cup Final : s \in Moves(s)
<1>1. Moves("SUCCEEDED") = {"SUCCEEDED"} /\ Moves("FAILED_FINAL") = {"FAILED_FINAL"}
  BY DEF Moves
<1>2. "ABSENT" \in Moves("ABSENT")
  BY DEF Moves
<1> QED
  BY <1>1, <1>2, MovesOn DEF Final

\* What every method leaves of a row.
LEMMA KeyStepHolds == StoreInv /\ StoreNext => KeyStep
<1> SUFFICES ASSUME StoreInv, StoreNext, NEW k \in Keys
             PROVE  /\ idem'[k].state \in Moves(idem[k].state)
                    /\ idem[k].state # "ABSENT" => idem'[k].request = idem[k].request
                    /\ idem[k].state \in Final => idem'[k].reply = idem[k].reply
  BY DEF KeyStep
<1> DEFINE Kept == /\ idem'[k].state \in Moves(idem[k].state)
                   /\ idem[k].state # "ABSENT" => idem'[k].request = idem[k].request
                   /\ idem[k].state \in Final => idem'[k].reply = idem[k].reply
<1>0. /\ idem \in [Keys -> Row] /\ idem[k] \in Row
      /\ idem[k].state \in {"ABSENT"} \cup Open \cup Final
  BY DEF StoreInv, StoreTypeOK, Row
<1>1. ASSUME NEW j \in Keys, NEW r \in Requests, NEW tok \in Tokens,
             NEW h \in Hashes \cup {None}, NEW d \in 0..Lag, Claim(j, r, tok, h, d)
      PROVE  Kept
  <2>1. CASE k # j
    <3>1. idem'[k] = idem[k]
      BY <1>0, <1>1, <2>1 DEF Claim, ClaimFresh, ClaimTakeover
    <3> QED
      BY <1>0, <3>1, MovesStay
  <2>2. CASE k = j /\ ClaimFresh(j, r, tok, h, d)
    <3>1. idem[k].state = "ABSENT" /\ idem'[k].state = "CLAIMED"
      BY <1>0, <2>2 DEF ClaimFresh
    <3>2. "ABSENT" \notin Final
      BY DEF Final
    <3> QED
      BY <3>1, <3>2, MovesOn
  <2>3. CASE k = j /\ ClaimTakeover(j, r, tok, d)
    <3>1. /\ idem'[k].state = idem[k].state /\ idem'[k].request = idem[k].request
          /\ idem'[k].reply = idem[k].reply
      BY <1>0, <2>3 DEF ClaimTakeover, Row
    <3> QED
      BY <1>0, <3>1, MovesStay
  <2> QED
    BY <1>1, <2>1, <2>2, <2>3 DEF Claim
<1>2. ASSUME NEW j \in Keys, NEW r \in Requests, NEW tok \in held, NEW d \in 0..Lag,
             Owned(j, r, tok, d)
      PROVE  Kept
  <2>1. CASE k # j
    BY <1>0, <1>2, <2>1, OwnedEffect, MovesStay
  <2>2. CASE k = j
    <3>1. /\ idem[k].state \in Open /\ idem'[k].request = idem[k].request
          /\ \/ idem'[k].state \in Final
             \/ idem'[k].state = idem[k].state
             \/ idem[k].state = "CLAIMED" /\ idem'[k].state = "SUBMITTED"
             \/ idem[k].state = "SUBMITTED" /\ idem'[k].state = "UNKNOWN"
      BY <1>2, <2>2, OwnedEffect
    <3>2. idem[k].state \notin Final
      BY <3>1 DEF Open, Final
    <3>3. idem'[k].state \in Moves(idem[k].state)
      BY <3>1, MovesOn
    <3> QED
      BY <3>1, <3>2, <3>3
  <2> QED
    BY <2>1, <2>2
<1>3. ASSUME NEW tok \in held, Release(tok) PROVE Kept
  BY <1>0, <1>3, MovesStay DEF Release
<1>4. CASE Tick
  BY <1>0, <1>4, TickFields, MovesStay
<1> QED
  BY <1>1, <1>2, <1>3, <1>4 DEF StoreNext

\* A key is used for one request, only moves forward, and keeps its answer.
THEOREM LightningKeys == LightningStoreSpec => KeyKept
<1>1. StoreInv /\ [StoreNext]_storeVars => [KeyStep]_storeVars
  BY KeyStepHolds
<1> QED
  BY <1>1, LightningStoreInvariant, PTL DEF LightningStoreSpec, KeyKept

=============================================================================
