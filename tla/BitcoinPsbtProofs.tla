-------------------------- MODULE BitcoinPsbtProofs --------------------------
(***************************************************************************)
(* Proofs about BitcoinPsbt, for all constants: the endpoint is a client   *)
(* of the store, so that what BitcoinStoreProofs shows holds under it, and *)
(* every client of a key is told of one recorded PSBT.                     *)
(***************************************************************************)
EXTENDS BitcoinPsbt, BitcoinStoreProofs

-----------------------------------------------------------------------------
(* The endpoint is a client of the store *)

\* Every step of the endpoint and of its neighbours is a step of the store's
\* client, or leaves the store alone.
LEMMA PsbtStoreStep ==
    ASSUME StoreInv, PostShape, [PsbtNext]_psbtVars
    PROVE  [StoreNext]_storeVars
<1>0. held \subseteq Tokens
  BY DEF StoreInv, StoreTypeOK
<1>1. ASSUME NEW tok \in Tokens, Begin(tok) PROVE StoreNext
  BY <1>1, PsbtRequestsAssumption DEF Begin, StoreNext
<1>2. ASSUME NEW tok, Fund(tok) \/ Replay \/ UNCHANGED psbtVars
      PROVE  UNCHANGED storeVars
  BY <1>2 DEF Fund, Replay, psbtVars
<1>3. ASSUME NEW tok \in Tokens, RecordMade(tok) PROVE StoreNext
  <2>1. /\ tok \in held /\ post[tok].key \in Keys /\ post[tok].request \in Requests
        /\ post[tok].psbt \in TxIds
    BY <1>3, PsbtRequestsAssumption DEF RecordMade, PostShape, At
  <2>2. 0 \in 0..Lag
    BY TimeAssumption
  <2>3. Owned(post[tok].key, tok, 0) /\ Keeps(tok)
    BY <1>3, <2>1 DEF RecordMade, Owned, Keeps
  <2> QED
    BY <2>1, <2>2, <2>3 DEF StoreNext
<1>4. ASSUME NEW tok \in Tokens, Respond(tok) PROVE StoreNext
  <2>1. /\ tok \in held /\ post[tok].key \in Keys /\ post[tok].request \in Requests
        /\ post[tok].psbt \in TxIds \cup {None}
    BY <1>4, PsbtRequestsAssumption DEF Respond, PostShape, At
  <2>2. PICK d \in 0..Lag :
            StoreResponse(post[tok].key, post[tok].request, tok, d, Ok(post[tok].psbt))
    BY <1>4 DEF Respond
  <2>3. Owned(post[tok].key, tok, d) /\ Keeps(tok)
    BY <1>4, <2>1, <2>2 DEF Respond, Finish, Owned, Keeps
  <2> QED
    BY <2>1, <2>3 DEF StoreNext
<1>5. ASSUME NEW tok \in Tokens, LoseClaim(tok) \/ Die(tok) PROVE StoreNext
  <2>1. tok \in held
    BY <1>5 DEF LoseClaim, Die, PostShape, At
  <2>2. Release(tok)
    BY <1>5 DEF LoseClaim, Die, Finish, Release
  <2> QED
    BY <2>1, <2>2 DEF StoreNext
<1>6. ASSUME Elsewhere PROVE StoreNext
  BY <1>6 DEF Elsewhere, StoreNext
<1>7. ASSUME Prune \/ Second PROVE StoreNext
  BY <1>7 DEF Prune, Second, StoreNext
<1>8. ASSUME Unkeyed PROVE StoreNext \/ UNCHANGED storeVars
  BY <1>8, PsbtRequestsAssumption DEF Unkeyed, StoreNext
<1> QED
  BY <1>1, <1>2, <1>3, <1>4, <1>5, <1>6, <1>7, <1>8 DEF PsbtNext

-----------------------------------------------------------------------------
(* What no step loses *)

\* A record of a PSBT stays one.
LEMMA PsbtRecordedKept ==
    ASSUME StoreInv, [StoreNext]_storeVars, NEW k, NEW r, NEW t, PsbtRecorded(k, r, t)
    PROVE  PsbtRecorded(k, r, t)'
<1>1. PICK i \in Psbts : records[i].key = k /\ records[i].request = r /\ records[i].psbt = t
  BY DEF PsbtRecorded
<1>2. i \in DOMAIN records /\ records[i] \in Record /\ records[i].kind = "psbt"
  BY <1>1 DEF Psbts, StoreInv, StoreTypeOK
<1>3. CASE StoreNext
  <2>1. i \in DOMAIN records' /\ records'[i] = [records[i] EXCEPT !.status = records'[i].status]
    BY <1>2, <1>3, RecordsStepHolds DEF RecordsStep
  <2>2. records'[i].kind = "psbt" /\ records'[i].key = k /\ records'[i].request = r
      /\ records'[i].psbt = t
    BY <1>1, <1>2, <2>1 DEF Record
  <2> QED
    BY <2>1, <2>2 DEF PsbtRecorded, Psbts
<1>4. CASE UNCHANGED storeVars
  BY <1>1, <1>4 DEF storeVars, PsbtRecorded, Psbts
<1> QED
  BY <1>3, <1>4

\* The rows keep their requests, and those of this endpoint all that matters.
RowsSteady ==
    \A k \in Keys :
        /\ idem'[k].request = idem[k].request
        /\ idem[k].request \in PsbtRequests =>
               /\ idem'[k].state = idem[k].state
               /\ idem'[k].reply = idem[k].reply
               /\ idem'[k].token = idem[k].token

\* What this keeps, if no token comes and no request ends with its token in hand.
LEMMA SteadyInv ==
    ASSUME PsbtInv, [StoreNext]_storeVars, RowsSteady, made \subseteq made', told' = told,
           held' \subseteq held,
           \A tok \in held' : At(tok, "none")' => At(tok, "none")
    PROVE  OwnEndpoint' /\ SettledWithPsbt' /\ ToldFromRow'
<1>1. OwnEndpoint'
  BY DEF RowsSteady, PsbtInv, OwnEndpoint, At
<1>2. SettledWithPsbt'
  <2> SUFFICES ASSUME NEW k \in Keys, idem'[k].request \in PsbtRequests, idem'[k].state \in Final
               PROVE  /\ idem'[k].reply.tx \in made'
                      /\ PsbtRecorded(k, idem[k].request, idem[k].reply.tx)'
    BY DEF SettledWithPsbt
  <2>1. /\ idem'[k].request = idem[k].request /\ idem'[k].reply = idem[k].reply
        /\ idem[k].request \in PsbtRequests /\ idem[k].state \in Final
    BY DEF RowsSteady
  <2>2. idem[k].reply.tx \in made /\ PsbtRecorded(k, idem[k].request, idem[k].reply.tx)
    BY <2>1 DEF PsbtInv, SettledWithPsbt
  <2>3. PICK r, t : r = idem[k].request /\ t = idem[k].reply.tx
    OBVIOUS
  <2>4. PsbtRecorded(k, r, t)'
    BY <2>2, <2>3, PsbtRecordedKept DEF PsbtInv
  <2> QED
    BY <2>1, <2>2, <2>3, <2>4 DEF PsbtRecorded
<1>3. ToldFromRow'
  <2> SUFFICES ASSUME NEW a \in told
               PROVE  /\ a.key \in Keys /\ a.request \in PsbtRequests
                      /\ idem'[a.key].state \in Final
                      /\ a = Answer(a.key, idem'[a.key].request, idem'[a.key].reply)
    BY DEF ToldFromRow, Answer
  <2>1. /\ a.key \in Keys /\ a.request \in PsbtRequests
        /\ idem[a.key].state \in Final
        /\ a = Answer(a.key, idem[a.key].request, idem[a.key].reply)
    BY DEF PsbtInv, ToldFromRow
  <2>2. idem[a.key].request \in PsbtRequests
    BY <2>1 DEF Answer
  <2> QED
    BY <2>1, <2>2 DEF RowsSteady
<1> QED
  BY <1>1, <1>2, <1>3

\* A request of another endpoint has no token to a row of this one, so whatever
\* it calls leaves those rows alone.
LEMMA OwnedElsewhere ==
    ASSUME StoreInv, OwnEndpoint, NEW k \in Keys, NEW tok \in held, At(tok, "none"),
           NEW d \in 0..Lag, Owned(k, tok, d)
    PROVE  RowsSteady
<1>1. idem \in [Keys -> Row]
  BY DEF StoreInv, StoreTypeOK
<1>2. idem[k].token = tok => idem[k].request \notin PsbtRequests
  BY DEF OwnEndpoint
<1>3. ASSUME idem[k].token = tok, idem'[k].request = idem[k].request,
             \A j \in Keys \ {k} : idem'[j] = idem[j]
      PROVE  RowsSteady
  BY <1>2, <1>3 DEF RowsSteady
<1>4. ASSUME NEW r, NEW reply, StoreResponse(k, r, tok, d, reply) PROVE RowsSteady
  BY <1>1, <1>3, <1>4 DEF StoreResponse, CanStoreResponse, Row
<1>5. ASSUME NEW r, NEW t, SavePrepared(k, r, tok, t, d) PROVE RowsSteady
  BY <1>1, <1>3, <1>5 DEF SavePrepared, CanSavePrepared, Row
<1>6. ASSUME NEW r, NEW t, RecordPsbt(k, r, t) PROVE RowsSteady
  BY <1>6 DEF RecordPsbt, RowsSteady
<1>7. ASSUME NEW t, MarkBroadcast(k, tok, t, d) PROVE RowsSteady
  BY <1>1, <1>3, <1>7 DEF MarkBroadcast, CanMarkBroadcast, Row
<1>8. ASSUME NEW t, MarkUnknown(k, tok, t, d) PROVE RowsSteady
  BY <1>1, <1>3, <1>8 DEF MarkUnknown, CanMarkUnknown, Row
<1>9. ASSUME idem[k].token = tok, Fail(k) PROVE RowsSteady
  BY <1>1, <1>3, <1>9 DEF Fail, Row
<1>10. ASSUME HeartbeatClaim(k, tok, d) PROVE RowsSteady
  BY <1>1, <1>3, <1>10 DEF HeartbeatClaim, CanHeartbeat, Row
<1> QED
  BY <1>4, <1>5, <1>6, <1>7, <1>8, <1>9, <1>10
  DEF Owned, MarkFailed, CanMarkFailed, MarkPreparedFailed, CanMarkPreparedFailed

-----------------------------------------------------------------------------
(* The steps that change a row of this endpoint *)

\* The row that a claim leaves is open, and what its clients were told before is
\* forgotten with the row that it replaces.
LEMMA ClaimPsbt ==
    ASSUME PsbtInv, [StoreNext]_storeVars, NEW k \in Keys, NEW r \in Requests,
           NEW tok \in Tokens, NEW d \in 0..Lag,
           Claim(k, r, tok, d), held' = held \cup {tok}, told' = Surviving(k, d), made' = made,
           r \in PsbtRequests => ~At(tok, "none")',
           \A x \in held : At(x, "none")' => At(x, "none")
    PROVE  OwnEndpoint' /\ SettledWithPsbt' /\ ToldFromRow'
<1>0. idem \in [Keys -> Row]
  BY DEF PsbtInv, StoreInv, StoreTypeOK
<1>1. /\ idem'[k].request = r /\ idem'[k].token = tok /\ idem'[k].state \notin Final
      /\ \A j \in Keys \ {k} : idem'[j] = idem[j]
      /\ idem[k].state \notin Final \/ Vacant(k, d)
      /\ \A j \in Keys : idem[j].token # tok
  <2>1. CASE ClaimFresh(k, r, tok, d)
    BY <1>0, <2>1 DEF ClaimFresh, NoRow, Final, Claim, Unissued
  <2>2. CASE ClaimTakeover(k, r, tok, d)
    BY <1>0, <2>2 DEF ClaimTakeover, CanTakeOver, Row, Open, Final, Claim, Unissued
  <2> QED
    BY <2>1, <2>2 DEF Claim
<1>2. OwnEndpoint'
  <2> SUFFICES ASSUME NEW j \in Keys, idem'[j].request \in PsbtRequests, idem'[j].token \in held'
               PROVE  post'[idem'[j].token].at # "none"
    BY DEF OwnEndpoint, At
  <2>1. CASE j = k
    BY <1>1, <2>1 DEF At
  <2>2. CASE j # k
    <3>1. idem[j].request \in PsbtRequests /\ idem[j].token \in held
      BY <1>1, <2>2
    <3>2. ~At(idem[j].token, "none")
      BY <3>1 DEF PsbtInv, OwnEndpoint
    <3> QED
      BY <1>1, <2>2, <3>1, <3>2 DEF At
  <2> QED
    BY <2>1, <2>2
<1>3. SettledWithPsbt'
  <2> SUFFICES ASSUME NEW j \in Keys, idem'[j].request \in PsbtRequests, idem'[j].state \in Final
               PROVE  /\ idem'[j].reply.tx \in made
                      /\ PsbtRecorded(j, idem[j].request, idem[j].reply.tx)'
                      /\ idem'[j].request = idem[j].request
    BY DEF SettledWithPsbt, PsbtRecorded
  <2>1. idem'[j] = idem[j]
    BY <1>1
  <2>2. idem[j].reply.tx \in made /\ PsbtRecorded(j, idem[j].request, idem[j].reply.tx)
    BY <2>1 DEF PsbtInv, SettledWithPsbt
  <2>3. PICK q, t : q = idem[j].request /\ t = idem[j].reply.tx
    OBVIOUS
  <2>4. PsbtRecorded(j, q, t)'
    BY <2>2, <2>3, PsbtRecordedKept DEF PsbtInv
  <2> QED
    BY <2>1, <2>2, <2>3, <2>4 DEF PsbtRecorded
<1>4. ToldFromRow'
  <2> SUFFICES ASSUME NEW a \in told'
               PROVE  /\ a.key \in Keys /\ a.request \in PsbtRequests
                      /\ idem'[a.key].state \in Final
                      /\ a = Answer(a.key, idem'[a.key].request, idem'[a.key].reply)
    BY DEF ToldFromRow, Answer
  <2>1. a \in told /\ (a.key = k => ~Vacant(k, d))
    BY DEF Surviving
  <2>2. /\ a.key \in Keys /\ a.request \in PsbtRequests /\ idem[a.key].state \in Final
        /\ a = Answer(a.key, idem[a.key].request, idem[a.key].reply)
    BY <2>1 DEF PsbtInv, ToldFromRow
  <2>3. a.key # k
    BY <1>1, <2>1, <2>2
  <2> QED
    BY <1>1, <2>2, <2>3
<1> QED
  BY <1>2, <1>3, <1>4

\* The holder settles its row with the PSBT that was made and recorded for it.
LEMMA RespondPsbt ==
    ASSUME PsbtInv, [StoreNext]_storeVars, NEW tok \in Tokens, Respond(tok)
    PROVE  OwnEndpoint' /\ SettledWithPsbt' /\ ToldFromRow'
<1>0. idem \in [Keys -> Row] /\ held \subseteq Tokens /\ post \in [Tokens -> Post]
  BY DEF PsbtInv, StoreInv, StoreTypeOK, PostShape
<1>1. PICK k, r, t :
        k = post[tok].key /\ r = post[tok].request /\ t = post[tok].psbt
  OBVIOUS
<1>2. k \in Keys /\ r \in PsbtRequests /\ t \in made /\ PsbtRecorded(k, r, t)
  BY <1>1 DEF Respond, PsbtInv, PostShape, At
<1>3. PICK d \in 0..Lag : StoreResponse(k, r, tok, d, Ok(t))
  BY <1>1 DEF Respond
<1>4. /\ told' = told \cup {Answer(k, r, Ok(t))} /\ made' = made
      /\ held' = held \ {tok} /\ post' = [post EXCEPT ![tok] = NoPost]
  BY <1>1 DEF Respond, Finish
<1>5. /\ idem[k].state \notin Final /\ idem[k].request = r
      /\ idem'[k].state \in Final /\ idem'[k].request = r /\ idem'[k].reply = Ok(t)
      /\ idem'[k].token = None
      /\ \A j \in Keys \ {k} : idem'[j] = idem[j]
  BY <1>0, <1>2, <1>3 DEF StoreResponse, CanStoreResponse, Row, Final
<1>6. PsbtRecorded(k, r, t)'
  BY <1>2, PsbtRecordedKept DEF PsbtInv
<1>7. OwnEndpoint'
  <2> SUFFICES ASSUME NEW j \in Keys, idem'[j].request \in PsbtRequests, idem'[j].token \in held'
               PROVE  post'[idem'[j].token].at # "none"
    BY DEF OwnEndpoint, At
  <2>1. j # k
    BY <1>0, <1>4, <1>5, NoneAssumption
  <2>2. idem'[j] = idem[j] /\ idem[j].token \in held \ {tok}
    BY <1>4, <1>5, <2>1
  <2>3. ~At(idem[j].token, "none")
    BY <2>2 DEF PsbtInv, OwnEndpoint
  <2> QED
    BY <1>0, <1>4, <2>2, <2>3 DEF At
<1>8. SettledWithPsbt'
  <2> SUFFICES ASSUME NEW j \in Keys, idem'[j].request \in PsbtRequests, idem'[j].state \in Final
               PROVE  /\ idem'[j].reply.tx \in made
                      /\ PsbtRecorded(j, idem[j].request, idem[j].reply.tx)'
                      /\ idem'[j].request = idem[j].request
    BY <1>4 DEF SettledWithPsbt, PsbtRecorded
  <2>1. CASE j = k
    BY <1>2, <1>5, <1>6, <2>1 DEF Ok, PsbtRecorded
  <2>2. CASE j # k
    <3>1. idem'[j] = idem[j]
      BY <1>5, <2>2
    <3>2. idem[j].reply.tx \in made /\ PsbtRecorded(j, idem[j].request, idem[j].reply.tx)
      BY <3>1 DEF PsbtInv, SettledWithPsbt
    <3>3. PICK q, u : q = idem[j].request /\ u = idem[j].reply.tx
      OBVIOUS
    <3>4. PsbtRecorded(j, q, u)'
      BY <3>2, <3>3, PsbtRecordedKept DEF PsbtInv
    <3> QED
      BY <3>1, <3>2, <3>3, <3>4 DEF PsbtRecorded
  <2> QED
    BY <2>1, <2>2
<1>9. ToldFromRow'
  <2> SUFFICES ASSUME NEW a \in told'
               PROVE  /\ a.key \in Keys /\ a.request \in PsbtRequests
                      /\ idem'[a.key].state \in Final
                      /\ a = Answer(a.key, idem'[a.key].request, idem'[a.key].reply)
    BY DEF ToldFromRow, Answer
  <2>1. CASE a = Answer(k, r, Ok(t))
    BY <1>2, <1>5, <2>1 DEF Answer
  <2>2. CASE a \in told
    <3>1. /\ a.key \in Keys /\ a.request \in PsbtRequests /\ idem[a.key].state \in Final
          /\ a = Answer(a.key, idem[a.key].request, idem[a.key].reply)
      BY <2>2 DEF PsbtInv, ToldFromRow
    <3> QED
      BY <1>5, <3>1
  <2> QED
    BY <1>4, <2>1, <2>2
<1> QED
  BY <1>7, <1>8, <1>9

\* A replay tells what the row holds.
LEMMA ReplayPsbt ==
    ASSUME PsbtInv, Replay
    PROVE  PsbtInv'
<1>1. PICK k \in Keys, r \in PsbtRequests, d \in 0..Lag :
        CanReplay(k, r, d) /\ told' = told \cup {Answer(k, r, idem[k].reply)}
  BY DEF Replay
<1>2. UNCHANGED <<idem, records, recycled, held, post, made>>
  BY DEF Replay, storeVars
<1>3. idem[k].request = r /\ idem[k].state \in Final
  BY <1>1 DEF CanReplay
<1>4. ToldFromRow'
  BY <1>1, <1>2, <1>3 DEF PsbtInv, ToldFromRow, Answer
<1> QED
  BY <1>2, <1>4 DEF PsbtInv, StoreInv, StoreTypeOK, OneOwner, TablesAgree, PostShape, At,
     OwnEndpoint, SettledWithPsbt, PsbtRecorded, Psbts

\* What was told of a deleted row is forgotten with it.
LEMMA PrunePsbt ==
    ASSUME PsbtInv, NEW d \in 0..Lag, PruneExpired(d), UNCHANGED <<post, made>>,
           told' = {a \in told : ~Expired(a.key, d)}
    PROVE  OwnEndpoint' /\ SettledWithPsbt' /\ ToldFromRow'
<1>1. /\ \A k \in Keys : idem'[k] = NoRow \/ idem'[k] = idem[k]
      /\ \A k \in Keys : ~Expired(k, d) => idem'[k] = idem[k]
      /\ UNCHANGED <<records, held>>
  BY DEF PruneExpired
<1>2. NoRow.request \notin PsbtRequests
  BY NoneAssumption, PsbtRequestsAssumption DEF NoRow
<1>3. OwnEndpoint'
  BY <1>1, <1>2 DEF PsbtInv, OwnEndpoint, At
<1>4. SettledWithPsbt'
  BY <1>1, <1>2 DEF PsbtInv, SettledWithPsbt, PsbtRecorded, Psbts
<1>5. ToldFromRow'
  BY <1>1 DEF PsbtInv, ToldFromRow, Answer
<1> QED
  BY <1>3, <1>4, <1>5

-----------------------------------------------------------------------------
(* The requests keep their shape *)

\* The requests that a step does not touch keep theirs, if their tokens stay.
LEMMA ShapeKept ==
    ASSUME PsbtInv, [StoreNext]_storeVars, made \subseteq made', NEW tok \in Tokens,
           ~At(tok, "none"), post'[tok] = post[tok], tok \in held'
    PROVE  /\ tok \in held'
           /\ post'[tok].key \in Keys
           /\ post'[tok].request \in PsbtRequests
           /\ At(tok, "fund")' \/ post'[tok].psbt \in made'
           /\ At(tok, "respond")' => PsbtRecorded(post[tok].key, post[tok].request, post[tok].psbt)'
<1>1. PICK k, r, t : k = post[tok].key /\ r = post[tok].request /\ t = post[tok].psbt
  OBVIOUS
<1>2. /\ post[tok].key \in Keys
      /\ post[tok].request \in PsbtRequests
      /\ At(tok, "fund") \/ post[tok].psbt \in made
      /\ At(tok, "respond") => PsbtRecorded(k, r, t)
  BY <1>1 DEF PsbtInv, PostShape
<1>3. PsbtRecorded(k, r, t) => PsbtRecorded(k, r, t)'
  BY PsbtRecordedKept DEF PsbtInv
<1> QED
  BY <1>1, <1>2, <1>3 DEF At, PsbtRecorded

\* A step that touches one request, or none.
LEMMA ShapeStep ==
    ASSUME PsbtInv, [StoreNext]_storeVars, made \subseteq made', made' \subseteq TxIds,
           NEW tok \in Tokens, NEW p \in Post, post' = [post EXCEPT ![tok] = p],
           \A x \in held \ {tok} : ~At(x, "none") => x \in held',
           p.at # "none" =>
               /\ tok \in held'
               /\ p.key \in Keys
               /\ p.request \in PsbtRequests
               /\ p.at = "fund" \/ p.psbt \in made'
               /\ p.at = "respond" => PsbtRecorded(p.key, p.request, p.psbt)'
    PROVE  PostShape'
<1>0. post \in [Tokens -> Post]
  BY DEF PsbtInv, PostShape
<1>1. /\ post' \in [Tokens -> Post] /\ post'[tok] = p
      /\ \A x \in Tokens \ {tok} : post'[x] = post[x]
  BY <1>0
<1>2. ASSUME NEW x \in Tokens, ~At(x, "none")'
      PROVE  /\ x \in held'
             /\ post'[x].key \in Keys
             /\ post'[x].request \in PsbtRequests
             /\ At(x, "fund")' \/ post'[x].psbt \in made'
             /\ At(x, "respond")' => PsbtRecorded(post[x].key, post[x].request, post[x].psbt)'
  <2>1. CASE x = tok
    BY <1>1, <1>2, <2>1 DEF At, PsbtRecorded
  <2>2. CASE x # tok
    <3>1. post'[x] = post[x] /\ ~At(x, "none")
      BY <1>1, <1>2, <2>2 DEF At
    <3>2. x \in held'
      BY <2>2, <3>1 DEF PsbtInv, PostShape
    <3> QED
      BY <3>1, <3>2, ShapeKept
  <2> QED
    BY <2>1, <2>2
<1> QED
  BY <1>1, <1>2 DEF PostShape

LEMMA ShapeUntouched ==
    ASSUME PsbtInv, [StoreNext]_storeVars, post' = post, made \subseteq made',
           made' \subseteq TxIds,
           \A x \in held : ~At(x, "none") => x \in held'
    PROVE  PostShape'
<1>1. ASSUME NEW x \in Tokens, ~At(x, "none")'
      PROVE  /\ x \in held'
             /\ post'[x].key \in Keys
             /\ post'[x].request \in PsbtRequests
             /\ At(x, "fund")' \/ post'[x].psbt \in made'
             /\ At(x, "respond")' => PsbtRecorded(post[x].key, post[x].request, post[x].psbt)'
  <2>1. post'[x] = post[x] /\ ~At(x, "none")
    BY <1>1 DEF At
  <2>2. x \in held'
    BY <2>1 DEF PsbtInv, PostShape
  <2> QED
    BY <2>1, <2>2, ShapeKept
<1> QED
  BY <1>1 DEF PostShape, PsbtInv

-----------------------------------------------------------------------------
(* Each step of a request *)

\* What a step keeps that leaves the rows and the answers alone, makes nothing
\* forgotten and turns no holder of a token into nobody.
LEMMA RowsUntouched ==
    ASSUME PsbtInv, [StoreNext]_storeVars, UNCHANGED <<idem, told>>, made \subseteq made',
           held' \subseteq held, \A x \in held' : At(x, "none")' => At(x, "none")
    PROVE  OwnEndpoint' /\ SettledWithPsbt' /\ ToldFromRow'
<1>1. RowsSteady
  BY DEF RowsSteady
<1> QED
  BY <1>1, SteadyInv

LEMMA NoPostType == NoPost \in Post /\ NoPost.at = "none"
BY DEF NoPost, Post

LEMMA BeginPsbt ==
    ASSUME PsbtInv, [StoreNext]_storeVars, NEW tok \in Tokens, Begin(tok)
    PROVE  PostShape' /\ OwnEndpoint' /\ SettledWithPsbt' /\ ToldFromRow'
<1>0. post \in [Tokens -> Post] /\ made \subseteq TxIds
  BY DEF PsbtInv, PostShape
<1>1. PICK k \in Keys, r \in PsbtRequests, d \in 0..Lag :
        /\ Claim(k, r, tok, d)
        /\ told' = Surviving(k, d)
        /\ post' = [post EXCEPT ![tok] =
                       [at |-> "fund", key |-> k, request |-> r, psbt |-> None]]
  BY DEF Begin
<1>2. held' = held \cup {tok} /\ made' = made /\ r \in Requests
  BY PsbtRequestsAssumption DEF Begin
<1> DEFINE p == [at |-> "fund", key |-> k, request |-> r, psbt |-> None]
<1>3. p \in Post /\ p.at = "fund" /\ p.key = k /\ p.request = r
  BY <1>2 DEF Post
<1>4. PostShape'
  <2> HIDE DEF p
  <2> QED
    BY <1>0, <1>1, <1>2, <1>3, ShapeStep DEF p
<1>5. ~At(tok, "none")' /\ \A x \in held : At(x, "none")' => At(x, "none")
  BY <1>0, <1>1 DEF At, PsbtInv, StoreInv, StoreTypeOK
<1>6. OwnEndpoint' /\ SettledWithPsbt' /\ ToldFromRow'
  BY <1>1, <1>2, <1>5, ClaimPsbt
<1> QED
  BY <1>4, <1>6

LEMMA FundPsbt ==
    ASSUME PsbtInv, [StoreNext]_storeVars, NEW tok \in Tokens, Fund(tok)
    PROVE  PostShape' /\ OwnEndpoint' /\ SettledWithPsbt' /\ ToldFromRow'
<1>0. post \in [Tokens -> Post] /\ made \subseteq TxIds /\ held \subseteq Tokens
  BY DEF PsbtInv, PostShape, StoreInv, StoreTypeOK
<1>1. PICK t \in TxIds \ made :
        /\ made' = made \cup {t}
        /\ post' = [post EXCEPT ![tok].at = "record", ![tok].psbt = t]
  BY DEF Fund
<1>2. UNCHANGED storeVars /\ told' = told /\ post[tok].at = "fund"
  BY DEF Fund, At
<1>3. PICK p : p = [post[tok] EXCEPT !.at = "record", !.psbt = t]
  OBVIOUS
<1>4. p \in Post /\ p.at = "record" /\ p.psbt = t
      /\ p.key = post[tok].key /\ p.request = post[tok].request
  BY <1>0, <1>3 DEF Post
<1>5. post' = [post EXCEPT ![tok] = p]
  BY <1>0, <1>1, <1>3 DEF Post
<1>6. tok \in held /\ p.key \in Keys /\ p.request \in PsbtRequests
  BY <1>2, <1>4 DEF PsbtInv, PostShape, At
<1>7. held' = held
  BY <1>2 DEF storeVars
<1>8. PostShape'
  BY <1>0, <1>1, <1>4, <1>5, <1>6, <1>7, ShapeStep
<1>9. \A x \in held' : At(x, "none")' => At(x, "none")
  BY <1>0, <1>4, <1>5, <1>7 DEF At
<1> QED
  BY <1>1, <1>2, <1>7, <1>8, <1>9, RowsUntouched DEF storeVars

LEMMA RecordMadePsbt ==
    ASSUME PsbtInv, [StoreNext]_storeVars, NEW tok \in Tokens, RecordMade(tok)
    PROVE  PostShape' /\ OwnEndpoint' /\ SettledWithPsbt' /\ ToldFromRow'
<1>0. /\ post \in [Tokens -> Post] /\ made \subseteq TxIds /\ held \subseteq Tokens
      /\ records \in Seq(Record)
  BY DEF PsbtInv, PostShape, StoreInv, StoreTypeOK
<1>1. /\ post[tok].at = "record"
      /\ post' = [post EXCEPT ![tok].at = "respond"]
      /\ records' = Append(records, [kind |-> "psbt", key |-> post[tok].key,
                                      request |-> post[tok].request,
                                      psbt |-> post[tok].psbt, tx |-> None, status |-> "created"])
      /\ UNCHANGED <<idem, held, made, told>>
  BY DEF RecordMade, At, RecordPsbt
<1>2. tok \in held /\ post[tok].key \in Keys /\ post[tok].request \in PsbtRequests
      /\ post[tok].psbt \in made
  BY <1>1 DEF PsbtInv, PostShape, At
<1>3. PICK p : p = [post[tok] EXCEPT !.at = "respond"]
  OBVIOUS
<1>4. p \in Post /\ p.at = "respond" /\ p.psbt = post[tok].psbt
      /\ p.key = post[tok].key /\ p.request = post[tok].request
  BY <1>0, <1>3 DEF Post
<1>5. post' = [post EXCEPT ![tok] = p]
  BY <1>0, <1>1, <1>3 DEF Post
<1>6. PsbtRecorded(p.key, p.request, p.psbt)'
  <2>1. PICK rec : rec = [kind |-> "psbt", key |-> post[tok].key,
                          request |-> post[tok].request, psbt |-> post[tok].psbt,
                          tx |-> None, status |-> "created"]
    OBVIOUS
  <2>2. rec.kind = "psbt" /\ rec.key = p.key /\ rec.request = p.request
        /\ rec.psbt = p.psbt
    BY <1>4, <2>1
  <2>3. rec \in Record
    BY <1>0, <1>2, <2>1, PsbtRequestsAssumption DEF Record
  <2>4. Len(records) + 1 \in DOMAIN records' /\ records'[Len(records) + 1] = rec
    BY <1>0, <1>1, <2>1, <2>3
  <2>5. PICK i : i \in DOMAIN records' /\ records'[i] = rec
    BY <2>4
  <2> QED
    BY <2>2, <2>5 DEF PsbtRecorded, Psbts
<1>7. PostShape'
  BY <1>0, <1>1, <1>2, <1>4, <1>5, <1>6, ShapeStep
<1>8. \A x \in held' : At(x, "none")' => At(x, "none")
  BY <1>0, <1>1, <1>4, <1>5 DEF At
<1> QED
  BY <1>1, <1>7, <1>8, RowsUntouched

\* A request that ends, whatever it does to the store.
LEMMA FinishShape ==
    ASSUME PsbtInv, [StoreNext]_storeVars, NEW tok \in Tokens, Finish(tok), made' = made
    PROVE  PostShape'
<1>1. made \subseteq TxIds
  BY DEF PsbtInv, PostShape
<1>2. post' = [post EXCEPT ![tok] = NoPost] /\ held' = held \ {tok}
  BY DEF Finish
<1> QED
  BY <1>1, <1>2, NoPostType, ShapeStep

LEMMA GiveUpPsbt ==
    ASSUME PsbtInv, [StoreNext]_storeVars, NEW tok \in Tokens, LoseClaim(tok) \/ Die(tok)
    PROVE  PostShape' /\ OwnEndpoint' /\ SettledWithPsbt' /\ ToldFromRow'
<1>0. post \in [Tokens -> Post] /\ held \subseteq Tokens
  BY DEF PsbtInv, PostShape, StoreInv, StoreTypeOK
<1>1. Finish(tok) /\ UNCHANGED <<idem, made, told>>
  BY DEF LoseClaim, Die
<1>2. held' \subseteq held /\ \A x \in held' : At(x, "none")' => At(x, "none")
  BY <1>0, <1>1 DEF Finish, At
<1> QED
  BY <1>1, <1>2, FinishShape, RowsUntouched

LEMMA UnkeyedPsbt ==
    ASSUME PsbtInv, [StoreNext]_storeVars, Unkeyed
    PROVE  PostShape' /\ OwnEndpoint' /\ SettledWithPsbt' /\ ToldFromRow'
<1>1. UNCHANGED <<idem, held, post, told>>
  BY DEF Unkeyed, Keyless, RecordPsbt, storeVars
<1>2. made \subseteq made' /\ made' \subseteq TxIds
  BY DEF Unkeyed, PsbtInv, PostShape
<1>3. PostShape'
  BY <1>1, <1>2, ShapeUntouched
<1>4. \A x \in held' : At(x, "none")' => At(x, "none")
  BY <1>1 DEF At
<1> QED
  BY <1>1, <1>2, <1>3, <1>4, RowsUntouched

LEMMA ElsewherePsbt ==
    ASSUME PsbtInv, [StoreNext]_storeVars, Elsewhere
    PROVE  PostShape' /\ OwnEndpoint' /\ SettledWithPsbt' /\ ToldFromRow'
<1>0. /\ UNCHANGED <<post, made>> /\ made \subseteq TxIds
      /\ \A x \in Tokens : At(x, "none")' = At(x, "none")
  BY DEF Elsewhere, At, PsbtInv, PostShape
<1>1. ASSUME NEW k \in Keys, NEW r \in Requests \ PsbtRequests, NEW tok \in Tokens,
             NEW d \in 0..Lag, Claim(k, r, tok, d), held' = held \cup {tok},
             told' = Surviving(k, d)
      PROVE  PostShape' /\ OwnEndpoint' /\ SettledWithPsbt' /\ ToldFromRow'
  <2>1. \A x \in held : At(x, "none")' => At(x, "none")
    BY <1>0 DEF At
  <2>2. OwnEndpoint' /\ SettledWithPsbt' /\ ToldFromRow'
    BY <1>0, <1>1, <2>1, ClaimPsbt
  <2>3. PostShape'
    BY <1>0, <1>1, ShapeUntouched
  <2> QED
    BY <2>2, <2>3
<1>2. ASSUME NEW tok \in held, At(tok, "none"), told' = told,
             Release(tok) \/ \E k \in Keys, d \in 0..Lag : Owned(k, tok, d) /\ Keeps(tok)
      PROVE  PostShape' /\ OwnEndpoint' /\ SettledWithPsbt' /\ ToldFromRow'
  <2>1. held' \subseteq held /\ held \ {tok} \subseteq held'
    BY <1>2 DEF Release, Keeps
  <2>2. PostShape'
    BY <1>0, <1>2, <2>1, ShapeUntouched
  <2>3. RowsSteady
    <3>1. CASE Release(tok)
      BY <3>1 DEF Release, RowsSteady
    <3>2. CASE \E k \in Keys, d \in 0..Lag : Owned(k, tok, d)
      BY <1>2, <3>2, OwnedElsewhere DEF PsbtInv
    <3> QED
      BY <1>2, <3>1, <3>2
  <2>4. \A x \in held' : At(x, "none")' => At(x, "none")
    BY <1>0 DEF At
  <2> QED
    BY <1>0, <1>2, <2>1, <2>2, <2>3, <2>4, SteadyInv
<1> QED
  BY <1>1, <1>2 DEF Elsewhere

LEMMA SecondPsbt ==
    ASSUME PsbtInv, [StoreNext]_storeVars, Second
    PROVE  PostShape' /\ OwnEndpoint' /\ SettledWithPsbt' /\ ToldFromRow'
<1>1. UNCHANGED <<held, post, made, told>> /\ Tick /\ made \subseteq TxIds
  BY DEF Second, Tick, PsbtInv, PostShape
<1>2. RowsSteady
  BY <1>1, TickFields DEF RowsSteady, PsbtInv
<1>3. PostShape'
  BY <1>1, ShapeUntouched
<1>4. \A x \in held' : At(x, "none")' => At(x, "none")
  BY <1>1 DEF At
<1> QED
  BY <1>1, <1>2, <1>3, <1>4, SteadyInv

-----------------------------------------------------------------------------
(* The invariant *)

LEMMA PsbtInitInv == PsbtInit => PsbtInv
<1> SUFFICES ASSUME PsbtInit PROVE PsbtInv
  OBVIOUS
<1>1. StoreInv
  BY StoreInitInv DEF PsbtInit
<1>2. PostShape
  BY NoPostType DEF PsbtInit, PostShape, At
<1>3. \A k \in Keys : idem[k].request \notin PsbtRequests
  BY NoneAssumption, PsbtRequestsAssumption DEF PsbtInit, StoreInit, NoRow
<1> QED
  BY <1>1, <1>2, <1>3 DEF PsbtInit, PsbtInv, OwnEndpoint, SettledWithPsbt, ToldFromRow

LEMMA PsbtStepInv == PsbtInv /\ [PsbtNext]_psbtVars => PsbtInv'
<1> SUFFICES ASSUME PsbtInv, [PsbtNext]_psbtVars PROVE PsbtInv'
  OBVIOUS
<1>1. [StoreNext]_storeVars
  BY PsbtStoreStep DEF PsbtInv
<1>2. StoreInv'
  BY <1>1, StoreStepInv DEF PsbtInv
<1> DEFINE Rest == PostShape' /\ OwnEndpoint' /\ SettledWithPsbt' /\ ToldFromRow'
<1>3. ASSUME NEW tok \in Tokens, Begin(tok) PROVE Rest
  BY <1>1, <1>3, BeginPsbt
<1>4. ASSUME NEW tok \in Tokens, Fund(tok) PROVE Rest
  BY <1>1, <1>4, FundPsbt
<1>5. ASSUME NEW tok \in Tokens, RecordMade(tok) PROVE Rest
  BY <1>1, <1>5, RecordMadePsbt
<1>6. ASSUME NEW tok \in Tokens, Respond(tok) PROVE Rest
  <2>1. Finish(tok) /\ made' = made
    BY <1>6 DEF Respond
  <2> QED
    BY <1>1, <1>6, <2>1, FinishShape, RespondPsbt
<1>7. ASSUME NEW tok \in Tokens, LoseClaim(tok) \/ Die(tok) PROVE Rest
  BY <1>1, <1>7, GiveUpPsbt
<1>8. ASSUME Elsewhere PROVE Rest
  BY <1>1, <1>8, ElsewherePsbt
<1>9. ASSUME Prune PROVE Rest
  <2>1. PICK d \in 0..Lag : PruneExpired(d) /\ told' = {a \in told : ~Expired(a.key, d)}
    BY <1>9 DEF Prune
  <2>2. UNCHANGED <<held, post, made>> /\ made \subseteq TxIds
    BY <1>9, <2>1 DEF Prune, PruneExpired, PsbtInv, PostShape
  <2>3. PostShape'
    BY <1>1, <2>2, ShapeUntouched
  <2> QED
    BY <2>1, <2>2, <2>3, PrunePsbt
<1>10. ASSUME Second PROVE Rest
  BY <1>1, <1>10, SecondPsbt
<1>11. ASSUME UNCHANGED psbtVars PROVE Rest
  BY <1>11 DEF psbtVars, storeVars, PsbtInv, PostShape, At, PsbtRecorded, Psbts,
     OwnEndpoint, SettledWithPsbt, ToldFromRow
<1>12. ASSUME Unkeyed PROVE Rest
  BY <1>1, <1>12, UnkeyedPsbt
<1>13. ASSUME PsbtNext PROVE Rest \/ Replay
  BY <1>3, <1>4, <1>5, <1>6, <1>7, <1>8, <1>9, <1>10, <1>12, <1>13 DEF PsbtNext
<1> QED
  BY <1>2, <1>11, <1>13, ReplayPsbt DEF PsbtInv

\* BitcoinPsbt's invariant: requests, rows, wallet and answers agree, whatever
\* retries, displaced claims, other endpoints, expiry and crashes do.
THEOREM PsbtInvariant == PsbtSpec => []PsbtInv
<1>1. PsbtInit => PsbtInv
  BY PsbtInitInv
<1>2. PsbtInv /\ [PsbtNext]_psbtVars => PsbtInv'
  BY PsbtStepInv
<1> QED
  BY <1>1, <1>2, PTL DEF PsbtSpec

\* Every client of a key that gets a 200 from create_psbt, at once or by a
\* replay, gets the same PSBT, one that the wallet made and that is recorded
\* under that key and request, for any keys, clients, deadlines and clock lag.
THEOREM OnePsbtToldCorrect == PsbtSpec => []OnePsbtTold
<1>1. PsbtInv => OnePsbtTold
  BY DEF PsbtInv, OnePsbtTold, ToldFromRow, SettledWithPsbt, PsbtRecorded, Answer
<1> QED
  BY <1>1, PsbtInvariant, PTL

\* create_psbt and its neighbours are one of the clients that BitcoinStore
\* allows: what is proved of the store for all its clients holds here.
THEOREM PsbtIsStoreClient == PsbtSpec => StoreSpec
<1>1. PsbtInit => StoreInit
  BY DEF PsbtInit
<1>2. PsbtInv /\ [PsbtNext]_psbtVars => [StoreNext]_storeVars
  BY PsbtStoreStep DEF PsbtInv
<1> QED
  BY <1>1, <1>2, PsbtInvariant, PTL DEF PsbtSpec, StoreSpec

=============================================================================
