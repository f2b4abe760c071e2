------------------------- MODULE BitcoinLedgerProofs -------------------------
(***************************************************************************)
(* Proof, for all constants, that BitcoinSend implements PaymentLedger,    *)
(* whether or not the node restarts.  Most steps leave alone all that the  *)
(* ledger sees (Unseen); one lemma for each of the others names the action *)
(* of the ledger that it is.                                               *)
(***************************************************************************)
EXTENDS BitcoinSendProofs

-----------------------------------------------------------------------------
(* A row that is not settled has no answer *)

Unanswered == \A k \in Keys : idem[k].state \notin Final => idem[k].reply = NoReply

\* The methods of the store keep it so: an answer comes with its final state.
LEMMA OwnedUnanswered ==
    ASSUME StoreInv, Unanswered, NEW k \in Keys, NEW tok, NEW d \in 0..Lag, Owned(k, tok, d)
    PROVE  Unanswered'
<1>1. idem \in [Keys -> Row]
  BY DEF StoreInv, StoreTypeOK
<1>2. ASSUME NEW r, NEW reply, StoreResponse(k, r, tok, d, reply) PROVE Unanswered'
  BY <1>1, <1>2 DEF StoreResponse, Unanswered, Final, Row
<1>3. ASSUME NEW r, NEW t, SavePrepared(k, r, tok, t, d) PROVE Unanswered'
  <2>1. idem[k].state = "CLAIMED"
    BY <1>3 DEF SavePrepared, CanSavePrepared
  <2>2. idem[k].reply = NoReply
    BY <2>1 DEF Unanswered, Final
  <2>3. \A j \in Keys : idem'[j].reply = idem[j].reply /\ (j # k => idem'[j] = idem[j])
    BY <1>1, <1>3, SavedRow
  <2> QED
    BY <2>2, <2>3 DEF Unanswered
<1>4. ASSUME NEW r, NEW t, RecordPsbt(k, r, t) PROVE Unanswered'
  BY <1>4 DEF RecordPsbt, Unanswered
<1>5. ASSUME NEW t, MarkBroadcast(k, tok, t, d) PROVE Unanswered'
  BY <1>1, <1>5 DEF MarkBroadcast, CanMarkBroadcast, Unanswered, Final, Row
<1>6. ASSUME NEW t, MarkUnknown(k, tok, t, d) PROVE Unanswered'
  BY <1>1, <1>6 DEF MarkUnknown, CanMarkUnknown, Unanswered, Final, Row
<1>7. ASSUME Fail(k) PROVE Unanswered'
  BY <1>1, <1>7 DEF Fail, Unanswered, Final, Row
<1>8. ASSUME HeartbeatClaim(k, tok, d) PROVE Unanswered'
  BY <1>1, <1>8 DEF HeartbeatClaim, Unanswered, Row
<1> QED
  BY <1>2, <1>3, <1>4, <1>5, <1>6, <1>7, <1>8 DEF Owned, MarkFailed, MarkPreparedFailed

\* ... and so does every step of the store's client.
LEMMA UnansweredStep == StoreInv /\ Unanswered /\ [StoreNext]_storeVars => Unanswered'
<1> SUFFICES ASSUME StoreInv, Unanswered, [StoreNext]_storeVars PROVE Unanswered'
  OBVIOUS
<1>1. idem \in [Keys -> Row]
  BY DEF StoreInv, StoreTypeOK
<1>2. ASSUME NEW k \in Keys, NEW r, NEW tok, NEW d, Claim(k, r, tok, d) PROVE Unanswered'
  <2>1. CASE ClaimFresh(k, r, tok, d)
    BY <1>1, <2>1 DEF ClaimFresh, Unanswered, NoRow
  <2>2. CASE ClaimTakeover(k, r, tok, d)
    BY <1>1, <2>2 DEF ClaimTakeover, Unanswered, Row
  <2> QED
    BY <1>2, <2>1, <2>2 DEF Claim
<1>3. ASSUME NEW d, PruneExpired(d) PROVE Unanswered'
  BY <1>3 DEF PruneExpired, Unanswered, NoRow
<1>4. ASSUME Tick PROVE Unanswered'
  BY <1>4, TickFields DEF Unanswered
<1>5. ASSUME UNCHANGED idem PROVE Unanswered'
  BY <1>5 DEF Unanswered
<1> QED
  BY <1>2, <1>3, <1>4, <1>5, OwnedUnanswered
  DEF StoreNext, Release, Keyless, RecordPsbt, storeVars

\* Hence it always holds.
LEMMA UnansweredAlways == RestartSpec => []Unanswered
<1>1. StoreInit => Unanswered
  BY DEF StoreInit, Unanswered, NoRow
<1>2. StoreSpec => []StoreInv
  BY StoreInvariant
<1> QED
  BY <1>1, <1>2, UnansweredStep, RestartIsClient, PTL DEF StoreSpec

-----------------------------------------------------------------------------
(* What the ledger does not see *)

RepliesKept == \A k \in Keys : idem'[k].reply = idem[k].reply

\* Records that keep their transactions leave the same ones issued and chosen.
LEMMA ChosenKept ==
    ASSUME Shape, RowsKept
    PROVE  Recorded' = Recorded /\ \A k \in Keys : ChosenTx(k)' = ChosenTx(k)
<1>1. /\ DOMAIN records' = DOMAIN records
      /\ \A i \in DOMAIN records : records'[i].tx = records[i].tx
      /\ \A k \in Keys : idem'[k].prepared = idem[k].prepared
  BY DEF RowsKept
<1> QED
  BY <1>1 DEF Recorded, ChosenTx

\* Then nothing that the ledger sees has changed.
LEMMA Unseen ==
    ASSUME Shape, RowsKept, RepliesKept, UNCHANGED <<wire, accepted>>
    PROVE  UNCHANGED Ledger!ledgerVars
BY ChosenKept DEF RepliesKept, Ledger!ledgerVars

\* In particular if rows and records are as they were.
LEMMA UnseenStore ==
    ASSUME Shape, UNCHANGED <<idem, records, recycled, wire, accepted>>
    PROVE  UNCHANGED Ledger!ledgerVars
BY RowsSame, Unseen DEF RepliesKept

-----------------------------------------------------------------------------
(* What it sees *)

\* An expired row is deleted: its key is forgotten.
LEMMA BeginLedger ==
    ASSUME Shape, NEW w \in Workers, Begin(w)
    PROVE  Ledger!LedgerNext \/ UNCHANGED Ledger!ledgerVars
<1>1. PICK k \in Keys, r \in Requests, tok \in Tokens, d \in 0..Lag : Claim(k, r, tok, d)
  BY DEF Begin
<1>2. UNCHANGED <<wire, accepted>> /\ idem \in [Keys -> Row] /\ records \in Seq(Record)
  BY DEF Begin, nodeVars, Shape, SendTypeOK, StoreTypeOK
<1>3. CASE ClaimFresh(k, r, tok, d)
  <2>1. /\ records' = records
        /\ idem'[k].prepared = 0 /\ idem'[k].reply = NoReply
        /\ \A j \in Keys \ {k} : idem'[j] = idem[j]
    BY <1>2, <1>3 DEF ClaimFresh, NoRow
  <2>2. Recorded' = Recorded
    BY <2>1 DEF Recorded
  <2>3. ChosenTx(k)' = None /\ \A j \in Keys \ {k} : ChosenTx(j)' = ChosenTx(j)
    BY <1>2, <2>1 DEF ChosenTx
  <2>4. Verdict(NoReply.code) = "none"
    BY DEF Verdict, NoReply
  <2>5. Ledger!Forget(k)
    BY <1>2, <2>1, <2>2, <2>3, <2>4 DEF Ledger!Forget
  <2> QED
    BY <2>5 DEF Ledger!LedgerNext
<1>4. CASE ClaimTakeover(k, r, tok, d)
  <2>1. /\ records' = records
        /\ \A j \in Keys : idem'[j].prepared = idem[j].prepared /\ idem'[j].reply = idem[j].reply
    BY <1>2, <1>4 DEF ClaimTakeover, Row
  <2>2. Recorded' = Recorded /\ \A j \in Keys : ChosenTx(j)' = ChosenTx(j)
    BY <2>1 DEF Recorded, ChosenTx
  <2> QED
    BY <1>2, <2>1, <2>2 DEF Ledger!ledgerVars
<1> QED
  BY <1>1, <1>3, <1>4 DEF Claim

\* The first save under a key decides what it stands for.
LEMMA SaveLedger ==
    ASSUME Shape, NEW w \in Workers, Save(w)
    PROVE  Ledger!LedgerNext
<1>1. pc[w] = "save" /\ UNCHANGED <<wire, accepted>>
  BY DEF Save, Step, nodeVars
<1>2. job[w].key \in Keys /\ job[w].tx \in TxIds \ Recorded
  BY <1>1, Working DEF Shape, FundingPrivate, Funding, Unfunded
<1>3. PICK k \in Keys, t \in TxIds \ Recorded :
          \E r, tok : \E d \in 0..Lag : SavePrepared(k, r, tok, t, d)
  BY <1>2 DEF Save
<1>4. /\ idem \in [Keys -> Row] /\ records \in Seq(Record)
      /\ \A j \in Keys : idem[j].prepared # 0 => idem[j].prepared \in DOMAIN records
  BY DEF Shape, SendTypeOK, StoreTypeOK, TablesAgree, Agrees
<1>5. /\ Len(records) \in Nat /\ DOMAIN records = 1..Len(records)
      /\ DOMAIN records' = 1..Len(records) + 1
      /\ records'[Len(records) + 1].tx = t
      /\ \A i \in DOMAIN records : records'[i] = records[i]
  BY <1>3, <1>4 DEF SavePrepared
<1>6. /\ idem[k].prepared = 0 /\ idem'[k].prepared = Len(records) + 1
      /\ \A j \in Keys \ {k} : idem'[j].prepared = idem[j].prepared
      /\ \A j \in Keys : idem'[j].reply = idem[j].reply
  BY <1>3, <1>4 DEF SavePrepared, CanSavePrepared, Row
<1>7. Recorded' = Recorded \cup {t}
  BY <1>3, <1>5, NoneAssumption DEF Recorded
<1>8. /\ ChosenTx(k) = None /\ ChosenTx(k)' = t
      /\ \A j \in Keys \ {k} : ChosenTx(j)' = ChosenTx(j)
  BY <1>4, <1>5, <1>6 DEF ChosenTx
<1>9. Ledger!Choose(k, t)
  BY <1>1, <1>3, <1>6, <1>7, <1>8 DEF Ledger!Choose
<1> QED
  BY <1>3, <1>9 DEF Ledger!LedgerNext

\* Only a recorded transaction is submitted.
LEMMA PostLedger ==
    ASSUME Shape, NEW w \in Workers, Post(w)
    PROVE  Ledger!LedgerNext
<1> DEFINE t == job[w].tx
<1>1. /\ pc[w] = "send" /\ wire' = wire \cup {t}
      /\ UNCHANGED <<idem, records, recycled, accepted>>
  BY DEF Post, Step, storeVars
<1>2. t \in TxIds
  BY <1>1, Working DEF Unfunded
<1>3. t \in Recorded
  <2>1. PICK i \in DOMAIN records : records[i].tx = t
    BY <1>1 DEF Shape, ActsForRecord, Persisted
  <2> QED
    BY <1>2, <2>1, NoneAssumption DEF Recorded
<1>4. Recorded' = Recorded /\ \A k \in Keys : ChosenTx(k)' = ChosenTx(k)
  BY <1>1, RowsSame, ChosenKept
<1>5. Ledger!Leave(t)
  BY <1>1, <1>3, <1>4 DEF Ledger!Leave
<1> QED
  BY <1>2, <1>5 DEF Ledger!LedgerNext

\* The node takes it, or it is lost.
LEMMA LandLedger ==
    ASSUME Shape, NEW t \in TxIds, Land(t)
    PROVE  Ledger!LedgerNext
<1>1. /\ t \in wire /\ wire' = wire \ {t} /\ accepted' \in {accepted, accepted \cup {t}}
      /\ UNCHANGED <<idem, records, recycled>>
  BY DEF Land, storeVars
<1>2. Recorded' = Recorded /\ \A k \in Keys : ChosenTx(k)' = ChosenTx(k)
  BY <1>1, RowsSame, ChosenKept
<1>3. Ledger!Arrive(t)
  BY <1>1, <1>2 DEF Ledger!Arrive
<1> QED
  BY <1>3 DEF Ledger!LedgerNext

\* The worker of a record that owns its claim acts for what the key stands for.
LEMMA OwnerChosen ==
    ASSUME Shape, NEW w \in Workers, pc[w] \in Persisted, Owner(w)
    PROVE  ChosenTx(job[w].key) = job[w].tx
BY DEF Shape, ActsForRecord, ChosenTx

\* A 2xx answer is stored once, for a transaction that the node has taken.
LEMMA RespondLedger ==
    ASSUME Shape, Answers, Unanswered, NEW w \in Workers, Respond(w)
    PROVE  Ledger!LedgerNext
<1> DEFINE k == job[w].key
           t == job[w].tx
<1>1. PICK d \in 0..Lag : StoreResponse(k, job[w].request, job[w].token, d, Ok(t))
  BY DEF Respond
<1>2. pc[w] = "respond" /\ UNCHANGED <<wire, accepted>>
  BY DEF Respond, nodeVars
<1>3. k \in Keys /\ t \in TxIds /\ idem \in [Keys -> Row]
  BY <1>2, Working DEF Unfunded, Shape, SendTypeOK, StoreTypeOK
<1>4. Owner(w) /\ idem[k].state \notin Final
  BY <1>1 DEF StoreResponse, CanStoreResponse, Owner
<1>5. ChosenTx(k) = t /\ t \in accepted
  BY <1>2, <1>4, OwnerChosen DEF Persisted, Answers, MarkedAfterAccepted
<1>6. idem[k].reply = NoReply
  BY <1>3, <1>4 DEF Unanswered
<1>7. idem'[k].reply = Ok(t) /\ \A j \in Keys \ {k} : idem'[j].reply = idem[j].reply
  BY <1>1, <1>3, ResponseRow
<1>8. Recorded' = Recorded /\ \A j \in Keys : ChosenTx(j)' = ChosenTx(j)
  BY <1>1, <1>3, ResponseRows, ChosenKept
<1>9. Verdict(NoReply.code) = "none" /\ Verdict(Ok(t).code) = "ok"
  BY DEF Verdict, NoReply, Ok
<1>10. Ledger!SettleOk(k)
  BY <1>2, <1>3, <1>5, <1>6, <1>7, <1>8, <1>9 DEF Ledger!SettleOk
<1> QED
  BY <1>3, <1>10 DEF Ledger!LedgerNext

\* Only a key that stands for a transaction is refused.
LEMMA FailLedger ==
    ASSUME Shape, Unanswered, NEW w \in Workers, FailPrepared(w)
    PROVE  Ledger!LedgerNext
<1> DEFINE k == job[w].key
           t == job[w].tx
<1>1. pc[w] = "fail" /\ MarkPreparedFailed(k, job[w].token) /\ UNCHANGED <<wire, accepted>>
  BY DEF FailPrepared, Step, nodeVars
<1>2. k \in Keys /\ t \in TxIds /\ idem \in [Keys -> Row]
  BY <1>1, Working DEF Unfunded, Shape, SendTypeOK, StoreTypeOK
<1>3. Owner(w) /\ idem[k].state \notin Final /\ Fail(k)
  BY <1>1 DEF MarkPreparedFailed, CanMarkPreparedFailed, Owner, Final
<1>4. ChosenTx(k) # None
  BY <1>1, <1>2, <1>3, OwnerChosen, NoneAssumption DEF Persisted
<1>5. idem[k].reply = NoReply
  BY <1>2, <1>3 DEF Unanswered
<1>6. idem'[k].reply = Rejected /\ \A j \in Keys \ {k} : idem'[j].reply = idem[j].reply
  BY <1>2, <1>3 DEF Fail, Row
<1>7. Recorded' = Recorded /\ \A j \in Keys : ChosenTx(j)' = ChosenTx(j)
  BY <1>1, <1>2, FailedRows, ChosenKept
<1>8. Verdict(NoReply.code) = "none" /\ Verdict(Rejected.code) = "refused"
  BY DEF Verdict, NoReply, Rejected
<1>9. Ledger!Refuse(k)
  BY <1>1, <1>2, <1>4, <1>5, <1>6, <1>7, <1>8 DEF Ledger!Refuse
<1> QED
  BY <1>2, <1>9 DEF Ledger!LedgerNext

-----------------------------------------------------------------------------
(* The refinement *)

\* Initially no key stands for anything.
LEMMA LedgerStarts == SendInit => Ledger!LedgerInit
<1> SUFFICES ASSUME SendInit PROVE Ledger!LedgerInit
  OBVIOUS
<1>1. idem = [k \in Keys |-> NoRow] /\ records = <<>> /\ wire = {} /\ accepted = {}
  BY DEF SendInit, StoreInit
<1>2. Recorded = {} /\ \A k \in Keys : ChosenTx(k) = None
  BY <1>1 DEF Recorded, ChosenTx
<1>3. Verdict(NoRow.reply.code) = "none"
  BY DEF Verdict, NoRow, NoReply
<1> QED
  BY <1>1, <1>2, <1>3 DEF Ledger!LedgerInit

\* Each step of a handler is a step of the ledger, or unseen.
LEMMA HandleLedger ==
    ASSUME Shape, Answers, Unanswered, NEW w \in Workers, Handle(w)
    PROVE  Ledger!LedgerNext \/ UNCHANGED Ledger!ledgerVars
<1>1. ASSUME Load(w) \/ Fund(w) \/ FundFails(w) \/ FundLost(w) \/ SaveFails(w) \/ Abort(w)
               \/ Known(w) \/ NotKnown(w) \/ TestAccept(w) \/ UnlockRejected(w)
               \/ Answered(w) \/ LoseClaim(w)
      PROVE  UNCHANGED <<idem, records, recycled, wire, accepted>>
  BY <1>1 DEF Load, Fund, FundFails, FundLost, SaveFails, Abort, Known, NotKnown, TestAccept,
              UnlockRejected, Answered, LoseClaim, storeVars, nodeVars
<1>2. idem \in [Keys -> Row]
  BY DEF Shape, SendTypeOK, StoreTypeOK
<1>3. ASSUME Beat(w) PROVE UNCHANGED Ledger!ledgerVars
  <2>1. PICK d \in 0..Lag : HeartbeatClaim(job[w].key, job[w].token, d)
    BY <1>3 DEF Beat
  <2>2. job[w].key \in Keys /\ UNCHANGED <<wire, accepted>>
    BY <1>3, Working DEF Beat, Step, nodeVars
  <2>3. RepliesKept
    BY <1>2, <2>1, <2>2 DEF HeartbeatClaim, RepliesKept, Row
  <2> QED
    BY <2>1, <2>2, <2>3, BeatRows, Unseen
<1>4. ASSUME BecomeUnknown(w) PROVE UNCHANGED Ledger!ledgerVars
  <2>1. PICK d \in 0..Lag : MarkUnknown(job[w].key, job[w].token, job[w].tx, d)
    BY <1>4 DEF BecomeUnknown
  <2>2. job[w].key \in Keys /\ UNCHANGED <<wire, accepted>>
    BY <1>4, Working DEF BecomeUnknown, nodeVars
  <2>3. RepliesKept
    BY <1>2, <2>1, <2>2 DEF MarkUnknown, RepliesKept, Row
  <2> QED
    BY <2>1, <2>2, <2>3, UnknownRows, Unseen
<1>5. ASSUME BecomeBroadcast(w) PROVE UNCHANGED Ledger!ledgerVars
  <2>1. PICK d \in 0..Lag : MarkBroadcast(job[w].key, job[w].token, job[w].tx, d)
    BY <1>5 DEF BecomeBroadcast
  <2>2. job[w].key \in Keys /\ UNCHANGED <<wire, accepted>>
    BY <1>5, Working DEF BecomeBroadcast, Step, nodeVars
  <2>3. RepliesKept
    BY <1>2, <2>1, <2>2 DEF MarkBroadcast, RepliesKept, Row
  <2> QED
    BY <2>1, <2>2, <2>3, BroadcastRows, Unseen
<1> QED
  BY <1>1, <1>3, <1>4, <1>5, UnseenStore, SaveLedger, PostLedger, RespondLedger, FailLedger
     DEF Handle

\* ... and so is each step of the system.
LEMMA LedgerStep ==
    SendInv /\ Unanswered /\ [SendNext \/ CoreRestart]_sendVars
        => [Ledger!LedgerNext]_(Ledger!ledgerVars)
<1> SUFFICES ASSUME SendInv, Unanswered, [SendNext \/ CoreRestart]_sendVars
             PROVE  Ledger!LedgerNext \/ UNCHANGED Ledger!ledgerVars
  OBVIOUS
<1>1. Shape /\ Answers
  BY Halves
<1>2. ASSUME NEW w \in Workers, Replay(w) \/ Crash(w) PROVE UNCHANGED Ledger!ledgerVars
  <2>1. UNCHANGED <<idem, records, recycled, wire, accepted>>
    BY <1>2 DEF Replay, Crash, storeVars, nodeVars
  <2> QED
    BY <1>1, <2>1, UnseenStore
<1>3. ASSUME Second PROVE UNCHANGED Ledger!ledgerVars
  <2>1. Tick /\ UNCHANGED <<wire, accepted>>
    BY <1>3 DEF Second, nodeVars
  <2>2. RepliesKept
    BY <1>1, <2>1, StoreHalf, TickFields DEF RepliesKept
  <2> QED
    BY <1>1, <2>1, <2>2, TickRows, Unseen
<1>4. ASSUME CoreRestart \/ UNCHANGED sendVars PROVE UNCHANGED Ledger!ledgerVars
  <2>1. UNCHANGED <<idem, records, recycled, wire, accepted>>
    BY <1>4 DEF CoreRestart, sendVars, storeVars, nodeVars
  <2> QED
    BY <1>1, <2>1, UnseenStore
<1> QED
  BY <1>1, <1>2, <1>3, <1>4, BeginLedger, HandleLedger, LandLedger DEF SendNext

\* Whatever the interleaving of workers, takeovers, lost and late RPCs, crashes,
\* expiries and restarts of the node, clients of POST .../transactions/send see a
\* PaymentLedger (create_sign_and_send under _json_post).
THEOREM RestartKeepsLedger == RestartSpec => KeepsLedger
BY LedgerStarts, LedgerStep, SendInvariant, UnansweredAlways, PTL
   DEF RestartSpec, KeepsLedger, Ledger!LedgerSpec

\* The same for a node that keeps its locks.
THEOREM SendKeepsLedger == SendSpec => KeepsLedger
BY RestartKeepsLedger, SendIsRestart, PTL

=============================================================================
