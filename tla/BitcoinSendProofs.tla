-------------------------- MODULE BitcoinSendProofs --------------------------
(***************************************************************************)
(* Proofs about BitcoinSend, for all constants: SendInv is an invariant of *)
(* the handler, with or without restarts of the node, and the handler is a *)
(* client of the store as StoreSpec describes them.                        *)
(*                                                                         *)
(* SendInv has two halves.  Shape says which worker acts for which row and *)
(* record; most steps keep it for one reason, stated as FrameShape.        *)
(* Answers says what the rows and the clients know of the node.            *)
(***************************************************************************)
EXTENDS BitcoinSend, BitcoinStoreProofs

Shape ==
    /\ SendTypeOK /\ OneOwner /\ TablesAgree
    /\ JobShape /\ TokenIdentifiesJob /\ FundingPrivate /\ ActsForRecord
    /\ RecordsDistinct /\ PreparedOnce /\ PersistedBeforeSent

Answers == SettledMatchesNode /\ MarkedAfterAccepted /\ ToldFromRow /\ OkMeansAccepted

\* The two halves are the whole.
LEMMA Halves == SendInv <=> Shape /\ Answers
BY DEF SendInv, Shape, Answers

\* The first contains the invariant of the store.
LEMMA StoreHalf == Shape => StoreInv
BY DEF Shape, SendTypeOK, StoreInv

\* What a worker that handles a request has at hand.
LEMMA Working ==
    ASSUME Shape, NEW w \in Workers, pc[w] # "idle"
    PROVE  /\ job[w].key \in Keys /\ job[w].request \in Requests
           /\ job[w].token \in held /\ job[w].token \in Tokens /\ job[w].token # None
           /\ job[w].tx = None <=> pc[w] \in Unfunded
           /\ job[w].tx # None => job[w].tx \in TxIds
           /\ idem[job[w].key] \in Row
<1>1. job[w] \in Job /\ held \subseteq Tokens /\ idem \in [Keys -> Row]
  BY DEF Shape, SendTypeOK, StoreTypeOK
<1>2. /\ job[w].key \in Keys /\ job[w].request \in Requests /\ job[w].token \in held
      /\ job[w].tx = None <=> pc[w] \in Unfunded
  BY DEF Shape, JobShape
<1> QED
  BY <1>1, <1>2, NoneAssumption DEF Job

-----------------------------------------------------------------------------
(* The handler is a client of the store *)

\* The methods that a worker calls are those its token gives access to.
LEMMA CallsOwned ==
    ASSUME Shape, NEW w \in Workers, pc[w] # "idle", NEW d \in 0..Lag,
           Owned(job[w].key, job[w].token, d),
           held' = held \/ held' = held \ {job[w].token}
    PROVE  StoreNext
BY Working DEF StoreNext, Keeps

\* A request that ends without writing releases its token.
LEMMA Releases ==
    ASSUME Shape, NEW w \in Workers, pc[w] # "idle", End(w),
           UNCHANGED <<idem, records, recycled>>
    PROVE  StoreNext
<1>1. Release(job[w].token) /\ job[w].token \in held
  BY Working DEF End, Release
<1> QED
  BY <1>1 DEF StoreNext

\* Every step of the system is a step of the store's client, or none of its business.
LEMMA HandlerIsClient ==
    ASSUME Shape, SendNext \/ CoreRestart
    PROVE  StoreNext \/ UNCHANGED storeVars
<1>0. 0 \in 0..Lag
  BY TimeAssumption
<1>1. ASSUME NEW w \in Workers, Begin(w) PROVE StoreNext
  BY <1>1 DEF Begin, StoreNext
<1>2. ASSUME NEW w \in Workers, Replay(w) PROVE UNCHANGED storeVars
  BY <1>2 DEF Replay
<1>3. ASSUME NEW w \in Workers, Handle(w) PROVE StoreNext \/ UNCHANGED storeVars
  <2>1. ASSUME Load(w) \/ Fund(w) \/ SaveFails(w) \/ Known(w) \/ NotKnown(w)
                 \/ TestAccept(w) \/ Post(w) \/ Answered(w)
        PROVE  UNCHANGED storeVars
    BY <2>1 DEF Load, Fund, SaveFails, Known, NotKnown, TestAccept, Post, Answered
  <2>2. ASSUME FundFails(w) \/ FundLost(w) \/ Abort(w) \/ UnlockRejected(w) \/ LoseClaim(w)
        PROVE  StoreNext
    <3>1. pc[w] # "idle" /\ End(w) /\ UNCHANGED <<idem, records, recycled>>
      BY <2>2 DEF FundFails, FundLost, Abort, UnlockRejected, LoseClaim, ClaimLost
    <3> QED
      BY <3>1, Releases
  <2>3. CASE Save(w)
    <3>1. pc[w] = "save" /\ held' = held
      BY <2>3 DEF Save, Step
    <3>2. job[w].tx \in TxIds \ Recorded
      BY <3>1, Working DEF Shape, FundingPrivate, Funding, Unfunded
    <3>3. \E d \in 0..Lag : Owned(job[w].key, job[w].token, d)
      BY <2>3, <3>1, <3>2, Working DEF Save, Owned
    <3> QED
      BY <3>1, <3>3, CallsOwned
  <2>4. CASE Beat(w)
    BY <2>4, CallsOwned DEF Beat, Step, Owned
  <2>5. CASE FailPrepared(w)
    <3>1. pc[w] = "fail" /\ held' = held /\ Owned(job[w].key, job[w].token, 0)
      BY <2>5 DEF FailPrepared, Step, Owned
    <3> QED
      BY <1>0, <3>1, CallsOwned
  <2>6. CASE BecomeUnknown(w)
    <3>1. pc[w] = "unknown" /\ held' = held \ {job[w].token}
      BY <2>6 DEF BecomeUnknown, End
    <3>2. job[w].tx \in TxIds
      BY <3>1, Working DEF Unfunded
    <3>3. \E d \in 0..Lag : Owned(job[w].key, job[w].token, d)
      BY <2>6, <3>2 DEF BecomeUnknown, Owned
    <3> QED
      BY <3>1, <3>3, CallsOwned
  <2>7. CASE BecomeBroadcast(w)
    <3>1. pc[w] = "mark" /\ held' = held
      BY <2>7 DEF BecomeBroadcast, Step
    <3>2. job[w].tx \in TxIds
      BY <3>1, Working DEF Unfunded
    <3>3. \E d \in 0..Lag : Owned(job[w].key, job[w].token, d)
      BY <2>7, <3>2 DEF BecomeBroadcast, Owned
    <3> QED
      BY <3>1, <3>3, CallsOwned
  <2>8. CASE Respond(w)
    <3>1. pc[w] = "respond" /\ held' = held \ {job[w].token}
      BY <2>8 DEF Respond, End
    <3>2. job[w].tx \in TxIds /\ job[w].request \in Requests
      BY <3>1, Working DEF Unfunded
    <3>3. \E d \in 0..Lag : Owned(job[w].key, job[w].token, d)
      BY <2>8, <3>2 DEF Respond, Owned
    <3> QED
      BY <3>1, <3>3, CallsOwned
  <2> QED
    BY <1>3, <2>1, <2>2, <2>3, <2>4, <2>5, <2>6, <2>7, <2>8 DEF Handle
<1>4. ASSUME NEW w \in Workers, Crash(w) PROVE StoreNext
  BY <1>4, Releases DEF Crash
<1>5. ASSUME NEW t \in TxIds, Land(t) PROVE UNCHANGED storeVars
  BY <1>5 DEF Land
<1>6. ASSUME Second PROVE StoreNext
  BY <1>6 DEF Second, StoreNext
<1>7. ASSUME CoreRestart PROVE UNCHANGED storeVars
  BY <1>7 DEF CoreRestart
<1> QED
  BY <1>1, <1>2, <1>3, <1>4, <1>5, <1>6, <1>7 DEF SendNext

-----------------------------------------------------------------------------
(* What most steps have in common *)

\* Rows keep what they stand for and are claimed by nobody new; records keep
\* all but their status.
RowsKept ==
    /\ \A k \in Keys :
        /\ idem'[k].request = idem[k].request
        /\ idem'[k].prepared = idem[k].prepared
        /\ idem'[k].token \in {idem[k].token, None}
    /\ DOMAIN records' = DOMAIN records
    /\ \A i \in DOMAIN records :
        /\ records'[i].kind = records[i].kind
        /\ records'[i].key = records[i].key
        /\ records'[i].request = records[i].request
        /\ records'[i].tx = records[i].tx
    /\ recycled' = recycled

\* A worker moves on in the same part of the handler, or it may give up funding.
SameStage(from, to) ==
    \/ from = to
    \/ from \in Persisted /\ to \in Persisted
    \/ from = "save" /\ to = "abort"

\* Every worker stays in its part of the handler with its job, or is idle.
StagesKept ==
    /\ pc' \in [Workers -> Labels]
    /\ job' \in [Workers -> Job]
    /\ \A v \in Workers :
        \/ pc'[v] = "idle" /\ job'[v] = NoJob
        \/ /\ pc[v] # "idle" /\ SameStage(pc[v], pc'[v])
           /\ job'[v] = job[v] /\ job[v].token \in held'

\* Only recorded transactions go out, and none is funded twice.
NodeKept ==
    /\ spends' \in [TxIds -> Coins \cup {None}]
    /\ \A t \in TxIds : spends[t] # None => spends'[t] # None
    /\ locked' \subseteq Coins
    /\ wire' \cup accepted' \subseteq wire \cup accepted \cup Recorded

ToldType == told' \subseteq [key : Keys, request : Requests, reply : Reply]

\* The stages of a request partition the labels.
LEMMA StageFacts ==
    /\ Unfunded \cup Funding \cup Persisted \cup {"idle"} = Labels
    /\ Unfunded \cap Funding = {} /\ Unfunded \cap Persisted = {}
    /\ Funding \cap Persisted = {} /\ "idle" \notin Unfunded \cup Funding \cup Persisted
BY DEF Unfunded, Funding, Persisted, Labels

\* The handler records broadcasts only, each with its txid.
LEMMA RecordFields ==
    ASSUME Shape, NEW i \in DOMAIN records
    PROVE  /\ records[i] \in Record
           /\ records[i].key \in Keys
           /\ records[i].tx \in TxIds
           /\ i \in Nat \ {0}
<1>1. records \in Seq(Record)
  BY DEF Shape, SendTypeOK, StoreTypeOK
<1>2. records[i] \in Record /\ i \in Nat \ {0}
  BY <1>1
<1>3. records[i].tx # None /\ records[i].key \in Keys
  BY DEF Shape, RecordsDistinct
<1> QED
  BY <1>2, <1>3 DEF Record

\* Unchanged records name the same transactions.
LEMMA RecordedKept == ASSUME RowsKept PROVE Recorded' = Recorded
BY DEF RowsKept, Recorded

\* The reason why most steps keep Shape: no row changes owner, no record is added,
\* nobody changes stage and the node forgets nothing.
LEMMA FrameShape ==
    ASSUME Shape, StoreInv', RowsKept, StagesKept, NodeKept, ToldType
    PROVE  Shape'
<1>0. Recorded' = Recorded /\ Recorded \subseteq TxIds
  <2>1. \A i \in DOMAIN records : records[i] \in Record
    BY DEF Shape, SendTypeOK, StoreTypeOK
  <2> QED
    BY <2>1, RecordedKept DEF Recorded, Record
<1>1. SendTypeOK' /\ OneOwner' /\ TablesAgree'
  <2>1. wire' \subseteq TxIds /\ accepted' \subseteq TxIds
    BY <1>0 DEF Shape, SendTypeOK, NodeKept
  <2> QED
    BY <2>1 DEF SendTypeOK, StoreInv, StagesKept, NodeKept, ToldType
<1>2. JobShape'
  <2> SUFFICES ASSUME NEW v \in Workers
               PROVE  /\ pc'[v] = "idle" => job'[v] = NoJob
                      /\ pc'[v] # "idle" =>
                          /\ job'[v].key \in Keys /\ job'[v].request \in Requests
                          /\ job'[v].token \in held'
                          /\ job'[v].tx = None <=> pc'[v] \in Unfunded
    BY DEF JobShape
  <2>1. pc'[v] = "idle" => job'[v] = NoJob
    BY DEF StagesKept, SameStage, Persisted
  <2>2. ASSUME pc'[v] # "idle"
        PROVE  /\ job'[v] = job[v] /\ job[v].token \in held'
               /\ pc[v] # "idle"
               /\ pc'[v] \in Unfunded <=> pc[v] \in Unfunded
    BY <2>2 DEF StagesKept, SameStage, Unfunded, Persisted
  <2> QED
    BY <2>1, <2>2, Working
<1>3. TokenIdentifiesJob'
  <2>1. \A v \in Workers : job'[v].token # None => job'[v] = job[v]
    BY DEF StagesKept, NoJob
  <2>2. \A v, w \in Workers :
            job'[v].token = job'[w].token /\ job'[v].token # None => v = w
    BY <2>1 DEF Shape, TokenIdentifiesJob
  <2>3. ASSUME NEW v \in Workers, NEW k \in Keys, pc'[v] # "idle",
               idem'[k].token = job'[v].token
        PROVE  k = job'[v].key /\ idem'[k].request = job'[v].request
    <3>1. pc[v] # "idle" /\ job'[v] = job[v] /\ job[v].token # None
      BY <2>3, Working DEF StagesKept
    <3>2. idem[k].token = job[v].token
      BY <2>3, <3>1 DEF RowsKept
    <3> QED
      BY <3>1, <3>2 DEF Shape, TokenIdentifiesJob, RowsKept
  <2> QED
    BY <2>2, <2>3 DEF TokenIdentifiesJob
<1>4. FundingPrivate'
  <2> SUFFICES ASSUME NEW v \in Workers
               PROVE  /\ pc'[v] \in Funding =>
                          /\ spends'[job'[v].tx] # None
                          /\ job'[v].tx \notin Recorded'
                          /\ \A u \in Workers \ {v} : pc'[u] \in Funding => job'[u].tx # job'[v].tx
                      /\ pc'[v] \in {"fund", "save"} /\ Owner(v)' => idem'[job'[v].key].prepared = 0
    BY DEF FundingPrivate
  <2>1. \A u \in Workers : pc'[u] \in Funding => pc[u] \in Funding /\ job'[u] = job[u]
    BY DEF StagesKept, SameStage, Funding, Persisted
  <2>2. ASSUME pc'[v] \in Funding
        PROVE  /\ spends'[job'[v].tx] # None
               /\ job'[v].tx \notin Recorded'
               /\ \A u \in Workers \ {v} : pc'[u] \in Funding => job'[u].tx # job'[v].tx
    <3>1. job[v].tx \in TxIds
      BY <2>1, <2>2, Working DEF Unfunded, Funding
    <3> QED
      BY <1>0, <2>1, <2>2, <3>1 DEF Shape, FundingPrivate, NodeKept
  <2>3. ASSUME pc'[v] \in {"fund", "save"}, Owner(v)'
        PROVE  idem'[job'[v].key].prepared = 0
    <3>1. pc[v] = pc'[v] /\ pc[v] # "idle" /\ job'[v] = job[v]
      BY <2>3 DEF StagesKept, SameStage, Persisted
    <3>2. Owner(v)
      BY <2>3, <3>1, Working DEF Owner, RowsKept
    <3> QED
      BY <2>3, <3>1, <3>2, Working DEF Shape, FundingPrivate, RowsKept
  <2> QED
    BY <2>2, <2>3
<1>5. ActsForRecord'
  <2> SUFFICES ASSUME NEW v \in Workers, pc'[v] \in Persisted
               PROVE  \E i \in DOMAIN records' :
                          /\ records'[i].key = job'[v].key
                          /\ records'[i].request = job'[v].request
                          /\ records'[i].tx = job'[v].tx
                          /\ Owner(v)' => idem'[job'[v].key].prepared = i
    BY DEF ActsForRecord
  <2>1. pc[v] \in Persisted /\ pc[v] # "idle" /\ job'[v] = job[v]
    BY DEF StagesKept, SameStage, Persisted
  <2>2. PICK i \in DOMAIN records :
            /\ records[i].key = job[v].key
            /\ records[i].request = job[v].request
            /\ records[i].tx = job[v].tx
            /\ Owner(v) => idem[job[v].key].prepared = i
    BY <2>1 DEF Shape, ActsForRecord
  <2>3. Owner(v)' => Owner(v) /\ idem'[job'[v].key].prepared = idem[job[v].key].prepared
    BY <2>1, Working DEF Owner, RowsKept
  <2> QED
    BY <2>1, <2>2, <2>3 DEF RowsKept
<1>6. RecordsDistinct'
  <2>1. \A i \in DOMAIN records : records[i].tx \in TxIds
    BY RecordFields
  <2> QED
    BY <2>1 DEF Shape, RecordsDistinct, RowsKept, NodeKept
<1>7. PreparedOnce'
  <2>1. \A i \in DOMAIN records : records[i].key \in Keys
    BY RecordFields
  <2> QED
    BY <2>1 DEF Shape, PreparedOnce, RowsKept
<1>8. PersistedBeforeSent'
  BY <1>0 DEF Shape, PersistedBeforeSent, NodeKept
<1> QED
  BY <1>1, <1>2, <1>3, <1>4, <1>5, <1>6, <1>7, <1>8 DEF Shape

-----------------------------------------------------------------------------
(* Each step keeps Shape *)

\* A worker that moves within its stage, ...
LEMMA MovesOn ==
    ASSUME Shape, NEW w \in Workers, pc[w] # "idle", NEW to \in Labels, SameStage(pc[w], to),
           Goto(w, to), job' = job, held' = held
    PROVE  StagesKept
<1>1. pc \in [Workers -> Labels] /\ job \in [Workers -> Job]
  BY DEF Shape, SendTypeOK
<1>2. \A v \in Workers : pc[v] = "idle" => job[v] = NoJob
  BY DEF Shape, JobShape
<1> QED
  BY <1>1, <1>2, Working DEF StagesKept, Goto, SameStage

\* ... one that ends, ...
LEMMA Ends ==
    ASSUME Shape, NEW w \in Workers, pc[w] # "idle", End(w)
    PROVE  StagesKept
<1>1. pc \in [Workers -> Labels] /\ job \in [Workers -> Job] /\ NoJob \in Job
  BY DEF Shape, SendTypeOK, Job, NoJob
<1>2. /\ pc' = [pc EXCEPT ![w] = "idle"] /\ job' = [job EXCEPT ![w] = NoJob]
      /\ held' = held \ {job[w].token}
  BY DEF End, Goto
<1>3. \A v \in Workers : pc[v] = "idle" => job[v] = NoJob
  BY DEF Shape, JobShape
<1>4. \A v \in Workers \ {w} : pc[v] # "idle" => job[v].token \in held'
  BY <1>2, Working DEF Shape, TokenIdentifiesJob
<1> QED
  BY <1>1, <1>2, <1>3, <1>4 DEF StagesKept, SameStage, Labels

\* ... and workers that do nothing keep the stages.
LEMMA Rests ==
    ASSUME Shape, UNCHANGED <<pc, job, held>>
    PROVE  StagesKept
<1>1. pc \in [Workers -> Labels] /\ job \in [Workers -> Job]
  BY DEF Shape, SendTypeOK
<1>2. \A v \in Workers : pc[v] = "idle" => job[v] = NoJob
  BY DEF Shape, JobShape
<1> QED
  BY <1>1, <1>2, Working DEF StagesKept, SameStage

\* An unchanged store keeps its rows.
LEMMA RowsSame == ASSUME UNCHANGED <<idem, records, recycled>> PROVE RowsKept
BY DEF RowsKept

\* A node that changes its locks only keeps what is relied on, ...
LEMMA NodeSame ==
    ASSUME Shape, UNCHANGED <<spends, wire, accepted>>, locked' \subseteq Coins
    PROVE  NodeKept
BY DEF Shape, SendTypeOK, NodeKept

\* ... and so does one that changes nothing.
LEMMA NodeUnchanged == ASSUME Shape, UNCHANGED nodeVars PROVE NodeKept
BY NodeSame DEF nodeVars, Shape, SendTypeOK

\* Nobody is told anything.
LEMMA ToldSame == ASSUME Shape, told' = told PROVE ToldType
BY DEF Shape, SendTypeOK, ToldType

\* Unlocking leaves a set of coins.
LEMMA UnlockType == ASSUME Shape, NEW t, Unlock(t) PROVE locked' \subseteq Coins
BY DEF Shape, SendTypeOK, Unlock

\* A transaction that gets funded was not, and gets a coin.
LEMMA FundKept ==
    ASSUME Shape, NEW t \in TxIds, NEW c \in Coins, FundTx(t, c), UNCHANGED <<wire, accepted>>
    PROVE  /\ NodeKept /\ spends[t] = None /\ spends'[t] # None
           /\ \A u \in TxIds \ {t} : spends'[u] = spends[u]
<1>1. spends \in [TxIds -> Coins \cup {None}] /\ locked \subseteq Coins
  BY DEF Shape, SendTypeOK
<1> QED
  BY <1>1, CoinsAssumption DEF FundTx, NodeKept

\* Moving on within the handler, with nothing else changed but the node.
LEMMA MoveShape ==
    ASSUME Shape, StoreInv', NEW w \in Workers, pc[w] # "idle", NEW to \in Labels,
           SameStage(pc[w], to), Goto(w, to), job' = job, UNCHANGED <<storeVars, told>>, NodeKept
    PROVE  Shape'
BY MovesOn, RowsSame, ToldSame, FrameShape DEF storeVars

\* Hence a request may end anywhere.
LEMMA EndShape ==
    ASSUME Shape, StoreInv', NEW w \in Workers, pc[w] # "idle", End(w),
           UNCHANGED <<idem, records, recycled>>, NodeKept, ToldType
    PROVE  Shape'
BY Ends, RowsSame, FrameShape

\* The owner of a row writes it without letting anybody in.
LEMMA WriteShape ==
    ASSUME Shape, StoreInv', NEW w \in Workers, pc[w] # "idle", RowsKept, NodeKept, ToldType,
           \/ End(w)
           \/ held' = held /\ \E to \in Persisted : Step(w, pc[w], to) /\ pc[w] \in Persisted
    PROVE  Shape'
<1>1. CASE End(w)
  BY <1>1, Ends, FrameShape
<1>2. ASSUME NEW to \in Persisted, Step(w, pc[w], to), pc[w] \in Persisted, held' = held
      PROVE  Shape'
  <2>1. to \in Labels /\ SameStage(pc[w], to) /\ Goto(w, to) /\ job' = job
    BY <1>2, StageFacts DEF SameStage, Step
  <2> QED
    BY <1>2, <2>1, MovesOn, FrameShape
<1> QED
  BY <1>1, <1>2

-----------------------------------------------------------------------------
(* The store methods keep the rows *)

\* Among the writes of an owner, a heartbeat, ...
LEMMA BeatRows ==
    ASSUME Shape, NEW k \in Keys, NEW tok, NEW d \in 0..Lag, HeartbeatClaim(k, tok, d)
    PROVE  RowsKept
<1>1. idem \in [Keys -> Row]
  BY DEF Shape, SendTypeOK, StoreTypeOK
<1> QED
  BY <1>1 DEF HeartbeatClaim, RowsKept, Row

\* ... an unknown outcome, ...
LEMMA UnknownRows ==
    ASSUME Shape, NEW k \in Keys, NEW tok, NEW t, NEW d \in 0..Lag, MarkUnknown(k, tok, t, d)
    PROVE  RowsKept
<1>1. idem \in [Keys -> Row]
  BY DEF Shape, SendTypeOK, StoreTypeOK
<1> QED
  BY <1>1 DEF MarkUnknown, RowsKept, Row

\* ... a broadcast, ...
LEMMA BroadcastRows ==
    ASSUME Shape, NEW k \in Keys, NEW tok, NEW t, NEW d \in 0..Lag, MarkBroadcast(k, tok, t, d)
    PROVE  RowsKept
<1>1. idem \in [Keys -> Row]
  BY DEF Shape, SendTypeOK, StoreTypeOK
<1>2. SetStatus(k, "broadcast")
  BY DEF MarkBroadcast
<1>3. /\ DOMAIN records' = DOMAIN records
      /\ \A n \in DOMAIN records :
             /\ records[n] \in Record
             /\ records'[n] = IF n = idem[k].prepared THEN [records[n] EXCEPT !.status = "broadcast"]
                                                      ELSE records[n]
  BY <1>2, StoreHalf, SetStatusFacts
<1> QED
  BY <1>1, <1>3 DEF MarkBroadcast, RowsKept, Row, Record

\* ... a rejection ...
LEMMA FailedRows ==
    ASSUME Shape, NEW k \in Keys, NEW tok, MarkPreparedFailed(k, tok)
    PROVE  RowsKept
<1>1. idem \in [Keys -> Row]
  BY DEF Shape, SendTypeOK, StoreTypeOK
<1>2. SetStatus(k, "rejected")
  BY DEF MarkPreparedFailed
<1>3. /\ DOMAIN records' = DOMAIN records
      /\ \A n \in DOMAIN records :
             /\ records[n] \in Record
             /\ records'[n] = IF n = idem[k].prepared THEN [records[n] EXCEPT !.status = "rejected"]
                                                      ELSE records[n]
  BY <1>2, StoreHalf, SetStatusFacts
<1> QED
  BY <1>1, <1>3 DEF MarkPreparedFailed, Fail, RowsKept, Row, Record

\* ... and a stored answer let nobody in, ...
LEMMA ResponseRows ==
    ASSUME Shape, NEW k \in Keys, NEW r, NEW tok, NEW d \in 0..Lag, NEW reply,
           StoreResponse(k, r, tok, d, reply)
    PROVE  RowsKept
<1>1. idem \in [Keys -> Row]
  BY DEF Shape, SendTypeOK, StoreTypeOK
<1> QED
  BY <1>1 DEF StoreResponse, RowsKept, Row

\* ... and neither does time.
LEMMA TickRows == ASSUME Shape, Tick PROVE RowsKept
<1>1. \A k \in Keys : /\ idem'[k].request = idem[k].request
                      /\ idem'[k].prepared = idem[k].prepared
                      /\ idem'[k].token = idem[k].token
  BY StoreHalf, TickFields
<1> QED
  BY <1>1 DEF Tick, RowsKept

-----------------------------------------------------------------------------
(* The steps that give a worker a job, a transaction or a record *)

\* What a claim changes.
LEMMA ClaimFacts ==
    ASSUME Shape, NEW k \in Keys, NEW r \in Requests, NEW tok \in Tokens, NEW d \in 0..Lag,
           Claim(k, r, tok, d)
    PROVE  /\ idem'[k].token = tok /\ idem'[k].request = r
           /\ \A j \in Keys \ {k} : idem'[j] = idem[j]
           /\ records' = records /\ recycled \subseteq recycled'
           /\ k \in recycled' \/ idem'[k].prepared = idem[k].prepared
           /\ tok # None /\ tok \notin held /\ \A j \in Keys : idem[j].token # tok
<1>1. idem \in [Keys -> Row] /\ Agrees(k, idem[k], records)
  BY DEF Shape, SendTypeOK, StoreTypeOK, TablesAgree
<1>2. tok # None /\ tok \notin held /\ \A j \in Keys : idem[j].token # tok
  BY NoneAssumption DEF Claim, Unissued
<1>3. CASE ClaimFresh(k, r, tok, d)
  <2>1. idem[k].state = "ABSENT" => idem[k].prepared = 0
    BY <1>1 DEF Agrees
  <2>2. /\ idem'[k].token = tok /\ idem'[k].request = r /\ idem'[k].prepared = 0
        /\ \A j \in Keys \ {k} : idem'[j] = idem[j]
    BY <1>1, <1>3 DEF ClaimFresh, NoRow
  <2>3. /\ records' = records /\ recycled \subseteq recycled'
        /\ idem[k].state # "ABSENT" => k \in recycled'
    BY <1>3 DEF ClaimFresh
  <2> QED
    BY <1>2, <2>1, <2>2, <2>3
<1>4. CASE ClaimTakeover(k, r, tok, d)
  <2>1. /\ idem'[k].token = tok /\ idem'[k].request = r
        /\ idem'[k].prepared = idem[k].prepared
        /\ \A j \in Keys \ {k} : idem'[j] = idem[j]
    BY <1>1, <1>4 DEF ClaimTakeover, CanTakeOver, Row
  <2> QED
    BY <1>2, <1>4, <2>1 DEF ClaimTakeover
<1> QED
  BY <1>3, <1>4 DEF Claim

\* A claim: its token is new, so it identifies the new request; a record of the key
\* stays the row's own or the row had expired.
LEMMA BeginShape ==
    ASSUME Shape, StoreInv', NEW w \in Workers, Begin(w)
    PROVE  Shape'
<1>1. PICK k \in Keys, r \in Requests, tok \in Tokens, d \in 0..Lag :
          /\ Claim(k, r, tok, d)
          /\ held' = held \cup {tok}
          /\ job' = [job EXCEPT ![w] =
                       [key |-> k, request |-> r, token |-> tok, tx |-> None]]
  BY DEF Begin
<1>2. /\ pc[w] = "idle" /\ pc' = [pc EXCEPT ![w] = "load"]
      /\ UNCHANGED <<spends, locked, wire, accepted, told>>
  BY DEF Begin, Goto, nodeVars
<1>3. /\ idem'[k].token = tok /\ idem'[k].request = r
      /\ \A j \in Keys \ {k} : idem'[j] = idem[j]
      /\ records' = records /\ recycled \subseteq recycled'
      /\ k \in recycled' \/ idem'[k].prepared = idem[k].prepared
      /\ tok # None /\ tok \notin held /\ \A j \in Keys : idem[j].token # tok
  BY <1>1, ClaimFacts
<1>4. pc \in [Workers -> Labels] /\ job \in [Workers -> Job]
  BY DEF Shape, SendTypeOK
<1>5. /\ pc'[w] = "load" /\ job'[w] = [key |-> k, request |-> r, token |-> tok, tx |-> None]
      /\ \A v \in Workers \ {w} : pc'[v] = pc[v] /\ job'[v] = job[v]
  BY <1>1, <1>2, <1>4
<1>6. \A v \in Workers \ {w} : job[v].token # tok
  BY <1>3, Working DEF Shape, JobShape, NoJob
<1>7. \A v \in Workers \ {w} :
          pc[v] # "idle" /\ Owner(v)' => Owner(v) /\ idem'[job[v].key] = idem[job[v].key]
  BY <1>3, <1>5, <1>6, Working DEF Owner
<1>8. Recorded' = Recorded
  BY <1>3 DEF Recorded
<1>a. SendTypeOK' /\ OneOwner' /\ TablesAgree'
  <2>1. pc' \in [Workers -> Labels] /\ job' \in [Workers -> Job]
    BY <1>1, <1>2, <1>4 DEF Labels, Job
  <2> QED
    BY <1>2, <2>1 DEF Shape, SendTypeOK, StoreInv
<1>b. JobShape'
  <2>1. "load" \in Unfunded
    BY DEF Unfunded
  <2> QED
    BY <1>1, <1>5, <2>1 DEF Shape, JobShape
<1>c. TokenIdentifiesJob'
  <2>1. \A u, v \in Workers :
            job'[u].token = job'[v].token /\ job'[u].token # None => u = v
    BY <1>5, <1>6 DEF Shape, TokenIdentifiesJob
  <2>2. ASSUME NEW v \in Workers, NEW j \in Keys, pc'[v] # "idle",
               idem'[j].token = job'[v].token
        PROVE  j = job'[v].key /\ idem'[j].request = job'[v].request
    <3>1. CASE v = w
      BY <1>3, <1>5, <2>2, <3>1
    <3>2. CASE v # w
      BY <1>3, <1>5, <1>6, <2>2, <3>2 DEF Shape, TokenIdentifiesJob
    <3> QED
      BY <3>1, <3>2
  <2> QED
    BY <2>1, <2>2 DEF TokenIdentifiesJob
<1>d. FundingPrivate'
  <2>1. "load" \notin Funding /\ "load" \notin {"fund", "save"} /\ "idle" \notin {"fund", "save"}
    BY DEF Funding
  <2> QED
    BY <1>2, <1>5, <1>7, <1>8, <2>1 DEF Shape, FundingPrivate
<1>e. ActsForRecord'
  <2> SUFFICES ASSUME NEW v \in Workers, pc'[v] \in Persisted
               PROVE  \E i \in DOMAIN records' :
                          /\ records'[i].key = job'[v].key
                          /\ records'[i].request = job'[v].request
                          /\ records'[i].tx = job'[v].tx
                          /\ Owner(v)' => idem'[job'[v].key].prepared = i
    BY DEF ActsForRecord
  <2>1. v # w /\ pc[v] # "idle"
    BY <1>5 DEF Persisted
  <2> QED
    BY <1>3, <1>5, <1>7, <2>1 DEF Shape, ActsForRecord
<1>f. RecordsDistinct'
  BY <1>2, <1>3 DEF Shape, RecordsDistinct
<1>g. PreparedOnce'
  BY <1>3, RecordFields DEF Shape, PreparedOnce
<1>h. PersistedBeforeSent'
  BY <1>2, <1>8 DEF Shape, PersistedBeforeSent
<1> QED
  BY <1>a, <1>b, <1>c, <1>d, <1>e, <1>f, <1>g, <1>h DEF Shape

\* Worker w gets a transaction: loaded, if there is one under its key, or funded.
LEMMA JobChange ==
    ASSUME Shape, StoreInv', UNCHANGED <<storeVars, wire, accepted, told>>,
           NEW w \in Workers, pc[w] \in Unfunded, NEW to \in Labels, Goto(w, to),
           NEW t \in TxIds \cup {None}, job' = [job EXCEPT ![w].tx = t],
           t = None <=> to \in Unfunded, to # "idle", NodeKept,
           to \in {"fund", "save"} /\ Owner(w) => idem[job[w].key].prepared = 0,
           to \in Funding => spends'[t] # None /\ spends[t] = None,
           to \in Persisted => \E i \in DOMAIN records :
               /\ records[i].key = job[w].key
               /\ records[i].request = job[w].request
               /\ records[i].tx = t
               /\ Owner(w) => idem[job[w].key].prepared = i
    PROVE  Shape'
<1>1. /\ pc \in [Workers -> Labels] /\ job \in [Workers -> Job]
      /\ UNCHANGED <<idem, records, recycled, held>>
  BY DEF Shape, SendTypeOK, storeVars
<1>2. /\ pc'[w] = to /\ job'[w].tx = t
      /\ \A v \in Workers \ {w} : pc'[v] = pc[v] /\ job'[v] = job[v]
      /\ \A v \in Workers : /\ job'[v].key = job[v].key
                            /\ job'[v].request = job[v].request
                            /\ job'[v].token = job[v].token
  BY <1>1 DEF Goto, Job
<1>3. Recorded' = Recorded /\ \A v \in Workers : Owner(v)' <=> Owner(v)
  BY <1>1, <1>2 DEF Recorded, Owner
<1>4. pc[w] # "idle"
  BY StageFacts
<1>a. SendTypeOK' /\ OneOwner' /\ TablesAgree'
  <2>1. pc' \in [Workers -> Labels] /\ job' \in [Workers -> Job]
    BY <1>1 DEF Goto, Job
  <2> QED
    BY <2>1 DEF Shape, SendTypeOK, StoreInv, NodeKept
<1>b. JobShape'
  BY <1>1, <1>2, <1>4 DEF Shape, JobShape
<1>c. TokenIdentifiesJob'
  BY <1>1, <1>2, <1>4 DEF Shape, TokenIdentifiesJob
<1>d. FundingPrivate'
  <2>1. \A v \in Workers : pc[v] \in Funding => job[v].tx \in TxIds
    BY Working, StageFacts
  <2>2. \A i \in DOMAIN records : spends[records[i].tx] # None
    BY DEF Shape, RecordsDistinct
  <2>3. to \in Funding => t \notin Recorded
    BY <2>2 DEF Recorded
  <2>4. ASSUME NEW v \in Workers, pc'[v] \in Funding
        PROVE  /\ spends'[job'[v].tx] # None
               /\ job'[v].tx \notin Recorded'
               /\ \A u \in Workers \ {v} : pc'[u] \in Funding => job'[u].tx # job'[v].tx
    BY <1>2, <1>3, <2>1, <2>3, <2>4 DEF Shape, FundingPrivate, NodeKept
  <2>5. ASSUME NEW v \in Workers, pc'[v] \in {"fund", "save"}, Owner(v)'
        PROVE  idem'[job'[v].key].prepared = 0
    BY <1>1, <1>2, <1>3, <2>5 DEF Shape, FundingPrivate
  <2> QED
    BY <2>4, <2>5 DEF FundingPrivate
<1>e. ActsForRecord'
  BY <1>1, <1>2, <1>3 DEF Shape, ActsForRecord
<1>f. RecordsDistinct'
  BY <1>1, RecordFields DEF Shape, RecordsDistinct, NodeKept
<1>g. PreparedOnce'
  BY <1>1 DEF Shape, PreparedOnce
<1>h. PersistedBeforeSent'
  BY <1>3 DEF Shape, PersistedBeforeSent
<1> QED
  BY <1>a, <1>b, <1>c, <1>d, <1>e, <1>f, <1>g, <1>h DEF Shape

\* What load_prepared_broadcast finds is the record that the row names.
LEMMA LoadShape ==
    ASSUME Shape, StoreInv', NEW w \in Workers, Load(w)
    PROVE  Shape'
<1> DEFINE k == job[w].key
           id == LoadPrepared(k, job[w].request)
<1>1. /\ pc[w] = "load" /\ UNCHANGED <<storeVars, nodeVars, told>>
      /\ \/ id = 0 /\ Goto(w, "fund") /\ UNCHANGED job
         \/ id # 0 /\ Goto(w, "beat") /\ job' = [job EXCEPT ![w].tx = records[id].tx]
  BY DEF Load
<1>2. /\ k \in Keys /\ job[w].tx = None /\ pc[w] # "idle"
      /\ job \in [Workers -> Job] /\ pc[w] \in Unfunded
  BY <1>1, Working DEF Unfunded, Shape, SendTypeOK
<1>3. Owner(w) => idem[k].request = job[w].request
  BY <1>2 DEF Owner, Shape, TokenIdentifiesJob
<1>4. NodeKept /\ UNCHANGED <<wire, accepted>>
  BY <1>1, NodeUnchanged DEF nodeVars
<1>5. CASE id = 0 /\ Goto(w, "fund") /\ UNCHANGED job
  <2>1. job' = [job EXCEPT ![w].tx = None]
    BY <1>2, <1>5 DEF Job
  <2>2. Owner(w) => idem[k].prepared = 0
    BY <1>3, <1>5 DEF LoadPrepared
  <2>3. "fund" \in Labels /\ "fund" \in Unfunded /\ "fund" # "idle"
        /\ "fund" \notin Funding /\ "fund" \notin Persisted
    BY DEF Labels, Unfunded, Funding, Persisted
  <2> HIDE DEF k, id
  <2> QED
    BY <1>1, <1>2, <1>4, <1>5, <2>1, <2>2, <2>3, JobChange DEF k
<1>6. CASE id # 0 /\ Goto(w, "beat") /\ job' = [job EXCEPT ![w].tx = records[id].tx]
  <2>1. id = idem[k].prepared /\ idem[k].request = job[w].request
    BY <1>6 DEF LoadPrepared
  <2>2. Agrees(k, idem[k], records)
    BY <1>2 DEF Shape, TablesAgree
  <2>3. /\ id \in DOMAIN records
        /\ records[id].key = k
        /\ records[id].request = job[w].request
    BY <1>6, <2>1, <2>2 DEF Agrees
  <2>4. records[id].tx \in TxIds /\ records[id].tx # None
    BY <2>3, RecordFields, NoneAssumption
  <2>5. "beat" \in Labels /\ "beat" \notin Unfunded /\ "beat" # "idle"
        /\ "beat" \notin Funding /\ "beat" \notin {"fund", "save"}
    BY DEF Labels, Unfunded, Funding
  <2>6. \E i \in DOMAIN records :
            /\ records[i].key = job[w].key
            /\ records[i].request = job[w].request
            /\ records[i].tx = records[id].tx
            /\ Owner(w) => idem[job[w].key].prepared = i
    BY <2>1, <2>3
  <2> HIDE DEF k, id
  <2> QED
    BY <1>1, <1>2, <1>4, <1>6, <2>4, <2>5, <2>6, JobChange
<1> QED
  BY <1>1, <1>5, <1>6

\* A funded transaction is one that nobody had.
LEMMA FundShape ==
    ASSUME Shape, StoreInv', NEW w \in Workers, Fund(w)
    PROVE  Shape'
<1>1. PICK t \in TxIds, c \in Coins : FundTx(t, c) /\ job' = [job EXCEPT ![w].tx = t]
  BY DEF Fund
<1>2. /\ pc[w] = "fund" /\ Goto(w, "save")
      /\ UNCHANGED <<storeVars, wire, accepted, told>>
  BY DEF Fund
<1>3. NodeKept /\ spends[t] = None /\ spends'[t] # None
  BY <1>1, <1>2, FundKept
<1>4. t # None /\ pc[w] \in Unfunded
  BY <1>2, NoneAssumption DEF Unfunded
<1>5. Owner(w) => idem[job[w].key].prepared = 0
  BY <1>2 DEF Shape, FundingPrivate
<1>6. "save" \in Labels /\ "save" \notin Unfunded /\ "save" # "idle" /\ "save" \notin Persisted
  BY DEF Labels, Unfunded, Persisted
<1> QED
  BY <1>1, <1>2, <1>3, <1>4, <1>5, <1>6, JobChange

\* The record that is added is of a transaction that no record has, under a key
\* whose row names none.
LEMMA SaveShape ==
    ASSUME Shape, StoreInv', NEW w \in Workers, Save(w)
    PROVE  Shape'
<1> DEFINE k == job[w].key
           t == job[w].tx
           rec == [kind |-> "broadcast", key |-> k, request |-> job[w].request,
                   psbt |-> t, tx |-> t, status |-> "prepared"]
           n == Len(records) + 1
<1>1. PICK d \in 0..Lag : SavePrepared(k, job[w].request, job[w].token, t, d)
  BY DEF Save
<1>2. /\ pc[w] = "save" /\ Goto(w, "beat") /\ job' = job
      /\ UNCHANGED <<held, spends, locked, wire, accepted, told, recycled>>
      /\ records' = Append(records, rec)
  BY <1>1 DEF Save, Step, nodeVars, SavePrepared
<1>3. /\ pc \in [Workers -> Labels] /\ job \in [Workers -> Job]
      /\ idem \in [Keys -> Row] /\ records \in Seq(Record)
  BY DEF Shape, SendTypeOK, StoreTypeOK
<1>4. /\ k \in Keys /\ job[w].request \in Requests /\ t \in TxIds
      /\ job[w].token # None /\ pc[w] # "idle"
  BY <1>2, Working DEF Unfunded
<1>5. /\ idem[k].token = job[w].token /\ idem[k].prepared = 0
      /\ \A j \in Keys : /\ idem'[j].token = idem[j].token
                         /\ idem'[j].request = idem[j].request
      /\ \A j \in Keys \ {k} : idem'[j] = idem[j]
      /\ idem'[k].prepared = n
  <2>1. idem[k].token = job[w].token /\ idem[k].prepared = 0
    BY <1>1 DEF SavePrepared, CanSavePrepared
  <2>2. /\ \A j \in Keys \ {k} : idem'[j] = idem[j]
        /\ idem'[k].prepared = n
        /\ idem'[k].token = idem[k].token /\ idem'[k].request = idem[k].request
    BY <1>1, <1>3, <1>4, SavedRow
  <2> QED
    BY <2>1, <2>2
<1>6. /\ DOMAIN records' = DOMAIN records \cup {n} /\ n \notin DOMAIN records
      /\ records'[n] = rec
      /\ \A i \in DOMAIN records : records'[i] = records[i]
  BY <1>2, <1>3
<1>7. t \notin Recorded /\ spends[t] # None
      /\ \A v \in Workers \ {w} : pc[v] \in Funding => job[v].tx # t
  BY <1>2 DEF Shape, FundingPrivate, Funding
<1>8. Recorded' = Recorded \cup {t}
  BY <1>4, <1>6, NoneAssumption DEF Recorded
<1>9. /\ pc'[w] = "beat" /\ \A v \in Workers \ {w} : pc'[v] = pc[v]
      /\ \A v \in Workers : pc'[v] \in Funding => pc[v] \in Funding /\ v # w
      /\ \A v \in Workers : pc'[v] # "idle" => pc[v] # "idle" /\ (Owner(v)' <=> Owner(v))
  <2>1. pc'[w] = "beat" /\ \A v \in Workers \ {w} : pc'[v] = pc[v]
    BY <1>2, <1>3 DEF Goto
  <2>2. \A v \in Workers : pc'[v] \in Funding => pc[v] \in Funding /\ v # w
    BY <2>1 DEF Funding
  <2>3. \A v \in Workers : pc'[v] # "idle" => pc[v] # "idle"
    BY <1>4, <2>1
  <2>4. ASSUME NEW v \in Workers, pc'[v] # "idle" PROVE Owner(v)' <=> Owner(v)
    BY <1>2, <1>5, <2>3, <2>4, Working DEF Owner
  <2> QED
    BY <2>1, <2>2, <2>3, <2>4
<1>10. \A v \in Workers \ {w} : pc[v] # "idle" /\ Owner(v) => job[v].key # k
  BY <1>4, <1>5, Working DEF Owner, Shape, TokenIdentifiesJob
<1> HIDE DEF k, t, rec, n
<1>a. SendTypeOK' /\ OneOwner' /\ TablesAgree'
  <2>1. pc' \in [Workers -> Labels]
    BY <1>2, <1>3 DEF Goto, Labels
  <2> QED
    BY <1>2, <2>1 DEF Shape, SendTypeOK, StoreInv
<1>b. JobShape'
  BY <1>2, <1>9 DEF Shape, JobShape, Unfunded
<1>c. TokenIdentifiesJob'
  BY <1>2, <1>5, <1>9 DEF Shape, TokenIdentifiesJob
<1>d. FundingPrivate'
  <2>1. ASSUME NEW v \in Workers, pc'[v] \in Funding
        PROVE  /\ spends'[job'[v].tx] # None
               /\ job'[v].tx \notin Recorded'
               /\ \A u \in Workers \ {v} : pc'[u] \in Funding => job'[u].tx # job'[v].tx
    BY <1>2, <1>7, <1>8, <1>9, <2>1 DEF Shape, FundingPrivate
  <2>2. ASSUME NEW v \in Workers, pc'[v] \in {"fund", "save"}, Owner(v)'
        PROVE  idem'[job'[v].key].prepared = 0
    <3>1. v # w /\ pc[v] = pc'[v] /\ pc[v] # "idle" /\ Owner(v)
      BY <1>9, <2>2
    <3>2. job[v].key \in Keys \ {k}
      BY <1>10, <3>1, Working
    <3> QED
      BY <1>2, <1>5, <2>2, <3>1, <3>2 DEF Shape, FundingPrivate
  <2> QED
    BY <2>1, <2>2 DEF FundingPrivate
<1>e. ActsForRecord'
  <2> SUFFICES ASSUME NEW v \in Workers, pc'[v] \in Persisted
               PROVE  \E i \in DOMAIN records' :
                          /\ records'[i].key = job[v].key
                          /\ records'[i].request = job[v].request
                          /\ records'[i].tx = job[v].tx
                          /\ Owner(v) => idem'[job[v].key].prepared = i
    BY <1>2, <1>9, StageFacts DEF ActsForRecord
  <2>1. CASE v = w
    BY <1>5, <1>6, <2>1 DEF k, t, rec
  <2>2. CASE v # w
    <3>1. pc[v] \in Persisted /\ pc[v] # "idle"
      BY <1>9, <2>2 DEF Persisted
    <3>2. Owner(v) => idem'[job[v].key] = idem[job[v].key]
      BY <1>5, <1>10, <2>2, <3>1, Working
    <3> QED
      BY <1>6, <3>1, <3>2 DEF Shape, ActsForRecord
  <2> QED
    BY <2>1, <2>2
<1>f. RecordsDistinct'
  <2>1. rec.kind = "broadcast" /\ rec.key \in Keys /\ rec.tx = t /\ t # None
    BY <1>4, NoneAssumption DEF rec
  <2>2. \A i \in DOMAIN records : records[i].tx # t
    BY <1>4, <1>7, NoneAssumption DEF Recorded
  <2> QED
    BY <1>2, <1>6, <1>7, <2>1, <2>2 DEF Shape, RecordsDistinct
<1>g. PreparedOnce'
  <2> SUFFICES ASSUME NEW i \in DOMAIN records', records'[i].key \notin recycled
               PROVE  idem'[records'[i].key].prepared = i
    BY <1>2 DEF PreparedOnce
  <2>1. CASE i = n
    BY <1>5, <1>6, <2>1 DEF rec
  <2>2. CASE i \in DOMAIN records
    <3>1. idem[records[i].key].prepared = i /\ records[i].key \in Keys /\ i # 0
      BY <1>6, <2>2, RecordFields DEF Shape, PreparedOnce
    <3> QED
      BY <1>5, <1>6, <2>2, <3>1
  <2> QED
    BY <1>6, <2>1, <2>2
<1>h. PersistedBeforeSent'
  BY <1>2, <1>8 DEF Shape, PersistedBeforeSent
<1> QED
  BY <1>a, <1>b, <1>c, <1>d, <1>e, <1>f, <1>g, <1>h DEF Shape

\* Answers that are told have the type of answers.
LEMMA ReplayTold ==
    ASSUME Shape, NEW k \in Keys, NEW r \in Requests, NEW reply \in Reply,
           told' = told \cup {Answer(k, r, reply)}
    PROVE  ToldType
BY DEF Shape, SendTypeOK, ToldType, Answer

\* Every step of a handler keeps Shape, ...
LEMMA HandleShape ==
    ASSUME Shape, StoreInv', NEW w \in Workers, Handle(w)
    PROVE  Shape'
<1>1. CASE Load(w)
  BY <1>1, LoadShape
<1>2. CASE Fund(w)
  BY <1>2, FundShape
<1>3. CASE Save(w)
  BY <1>3, SaveShape
<1>4. CASE FundFails(w)
  BY <1>4, EndShape, NodeUnchanged, ToldSame DEF FundFails
<1>5. CASE FundLost(w)
  <2>1. NodeKept
    BY <1>5, FundKept DEF FundLost
  <2> QED
    BY <1>5, <2>1, EndShape, ToldSame DEF FundLost
<1>6. CASE Abort(w)
  <2>1. NodeKept
    BY <1>6, UnlockType, NodeSame DEF Abort
  <2> QED
    BY <1>6, <2>1, EndShape, ToldSame DEF Abort
<1>7. CASE SaveFails(w)
  BY <1>7, MoveShape, NodeUnchanged DEF SaveFails, Step, SameStage, Labels
<1>8. CASE Beat(w)
  <2>1. PICK d \in 0..Lag : HeartbeatClaim(job[w].key, job[w].token, d)
    BY <1>8 DEF Beat
  <2>2. pc[w] = "beat" /\ Step(w, pc[w], "known1") /\ UNCHANGED <<held, nodeVars, told>>
    BY <1>8 DEF Beat, Step
  <2>3. RowsKept
    BY <2>1, <2>2, BeatRows, Working
  <2> QED
    BY <2>2, <2>3, WriteShape, NodeUnchanged, ToldSame DEF Persisted
<1>9. CASE Known(w) \/ NotKnown(w) \/ TestAccept(w) \/ Answered(w)
  <2>1. /\ pc[w] \in Persisted /\ pc[w] # "idle" /\ UNCHANGED <<storeVars, nodeVars, told, job>>
        /\ \E to \in Persisted : Goto(w, to)
    BY <1>9 DEF Known, NotKnown, TestAccept, Answered, Step, Persisted
  <2>2. PICK to \in Persisted : Goto(w, to)
    BY <2>1
  <2>3. to \in Labels /\ SameStage(pc[w], to)
    BY <2>1, StageFacts DEF SameStage
  <2> QED
    BY <2>1, <2>2, <2>3, MoveShape, NodeUnchanged
<1>10. CASE Post(w)
  <2>1. /\ pc[w] = "send" /\ Goto(w, "sent") /\ wire' = wire \cup {job[w].tx}
        /\ UNCHANGED <<storeVars, spends, locked, accepted, told, job>>
    BY <1>10 DEF Post, Step
  <2>2. job[w].tx \in Recorded
    <3>1. PICK i \in DOMAIN records : records[i].tx = job[w].tx
      BY <2>1 DEF Shape, ActsForRecord, Persisted
    <3> QED
      BY <3>1, RecordFields, NoneAssumption DEF Recorded
  <2>3. NodeKept
    BY <2>1, <2>2 DEF NodeKept, Shape, SendTypeOK
  <2> QED
    BY <2>1, <2>3, MoveShape DEF Labels, SameStage, Persisted
<1>11. CASE FailPrepared(w)
  <2>1. pc[w] = "fail" /\ Step(w, pc[w], "unlock") /\ UNCHANGED <<held, nodeVars, told>>
    BY <1>11 DEF FailPrepared, Step
  <2>2. RowsKept
    BY <1>11, <2>1, FailedRows, Working DEF FailPrepared
  <2> QED
    BY <2>1, <2>2, WriteShape, NodeUnchanged, ToldSame DEF Persisted
<1>12. CASE UnlockRejected(w)
  <2>1. NodeKept
    BY <1>12, UnlockType, NodeSame DEF UnlockRejected
  <2>2. pc[w] # "idle" /\ End(w) /\ UNCHANGED <<idem, records, recycled>>
    BY <1>12 DEF UnlockRejected
  <2>3. ToldType
    BY <1>12, <2>2, Working, ReplyType, ReplayTold DEF UnlockRejected
  <2> QED
    BY <2>1, <2>2, <2>3, EndShape
<1>13. CASE BecomeUnknown(w)
  <2>1. PICK d \in 0..Lag : MarkUnknown(job[w].key, job[w].token, job[w].tx, d)
    BY <1>13 DEF BecomeUnknown
  <2>2. pc[w] # "idle" /\ End(w) /\ UNCHANGED <<nodeVars, told>>
    BY <1>13 DEF BecomeUnknown
  <2>3. RowsKept
    BY <2>1, <2>2, UnknownRows, Working
  <2> QED
    BY <2>2, <2>3, WriteShape, NodeUnchanged, ToldSame
<1>14. CASE BecomeBroadcast(w)
  <2>1. PICK d \in 0..Lag : MarkBroadcast(job[w].key, job[w].token, job[w].tx, d)
    BY <1>14 DEF BecomeBroadcast
  <2>2. pc[w] = "mark" /\ Step(w, pc[w], "respond") /\ UNCHANGED <<held, nodeVars, told>>
    BY <1>14 DEF BecomeBroadcast, Step
  <2>3. RowsKept
    BY <2>1, <2>2, BroadcastRows, Working
  <2> QED
    BY <2>2, <2>3, WriteShape, NodeUnchanged, ToldSame DEF Persisted
<1>15. CASE Respond(w)
  <2>1. PICK d \in 0..Lag :
            StoreResponse(job[w].key, job[w].request, job[w].token, d, Ok(job[w].tx))
    BY <1>15 DEF Respond
  <2>2. /\ pc[w] = "respond" /\ pc[w] # "idle" /\ End(w) /\ UNCHANGED nodeVars
        /\ told' = told \cup {Answer(job[w].key, job[w].request, Ok(job[w].tx))}
    BY <1>15 DEF Respond
  <2>3. RowsKept
    BY <2>1, <2>2, ResponseRows, Working
  <2>4. Ok(job[w].tx) \in Reply
    BY <2>2, Working, ReplyType DEF Unfunded
  <2>5. ToldType
    BY <2>2, <2>4, Working, ReplayTold
  <2> QED
    BY <2>2, <2>3, <2>5, WriteShape, NodeUnchanged
<1>16. CASE LoseClaim(w)
  BY <1>16, EndShape, NodeUnchanged, ToldSame DEF LoseClaim, ClaimLost
<1> QED
  BY <1>1, <1>2, <1>3, <1>4, <1>5, <1>6, <1>7, <1>8, <1>9, <1>10, <1>11, <1>12,
     <1>13, <1>14, <1>15, <1>16 DEF Handle

\* ... and so does every step of the system.
LEMMA ShapeStep ==
    ASSUME Shape, SendNext \/ CoreRestart
    PROVE  Shape'
<1>0. StoreInv'
  BY HandlerIsClient, StoreHalf, StoreStepInv
<1>1. ASSUME NEW w \in Workers, Begin(w) PROVE Shape'
  BY <1>0, <1>1, BeginShape
<1>2. ASSUME NEW w \in Workers, Replay(w) PROVE Shape'
  <2>1. UNCHANGED <<storeVars, nodeVars, pc, job>>
    BY <1>2 DEF Replay
  <2>2. PICK k \in Keys, r \in Requests : told' = told \cup {Answer(k, r, idem[k].reply)}
    BY <1>2 DEF Replay
  <2>3. idem[k].reply \in Reply
    BY DEF Shape, SendTypeOK, StoreTypeOK, Row
  <2>4. ToldType
    BY <2>2, <2>3, ReplayTold
  <2> QED
    BY <1>0, <2>1, <2>4, Rests, RowsSame, NodeUnchanged, FrameShape DEF storeVars
<1>3. ASSUME NEW w \in Workers, Handle(w) PROVE Shape'
  BY <1>0, <1>3, HandleShape
<1>4. ASSUME NEW w \in Workers, Crash(w) PROVE Shape'
  BY <1>0, <1>4, EndShape, NodeUnchanged, ToldSame DEF Crash
<1>5. ASSUME NEW t \in TxIds, Land(t) PROVE Shape'
  <2>1. NodeKept
    BY <1>5 DEF Land, NodeKept, Shape, SendTypeOK
  <2> QED
    BY <1>0, <1>5, <2>1, Rests, RowsSame, ToldSame, FrameShape DEF Land, storeVars
<1>6. ASSUME Second PROVE Shape'
  BY <1>0, <1>6, Rests, TickRows, NodeUnchanged, ToldSame, FrameShape DEF Second, Tick
<1>7. ASSUME CoreRestart PROVE Shape'
  <2>1. NodeKept
    BY <1>7, NodeSame DEF CoreRestart
  <2> QED
    BY <1>0, <1>7, <2>1, Rests, RowsSame, ToldSame, FrameShape DEF CoreRestart, storeVars
<1> QED
  BY <1>1, <1>2, <1>3, <1>4, <1>5, <1>6, <1>7 DEF SendNext

-----------------------------------------------------------------------------
(* Each step keeps Answers: first the steps that settle and tell nothing *)

\* No row is settled, and no record becomes or stops being a broadcast one.
RowsQuiet ==
    /\ \A k \in Keys :
        /\ idem'[k].state \in Final \/ (idem[k].state \in Final /\ k \notin recycled') =>
            /\ idem'[k].state = idem[k].state
            /\ idem'[k].request = idem[k].request
            /\ idem'[k].reply = idem[k].reply
        /\ idem'[k].state \in Final => idem'[k].prepared = idem[k].prepared
    /\ \A i \in DOMAIN records :
        /\ i \in DOMAIN records'
        /\ records'[i].tx = records[i].tx
        /\ records'[i].status = records[i].status
    /\ \A i \in DOMAIN records' : records'[i].status = "broadcast" => i \in DOMAIN records
    /\ recycled \subseteq recycled'

\* No worker comes to report a success or a rejection that it does not know of.
WorkersQuiet ==
    \A v \in Workers :
        /\ pc'[v] = "mark" => job'[v].tx \in accepted'
        /\ pc'[v] \in {"respond", "unlock"} => pc'[v] = pc[v] /\ job'[v] = job[v]
        /\ pc'[v] = "respond" /\ Owner(v)' =>
               Owner(v) /\ idem'[job[v].key].state = idem[job[v].key].state

\* The reason why most steps keep Answers: no row settles, no worker comes to
\* report, the node only takes more, nobody is told anything.
LEMMA QuietAnswers ==
    ASSUME Shape, Answers, RowsQuiet, WorkersQuiet, accepted \subseteq accepted', told' = told
    PROVE  Answers'
<1>1. SettledMatchesNode'
  <2>1. ASSUME NEW i \in DOMAIN records', records'[i].status = "broadcast"
        PROVE  records'[i].tx \in accepted'
    BY <2>1 DEF Answers, SettledMatchesNode, RowsQuiet
  <2>2. ASSUME NEW k \in Keys, idem'[k].state = "SUCCEEDED"
        PROVE  /\ idem'[k].prepared # 0
               /\ records'[idem'[k].prepared].status = "broadcast"
               /\ idem'[k].reply = Ok(records'[idem'[k].prepared].tx)
    <3>1. /\ idem[k].state = "SUCCEEDED" /\ idem'[k].reply = idem[k].reply
          /\ idem'[k].prepared = idem[k].prepared
      BY <2>2 DEF RowsQuiet, Final
    <3>2. idem[k].prepared # 0 => idem[k].prepared \in DOMAIN records
      BY DEF Shape, TablesAgree, Agrees
    <3> QED
      BY <3>1, <3>2 DEF Answers, SettledMatchesNode, RowsQuiet
  <2> QED
    BY <2>1, <2>2 DEF SettledMatchesNode
<1>2. MarkedAfterAccepted'
  BY DEF Answers, MarkedAfterAccepted, WorkersQuiet, Owner
<1>3. ToldFromRow'
  <2>1. \A k \in Keys : idem'[k].state = "FAILED_FINAL" => idem'[k].reply = Rejected
    BY DEF Answers, ToldFromRow, RowsQuiet, Final
  <2>2. ASSUME NEW a \in told, a.key \notin recycled'
        PROVE  /\ idem'[a.key].state \in Final
               /\ idem'[a.key].request = a.request
               /\ idem'[a.key].reply = a.reply
    <3>1. a.key \in Keys /\ a.key \notin recycled
      BY <2>2 DEF Shape, SendTypeOK, RowsQuiet
    <3> QED
      BY <2>2, <3>1 DEF Answers, ToldFromRow, RowsQuiet
  <2>3. ASSUME NEW v \in Workers, pc'[v] = "unlock", job'[v].key \notin recycled'
        PROVE  /\ idem'[job'[v].key].state = "FAILED_FINAL"
               /\ idem'[job'[v].key].request = job'[v].request
    <3>1. pc[v] = "unlock" /\ job'[v] = job[v] /\ job[v].key \notin recycled
      BY <2>3 DEF WorkersQuiet, RowsQuiet
    <3>2. job[v].key \in Keys
      BY <3>1, Working
    <3> QED
      BY <2>3, <3>1, <3>2 DEF Answers, ToldFromRow, RowsQuiet, Final
  <2> QED
    BY <2>1, <2>2, <2>3 DEF ToldFromRow
<1>4. OkMeansAccepted'
  BY DEF Answers, OkMeansAccepted
<1> QED
  BY <1>1, <1>2, <1>3, <1>4 DEF Answers

\* An unchanged store is quiet.
LEMMA StoreQuiet == ASSUME UNCHANGED <<idem, records, recycled>> PROVE RowsQuiet
BY DEF RowsQuiet

\* One worker moves on, to a label where nothing is reported yet.
LEMMA MoveQuiet ==
    ASSUME Shape, Answers, NEW w \in Workers, NEW to \in Labels, Goto(w, to),
           to \notin {"respond", "unlock"}, accepted \subseteq accepted',
           to = "mark" => job'[w].tx \in accepted',
           \A v \in Workers \ {w} : job'[v] = job[v],
           \A v \in Workers \ {w} : pc[v] = "respond" /\ idem'[job[v].key].token = job[v].token =>
               Owner(v) /\ idem'[job[v].key].state = idem[job[v].key].state
    PROVE  WorkersQuiet
<1>1. pc' = [pc EXCEPT ![w] = to] /\ pc \in [Workers -> Labels]
  BY DEF Goto, Shape, SendTypeOK
<1> QED
  BY <1>1 DEF Answers, MarkedAfterAccepted, WorkersQuiet, Owner

\* A worker that moves on, ...
LEMMA MoveAnswers ==
    ASSUME Shape, Answers, NEW w \in Workers, NEW to \in Labels, Goto(w, to),
           to \notin {"respond", "unlock"}, UNCHANGED <<idem, records, recycled, accepted, told>>,
           to = "mark" => job'[w].tx \in accepted,
           \A v \in Workers \ {w} : job'[v] = job[v]
    PROVE  Answers'
BY MoveQuiet, StoreQuiet, QuietAnswers DEF Owner

\* ... or ends, without a write is quiet, too.
LEMMA EndAnswers ==
    ASSUME Shape, Answers, NEW w \in Workers, End(w),
           UNCHANGED <<idem, records, recycled, accepted, told>>
    PROVE  Answers'
<1>1. job \in [Workers -> Job]
  BY DEF Shape, SendTypeOK
<1>2. Goto(w, "idle") /\ \A v \in Workers \ {w} : job'[v] = job[v]
  BY <1>1 DEF End
<1> QED
  BY <1>2, MoveAnswers DEF Labels

\* All workers stay where they are.
LEMMA RestAnswers ==
    ASSUME Shape, Answers, RowsQuiet, UNCHANGED <<pc, job, told>>, accepted \subseteq accepted',
           \A v \in Workers : pc[v] = "respond" =>
               /\ idem'[job[v].key].token = idem[job[v].key].token
               /\ idem'[job[v].key].state = idem[job[v].key].state
    PROVE  Answers'
<1>1. WorkersQuiet
  BY DEF Answers, MarkedAfterAccepted, WorkersQuiet, Owner
<1> QED
  BY <1>1, QuietAnswers

\* A claim settles nothing; a row that it deletes is recycled.
LEMMA BeginAnswers ==
    ASSUME Shape, Answers, NEW w \in Workers, Begin(w)
    PROVE  Answers'
<1>1. PICK k \in Keys, r \in Requests, tok \in Tokens, d \in 0..Lag :
          /\ Claim(k, r, tok, d)
          /\ job' = [job EXCEPT ![w] =
                       [key |-> k, request |-> r, token |-> tok, tx |-> None]]
  BY DEF Begin
<1>2. Goto(w, "load") /\ UNCHANGED <<accepted, told>>
  BY DEF Begin, nodeVars
<1>3. /\ idem'[k].token = tok
      /\ \A j \in Keys \ {k} : idem'[j] = idem[j]
      /\ records' = records /\ recycled \subseteq recycled'
      /\ tok # None /\ tok \notin held
  BY <1>1, ClaimFacts
<1>4. \A v \in Workers \ {w} : job'[v] = job[v]
  BY <1>1 DEF Shape, SendTypeOK
<1>5. idem'[k].state \notin Final /\ (idem[k].state \in Final => k \in recycled')
  <2>1. idem \in [Keys -> Row]
    BY DEF Shape, SendTypeOK, StoreTypeOK
  <2>2. CASE ClaimFresh(k, r, tok, d)
    <3>1. idem'[k].state = "CLAIMED"
      BY <2>1, <2>2 DEF ClaimFresh, NoRow
    <3>2. idem[k].state # "ABSENT" => k \in recycled'
      BY <2>2 DEF ClaimFresh
    <3> QED
      BY <3>1, <3>2 DEF Final
  <2>3. CASE ClaimTakeover(k, r, tok, d)
    BY <2>1, <2>3 DEF ClaimTakeover, CanTakeOver, Row, Open, Final
  <2> QED
    BY <1>1, <2>2, <2>3 DEF Claim
<1>6. RowsQuiet
  BY <1>3, <1>5 DEF RowsQuiet
<1>7. \A v \in Workers \ {w} : pc[v] = "respond" /\ idem'[job[v].key].token = job[v].token =>
          Owner(v) /\ idem'[job[v].key].state = idem[job[v].key].state
  BY <1>3, Working DEF Owner
<1>8. WorkersQuiet
  BY <1>2, <1>4, <1>7, MoveQuiet DEF Labels
<1> QED
  BY <1>2, <1>6, <1>8, QuietAnswers

\* A record that is prepared is not broadcast.
LEMMA SaveAnswers ==
    ASSUME Shape, Answers, NEW w \in Workers, Save(w)
    PROVE  Answers'
<1>1. PICK d \in 0..Lag :
          SavePrepared(job[w].key, job[w].request, job[w].token, job[w].tx, d)
  BY DEF Save
<1>2. /\ pc[w] = "save" /\ Goto(w, "beat") /\ job' = job /\ UNCHANGED <<accepted, told, recycled>>
  BY <1>1 DEF Save, Step, nodeVars, SavePrepared
<1>3. idem \in [Keys -> Row] /\ records \in Seq(Record) /\ job[w].key \in Keys
  BY <1>2, Working DEF Shape, SendTypeOK, StoreTypeOK
<1>4. /\ idem[job[w].key].token = job[w].token /\ idem[job[w].key].state = "CLAIMED"
      /\ idem'[job[w].key].state = "PREPARED" /\ idem'[job[w].key].token = job[w].token
      /\ \A j \in Keys \ {job[w].key} : idem'[j] = idem[j]
  <2>1. idem[job[w].key].token = job[w].token /\ idem[job[w].key].state = "CLAIMED"
    BY <1>1 DEF SavePrepared, CanSavePrepared
  <2>2. /\ idem'[job[w].key].state = "PREPARED"
        /\ idem'[job[w].key].token = idem[job[w].key].token
        /\ \A j \in Keys \ {job[w].key} : idem'[j] = idem[j]
    BY <1>1, <1>3, SavedRow
  <2> QED
    BY <2>1, <2>2
<1>5. RowsQuiet
  <2>1. /\ \A i \in DOMAIN records : i \in DOMAIN records' /\ records'[i] = records[i]
        /\ \A i \in DOMAIN records' : i \notin DOMAIN records => records'[i].status = "prepared"
    <3> DEFINE rec == [kind |-> "broadcast", key |-> job[w].key, request |-> job[w].request,
                       psbt |-> job[w].tx, tx |-> job[w].tx, status |-> "prepared"]
    <3>1. records' = Append(records, rec) /\ rec.status = "prepared"
      BY <1>1 DEF SavePrepared
    <3> HIDE DEF rec
    <3>2. PICK r \in Seq(Record) : r = records
      BY <1>3
    <3>3. /\ Len(r) \in Nat /\ DOMAIN r = 1..Len(r)
          /\ DOMAIN Append(r, rec) = 1..Len(r) + 1
          /\ \A i \in 1..Len(r) : Append(r, rec)[i] = r[i]
          /\ Append(r, rec)[Len(r) + 1] = rec
      OBVIOUS
    <3>4. \A i \in DOMAIN r : i \in DOMAIN Append(r, rec) /\ Append(r, rec)[i] = r[i]
      BY <3>3
    <3>5. \A i \in DOMAIN Append(r, rec) : i \notin DOMAIN r => Append(r, rec)[i] = rec
      BY <3>3
    <3> QED
      BY <3>1, <3>2, <3>4, <3>5
  <2> QED
    BY <1>2, <1>4, <2>1 DEF RowsQuiet, Final
<1>6. \A v \in Workers \ {w} : pc[v] # "idle" /\ idem'[job[v].key].token = job[v].token =>
          job[v].key # job[w].key
  BY <1>2, <1>4, Working DEF Shape, TokenIdentifiesJob
<1>7. WorkersQuiet
  <2>1. \A v \in Workers \ {w} : pc[v] = "respond" /\ idem'[job[v].key].token = job[v].token =>
            Owner(v) /\ idem'[job[v].key].state = idem[job[v].key].state
    BY <1>4, <1>6, Working DEF Owner
  <2> QED
    BY <1>2, <2>1, MoveQuiet DEF Labels
<1> QED
  BY <1>2, <1>5, <1>7, QuietAnswers

\* A heartbeat and ...
LEMMA BeatAnswers ==
    ASSUME Shape, Answers, NEW w \in Workers, Beat(w)
    PROVE  Answers'
<1>1. PICK d \in 0..Lag : HeartbeatClaim(job[w].key, job[w].token, d)
  BY DEF Beat
<1>2. /\ pc[w] = "beat" /\ Goto(w, "known1") /\ job' = job
      /\ UNCHANGED <<accepted, told, recycled, records>>
  BY <1>1 DEF Beat, Step, nodeVars, HeartbeatClaim
<1>3. idem \in [Keys -> Row] /\ job[w].key \in Keys
  BY <1>2, Working DEF Shape, SendTypeOK, StoreTypeOK
<1>4. \A j \in Keys : /\ idem'[j].state = idem[j].state
                     /\ idem'[j].token = idem[j].token
                     /\ idem'[j].request = idem[j].request
                     /\ idem'[j].reply = idem[j].reply
                     /\ idem'[j].prepared = idem[j].prepared
  BY <1>1, <1>3 DEF HeartbeatClaim, Row
<1>5. RowsQuiet
  BY <1>2, <1>4 DEF RowsQuiet
<1>6. WorkersQuiet
  BY <1>2, <1>4, Working, MoveQuiet DEF Labels, Owner
<1> QED
  BY <1>2, <1>5, <1>6, QuietAnswers

\* ... an unknown outcome change no settled row.
LEMMA UnknownAnswers ==
    ASSUME Shape, Answers, NEW w \in Workers, BecomeUnknown(w)
    PROVE  Answers'
<1>1. PICK d \in 0..Lag : MarkUnknown(job[w].key, job[w].token, job[w].tx, d)
  BY DEF BecomeUnknown
<1>2. /\ pc[w] = "unknown" /\ End(w) /\ UNCHANGED <<accepted, told, recycled, records>>
  BY <1>1 DEF BecomeUnknown, nodeVars, MarkUnknown
<1>3. /\ idem \in [Keys -> Row] /\ job[w].key \in Keys
      /\ Goto(w, "idle") /\ \A v \in Workers \ {w} : job'[v] = job[v]
  BY <1>2, Working DEF Shape, SendTypeOK, StoreTypeOK, End
<1>4. /\ idem[job[w].key].token = job[w].token /\ idem[job[w].key].state \notin Final
      /\ idem'[job[w].key].state \notin Final /\ idem'[job[w].key].token = job[w].token
      /\ \A j \in Keys \ {job[w].key} : idem'[j] = idem[j]
  <2>1. /\ idem[job[w].key].token = job[w].token
        /\ idem[job[w].key].state \in {"PREPARED", "BROADCAST", "UNKNOWN"}
    BY <1>1 DEF MarkUnknown, CanMarkUnknown
  <2>2. /\ idem'[job[w].key].state = "UNKNOWN"
        /\ idem'[job[w].key].token = idem[job[w].key].token
        /\ \A j \in Keys \ {job[w].key} : idem'[j] = idem[j]
    BY <1>1, <1>3 DEF MarkUnknown, Row
  <2> QED
    BY <2>1, <2>2 DEF Final
<1>5. RowsQuiet
  BY <1>2, <1>4 DEF RowsQuiet
<1>6. \A v \in Workers \ {w} : pc[v] # "idle" /\ idem'[job[v].key].token = job[v].token =>
          job[v].key # job[w].key
  BY <1>2, <1>4, Working DEF Shape, TokenIdentifiesJob
<1>7. WorkersQuiet
  <2>1. \A v \in Workers \ {w} : pc[v] = "respond" /\ idem'[job[v].key].token = job[v].token =>
            Owner(v) /\ idem'[job[v].key].state = idem[job[v].key].state
    BY <1>4, <1>6, Working DEF Owner
  <2> QED
    BY <1>2, <1>3, <2>1, MoveQuiet DEF Labels
<1> QED
  BY <1>2, <1>5, <1>7, QuietAnswers

-----------------------------------------------------------------------------
(* The steps that settle a row, or tell a client *)

\* What is marked broadcast was accepted: MarkedAfterAccepted.
LEMMA BroadcastAnswers ==
    ASSUME Shape, Answers, NEW w \in Workers, BecomeBroadcast(w)
    PROVE  Answers'
<1> DEFINE k == job[w].key
           t == job[w].tx
           p == idem[k].prepared
<1>1. PICK d \in 0..Lag : MarkBroadcast(k, job[w].token, t, d)
  BY DEF BecomeBroadcast
<1>2. /\ pc[w] = "mark" /\ Goto(w, "respond") /\ job' = job
      /\ UNCHANGED <<accepted, told, recycled>>
  BY <1>1 DEF BecomeBroadcast, Step, nodeVars, MarkBroadcast
<1>3. /\ idem \in [Keys -> Row] /\ k \in Keys /\ pc \in [Workers -> Labels]
      /\ t \in accepted
  BY <1>2, Working DEF Shape, SendTypeOK, StoreTypeOK, Answers, MarkedAfterAccepted
<1>4. /\ idem[k].token = job[w].token /\ idem[k].payhash = t
      /\ idem[k].state \in {"PREPARED", "UNKNOWN", "BROADCAST"}
  BY <1>1 DEF MarkBroadcast, CanMarkBroadcast
<1>5. /\ idem'[k].state = "BROADCAST" /\ \A j \in Keys \ {k} : idem'[j] = idem[j]
  BY <1>1, <1>3 DEF MarkBroadcast, Row
<1>6. /\ p \in DOMAIN records /\ records[p].tx = t /\ records[p].key = k
  BY <1>3, <1>4 DEF Shape, TablesAgree, Agrees
<1>7. /\ DOMAIN records' = DOMAIN records
      /\ \A n \in DOMAIN records :
             /\ records[n] \in Record
             /\ records'[n] = IF n = p THEN [records[n] EXCEPT !.status = "broadcast"]
                                       ELSE records[n]
  <2>1. SetStatus(k, "broadcast")
    BY <1>1 DEF MarkBroadcast
  <2> QED
    BY <1>3, <2>1, StoreHalf, SetStatusFacts
<1>8. /\ \A n \in DOMAIN records : records'[n].tx = records[n].tx
      /\ records'[p].status = "broadcast"
      /\ \A n \in DOMAIN records \ {p} : records'[n].status = records[n].status
  BY <1>6, <1>7 DEF Record
<1>9. idem[k].state \notin Final /\ idem'[k].state \notin Final
  BY <1>4, <1>5 DEF Final
<1> HIDE DEF k, t, p
<1>a. SettledMatchesNode'
  <2>1. \A i \in DOMAIN records' : records'[i].status = "broadcast" => records'[i].tx \in accepted'
    BY <1>2, <1>3, <1>6, <1>7, <1>8 DEF Answers, SettledMatchesNode
  <2>2. ASSUME NEW j \in Keys, idem'[j].state = "SUCCEEDED"
        PROVE  /\ idem'[j].prepared # 0
               /\ records'[idem'[j].prepared].status = "broadcast"
               /\ idem'[j].reply = Ok(records'[idem'[j].prepared].tx)
    <3>1. j # k /\ idem'[j] = idem[j]
      BY <1>5, <2>2
    <3>2. idem[j].prepared # 0 => idem[j].prepared \in DOMAIN records
      BY DEF Shape, TablesAgree, Agrees
    <3> QED
      BY <1>8, <2>2, <3>1, <3>2 DEF Answers, SettledMatchesNode
  <2> QED
    BY <2>1, <2>2 DEF SettledMatchesNode
<1>b. MarkedAfterAccepted'
  <2> SUFFICES ASSUME NEW v \in Workers
               PROVE  /\ pc'[v] \in {"mark", "respond"} => job[v].tx \in accepted
                      /\ pc'[v] = "respond" /\ Owner(v)' => idem'[job[v].key].state = "BROADCAST"
    BY <1>2 DEF MarkedAfterAccepted
  <2>1. CASE v = w
    BY <1>2, <1>3, <1>5, <2>1 DEF Goto, k, t
  <2>2. CASE v # w
    <3>1. pc'[v] = pc[v]
      BY <1>2, <1>3, <2>2 DEF Goto
    <3>2. job[v].key = k => idem'[job[v].key].state = "BROADCAST"
      BY <1>5
    <3>3. pc[v] = "respond" /\ job[v].key # k => idem'[job[v].key] = idem[job[v].key]
      BY <1>5, Working
    <3> QED
      BY <1>2, <3>1, <3>2, <3>3 DEF Answers, MarkedAfterAccepted, Owner
  <2> QED
    BY <2>1, <2>2
<1>c. ToldFromRow'
  <2>1. \A a \in told : a.key \in Keys
    BY DEF Shape, SendTypeOK
  <2>2. \A v \in Workers : pc'[v] = "unlock" => pc[v] = "unlock" /\ job[v].key \in Keys
    BY <1>2, <1>3, Working DEF Goto
  <2>3. \A j \in Keys : idem'[j].state = "FAILED_FINAL" => j # k
    BY <1>5
  <2> QED
    BY <1>2, <1>4, <1>5, <1>9, <2>1, <2>2, <2>3 DEF Answers, ToldFromRow, Final
<1>d. OkMeansAccepted'
  BY <1>2 DEF Answers, OkMeansAccepted
<1> QED
  BY <1>a, <1>b, <1>c, <1>d DEF Answers

\* A rejection settles an open row, of which nobody was told anything yet.
LEMMA FailAnswers ==
    ASSUME Shape, Answers, NEW w \in Workers, FailPrepared(w)
    PROVE  Answers'
<1> DEFINE k == job[w].key
           p == idem[k].prepared
<1>1. MarkPreparedFailed(k, job[w].token)
  BY DEF FailPrepared
<1>2. /\ pc[w] = "fail" /\ Goto(w, "unlock") /\ job' = job
      /\ UNCHANGED <<accepted, told, recycled>>
  BY <1>1 DEF FailPrepared, Step, nodeVars, MarkPreparedFailed
<1>3. /\ idem \in [Keys -> Row] /\ k \in Keys /\ pc \in [Workers -> Labels]
  BY <1>2, Working DEF Shape, SendTypeOK, StoreTypeOK
<1>4. /\ idem[k].token = job[w].token /\ idem[k].state \in {"PREPARED", "UNKNOWN"}
  BY <1>1 DEF MarkPreparedFailed, CanMarkPreparedFailed
<1>5. /\ idem'[k].state = "FAILED_FINAL" /\ idem'[k].reply = Rejected
      /\ idem'[k].request = idem[k].request
      /\ idem'[k].token = None
      /\ \A j \in Keys \ {k} : idem'[j] = idem[j]
  BY <1>1, <1>3, FailedRow DEF MarkPreparedFailed
<1>6. p \in DOMAIN records /\ records[p].key = k
  BY <1>3, <1>4 DEF Shape, TablesAgree, Agrees
<1>7. /\ DOMAIN records' = DOMAIN records
      /\ \A n \in DOMAIN records :
             /\ records[n] \in Record
             /\ records'[n] = IF n = p THEN [records[n] EXCEPT !.status = "rejected"]
                                       ELSE records[n]
  <2>1. SetStatus(k, "rejected")
    BY <1>1 DEF MarkPreparedFailed
  <2> QED
    BY <1>3, <2>1, StoreHalf, SetStatusFacts
<1>8. /\ \A n \in DOMAIN records : records'[n].tx = records[n].tx
      /\ records'[p].status = "rejected"
      /\ \A n \in DOMAIN records \ {p} : records'[n].status = records[n].status
  BY <1>6, <1>7 DEF Record
<1>9. idem[k].state \notin Final /\ idem[k].request = job[w].request
  <2>1. idem[k].state \notin Final
    BY <1>4 DEF Final
  <2>2. idem[k].request = job[w].request
    BY <1>2, <1>3, <1>4 DEF Shape, TokenIdentifiesJob
  <2> QED
    BY <2>1, <2>2
<1> HIDE DEF k, p
<1>a. SettledMatchesNode'
  <2>1. \A i \in DOMAIN records' : records'[i].status = "broadcast" => records'[i].tx \in accepted'
    BY <1>2, <1>7, <1>8 DEF Answers, SettledMatchesNode
  <2>2. ASSUME NEW j \in Keys, idem'[j].state = "SUCCEEDED"
        PROVE  /\ idem'[j].prepared # 0
               /\ records'[idem'[j].prepared].status = "broadcast"
               /\ idem'[j].reply = Ok(records'[idem'[j].prepared].tx)
    <3>1. j # k /\ idem'[j] = idem[j]
      BY <1>5, <2>2
    <3>2. idem[j].prepared # 0 =>
              idem[j].prepared \in DOMAIN records /\ records[idem[j].prepared].key = j
      BY DEF Shape, TablesAgree, Agrees
    <3> QED
      BY <1>6, <1>8, <2>2, <3>1, <3>2 DEF Answers, SettledMatchesNode
  <2> QED
    BY <2>1, <2>2 DEF SettledMatchesNode
<1>b. MarkedAfterAccepted'
  <2> SUFFICES ASSUME NEW v \in Workers, pc'[v] \in {"mark", "respond"}
               PROVE  /\ job[v].tx \in accepted
                      /\ pc'[v] = "respond" /\ Owner(v)' => idem'[job[v].key].state = "BROADCAST"
    BY <1>2 DEF MarkedAfterAccepted
  <2>1. v # w /\ pc'[v] = pc[v] /\ pc[v] # "idle"
    BY <1>2, <1>3 DEF Goto
  <2>2. Owner(v)' => job[v].key # k
    BY <1>2, <1>5, <2>1, Working DEF Owner
  <2>3. job[v].key # k => idem'[job[v].key] = idem[job[v].key]
    BY <1>5, <2>1, Working
  <2> QED
    BY <1>2, <2>1, <2>2, <2>3 DEF Answers, MarkedAfterAccepted, Owner
<1>c. ToldFromRow'
  <2>1. \A j \in Keys : idem'[j].state = "FAILED_FINAL" => idem'[j].reply = Rejected
    BY <1>5 DEF Answers, ToldFromRow
  <2>2. ASSUME NEW a \in told, a.key \notin recycled
        PROVE  /\ idem'[a.key].state \in Final
               /\ idem'[a.key].request = a.request
               /\ idem'[a.key].reply = a.reply
    <3>1. a.key \in Keys \ {k}
      BY <1>9, <2>2 DEF Shape, SendTypeOK, Answers, ToldFromRow
    <3> QED
      BY <1>5, <2>2, <3>1 DEF Answers, ToldFromRow
  <2>3. ASSUME NEW v \in Workers, pc'[v] = "unlock", job[v].key \notin recycled
        PROVE  /\ idem'[job[v].key].state = "FAILED_FINAL"
               /\ idem'[job[v].key].request = job[v].request
    <3>1. CASE v = w
      BY <1>5, <1>9, <3>1 DEF k
    <3>2. CASE v # w
      <4>1. pc[v] = "unlock" /\ job[v].key \in Keys
        BY <1>2, <1>3, <2>3, <3>2, Working DEF Goto
      <4>2. job[v].key # k
        BY <1>9, <2>3, <4>1 DEF Answers, ToldFromRow, Final
      <4> QED
        BY <1>5, <2>3, <4>1, <4>2 DEF Answers, ToldFromRow
    <3> QED
      BY <3>1, <3>2
  <2> QED
    BY <1>2, <2>1, <2>2, <2>3 DEF ToldFromRow
<1>d. OkMeansAccepted'
  BY <1>2 DEF Answers, OkMeansAccepted
<1> QED
  BY <1>a, <1>b, <1>c, <1>d DEF Answers

\* The client is told what the row says.
LEMMA RejectedAnswers ==
    ASSUME Shape, Answers, NEW w \in Workers, UnlockRejected(w)
    PROVE  Answers'
<1> DEFINE a == Answer(job[w].key, job[w].request, Rejected)
<1>1. /\ pc[w] = "unlock" /\ End(w) /\ told' = told \cup {a}
      /\ UNCHANGED <<idem, records, recycled, accepted>>
  BY DEF UnlockRejected
<1>2. /\ pc' = [pc EXCEPT ![w] = "idle"] /\ job' = [job EXCEPT ![w] = NoJob]
      /\ pc \in [Workers -> Labels] /\ job \in [Workers -> Job] /\ job[w].key \in Keys
  BY <1>1, Working DEF End, Goto, Shape, SendTypeOK
<1>3. /\ a.key = job[w].key /\ a.request = job[w].request
      /\ a.reply = Rejected /\ a.reply.code # "ok"
  BY DEF Answer, Rejected
<1>4. job[w].key \notin recycled =>
          /\ idem[a.key].state \in Final
          /\ idem[a.key].request = a.request
          /\ idem[a.key].reply = a.reply
  BY <1>1, <1>2, <1>3 DEF Answers, ToldFromRow, Final
<1>5. \A v \in Workers : pc'[v] # "idle" => pc'[v] = pc[v] /\ job'[v] = job[v]
  BY <1>2
<1> HIDE DEF a
<1>a. SettledMatchesNode'
  BY <1>1 DEF Answers, SettledMatchesNode
<1>b. MarkedAfterAccepted'
  BY <1>1, <1>5 DEF Answers, MarkedAfterAccepted, Owner
<1>c. ToldFromRow'
  BY <1>1, <1>3, <1>4, <1>5 DEF Answers, ToldFromRow
<1>d. OkMeansAccepted'
  BY <1>1, <1>3 DEF Answers, OkMeansAccepted
<1> QED
  BY <1>a, <1>b, <1>c, <1>d DEF Answers

\* A replay tells what the row says.
LEMMA ReplayAnswers ==
    ASSUME Shape, Answers, NEW w \in Workers, Replay(w)
    PROVE  Answers'
<1>1. PICK k \in Keys, r \in Requests, d \in 0..Lag :
          CanReplay(k, r, d) /\ told' = told \cup {Answer(k, r, idem[k].reply)}
  BY DEF Replay
<1> DEFINE a == Answer(k, r, idem[k].reply)
<1>2. UNCHANGED <<idem, records, recycled, accepted, pc, job>>
  BY DEF Replay, storeVars, nodeVars
<1>3. /\ a.key = k /\ a.request = r /\ a.reply = idem[k].reply
      /\ idem[k].state \in Final /\ idem[k].request = r
  BY <1>1 DEF Answer, CanReplay
<1>4. a.reply.code = "ok" => a.reply.tx \in accepted
  <2>1. CASE idem[k].state = "SUCCEEDED"
    <3>1. /\ idem[k].prepared \in DOMAIN records
          /\ records[idem[k].prepared].status = "broadcast"
          /\ idem[k].reply = Ok(records[idem[k].prepared].tx)
      BY <2>1 DEF Shape, TablesAgree, Agrees, Answers, SettledMatchesNode
    <3> QED
      BY <1>3, <3>1 DEF Ok, Answers, SettledMatchesNode
  <2>2. CASE idem[k].state = "FAILED_FINAL"
    BY <1>3, <2>2 DEF Answers, ToldFromRow, Rejected
  <2> QED
    BY <1>3, <2>1, <2>2 DEF Final
<1> HIDE DEF a
<1>a. SettledMatchesNode'
  BY <1>2 DEF Answers, SettledMatchesNode
<1>b. MarkedAfterAccepted'
  BY <1>2 DEF Answers, MarkedAfterAccepted, Owner
<1>5. told' = told \cup {a}
  BY <1>1 DEF a
<1>c. ToldFromRow'
  BY <1>2, <1>3, <1>5 DEF Answers, ToldFromRow
<1>d. OkMeansAccepted'
  BY <1>2, <1>4, <1>5 DEF Answers, OkMeansAccepted
<1> QED
  BY <1>a, <1>b, <1>c, <1>d DEF Answers

\* The answer is stored and told at once, of a row that is BROADCAST.
LEMMA RespondAnswers ==
    ASSUME Shape, Answers, NEW w \in Workers, Respond(w)
    PROVE  Answers'
<1> DEFINE k == job[w].key
           t == job[w].tx
           p == idem[k].prepared
           a == Answer(k, job[w].request, Ok(t))
<1>1. PICK d \in 0..Lag : StoreResponse(k, job[w].request, job[w].token, d, Ok(t))
  BY DEF Respond
<1>2. /\ pc[w] = "respond" /\ End(w) /\ told' = told \cup {a}
      /\ UNCHANGED <<accepted, recycled, records>>
  BY <1>1 DEF Respond, nodeVars, StoreResponse
<1>3. /\ idem \in [Keys -> Row] /\ k \in Keys /\ pc[w] # "idle"
      /\ pc \in [Workers -> Labels] /\ job \in [Workers -> Job]
      /\ pc' = [pc EXCEPT ![w] = "idle"] /\ job' = [job EXCEPT ![w] = NoJob]
  BY <1>2, Working DEF Shape, SendTypeOK, StoreTypeOK, End, Goto
<1>4. /\ idem[k].token = job[w].token /\ idem[k].request = job[w].request
      /\ idem[k].state \notin Final
  BY <1>1 DEF StoreResponse, CanStoreResponse
<1>5. /\ idem'[k].state = "SUCCEEDED" /\ idem'[k].reply = Ok(t)
      /\ idem'[k].request = idem[k].request /\ idem'[k].prepared = p
      /\ idem'[k].token = None
      /\ \A j \in Keys \ {k} : idem'[j] = idem[j]
  BY <1>1, <1>3, ResponseRow
<1>6. t \in accepted /\ idem[k].state = "BROADCAST"
  BY <1>2, <1>4 DEF Answers, MarkedAfterAccepted, Owner
<1>7. p # 0 /\ records[p].status = "broadcast" /\ records[p].tx = t
  <2>1. Agrees(k, idem[k], records)
    BY <1>3 DEF Shape, TablesAgree
  <2>2. p # 0 /\ records[p].status = "broadcast"
    BY <1>6, <2>1 DEF Agrees, StatusFor
  <2>3. records[p].tx = t
    BY <1>2, <1>4 DEF Shape, ActsForRecord, Persisted, Owner
  <2> QED
    BY <2>2, <2>3
<1>8. /\ a.key = k /\ a.request = job[w].request /\ a.reply = Ok(t)
      /\ a.reply.tx = t
  BY DEF Answer, Ok
<1>9. \A v \in Workers : pc'[v] # "idle" =>
          v # w /\ pc'[v] = pc[v] /\ job'[v] = job[v] /\ job[v].key \in Keys
  BY <1>3, Working
<1> HIDE DEF k, t, p, a
<1>a. SettledMatchesNode'
  BY <1>2, <1>5, <1>7 DEF Answers, SettledMatchesNode, p
<1>b. MarkedAfterAccepted'
  <2> SUFFICES ASSUME NEW v \in Workers, pc'[v] \in {"mark", "respond"}
               PROVE  /\ job[v].tx \in accepted
                      /\ pc'[v] = "respond" /\ Owner(v)' => idem'[job[v].key].state = "BROADCAST"
    BY <1>2, <1>9 DEF MarkedAfterAccepted
  <2>1. pc'[v] = pc[v] /\ job'[v] = job[v] /\ pc[v] # "idle" /\ job[v].key \in Keys
    BY <1>9
  <2>2. Owner(v)' => job[v].key # k
    BY <1>5, <2>1, Working DEF Owner
  <2> QED
    BY <1>5, <2>1, <2>2 DEF Answers, MarkedAfterAccepted, Owner
<1>c. ToldFromRow'
  <2>1. \A j \in Keys : idem'[j].state = "FAILED_FINAL" => idem'[j].reply = Rejected
    BY <1>5 DEF Answers, ToldFromRow
  <2>2. ASSUME NEW b \in told', b.key \notin recycled
        PROVE  /\ idem'[b.key].state \in Final
               /\ idem'[b.key].request = b.request
               /\ idem'[b.key].reply = b.reply
    <3>1. CASE b = a
      BY <1>4, <1>5, <1>8, <3>1 DEF Final
    <3>2. CASE b \in told
      <4>1. b.key \in Keys \ {k}
        BY <1>4, <2>2, <3>2 DEF Shape, SendTypeOK, Answers, ToldFromRow
      <4> QED
        BY <1>5, <2>2, <3>2, <4>1 DEF Answers, ToldFromRow
    <3> QED
      BY <1>2, <2>2, <3>1, <3>2
  <2>3. ASSUME NEW v \in Workers, pc'[v] = "unlock", job'[v].key \notin recycled
        PROVE  /\ idem'[job'[v].key].state = "FAILED_FINAL"
               /\ idem'[job'[v].key].request = job'[v].request
    <3>1. pc[v] = "unlock" /\ job'[v] = job[v] /\ job[v].key \in Keys
      BY <1>9, <2>3
    <3>2. job[v].key # k
      BY <1>6, <2>3, <3>1 DEF Answers, ToldFromRow
    <3> QED
      BY <1>5, <2>3, <3>1, <3>2 DEF Answers, ToldFromRow
  <2> QED
    BY <1>2, <2>1, <2>2, <2>3 DEF ToldFromRow
<1>d. OkMeansAccepted'
  BY <1>2, <1>6, <1>8 DEF Answers, OkMeansAccepted
<1> QED
  BY <1>a, <1>b, <1>c, <1>d DEF Answers

\* Every step of a handler keeps Answers, ...
LEMMA HandleAnswers ==
    ASSUME Shape, Answers, NEW w \in Workers, Handle(w)
    PROVE  Answers'
<1>0. job \in [Workers -> Job]
  BY DEF Shape, SendTypeOK
<1>1. CASE Load(w)
  <2>1. /\ UNCHANGED <<idem, records, recycled, accepted, told>>
        /\ \A v \in Workers \ {w} : job'[v] = job[v]
    BY <1>0, <1>1 DEF Load, storeVars, nodeVars
  <2>2. Goto(w, "fund") \/ Goto(w, "beat")
    BY <1>1 DEF Load
  <2> QED
    BY <2>1, <2>2, MoveAnswers DEF Labels
<1>2. CASE Fund(w)
  <2>1. /\ UNCHANGED <<idem, records, recycled, accepted, told>> /\ Goto(w, "save")
        /\ \A v \in Workers \ {w} : job'[v] = job[v]
    BY <1>0, <1>2 DEF Fund, storeVars
  <2> QED
    BY <2>1, MoveAnswers DEF Labels
<1>3. CASE FundFails(w) \/ FundLost(w) \/ Abort(w) \/ LoseClaim(w)
  BY <1>3, EndAnswers DEF FundFails, FundLost, Abort, LoseClaim, nodeVars
<1>4. CASE SaveFails(w) \/ NotKnown(w) \/ TestAccept(w) \/ Post(w)
  <2>1. /\ UNCHANGED <<idem, records, recycled, accepted, told>> /\ job' = job
        /\ \E to \in Labels \ {"mark", "respond", "unlock"} : Goto(w, to)
    BY <1>4 DEF SaveFails, NotKnown, TestAccept, Post, Step, storeVars, nodeVars, Labels
  <2> QED
    BY <2>1, MoveAnswers
<1>5. CASE Known(w) \/ Answered(w)
  <2>1. /\ UNCHANGED <<idem, records, recycled, accepted, told>> /\ job' = job
        /\ \/ Goto(w, "mark") /\ job[w].tx \in accepted
           \/ Goto(w, "known3") \/ Goto(w, "unknown")
    BY <1>5 DEF Known, Answered, Step, storeVars, nodeVars
  <2> QED
    BY <2>1, MoveAnswers DEF Labels
<1> QED
  BY <1>1, <1>2, <1>3, <1>4, <1>5, SaveAnswers, BeatAnswers, FailAnswers, RejectedAnswers,
     UnknownAnswers, BroadcastAnswers, RespondAnswers DEF Handle

\* ... and so does every step of the system.
LEMMA AnswersStep ==
    ASSUME Shape, Answers, SendNext \/ CoreRestart
    PROVE  Answers'
<1>1. ASSUME NEW w \in Workers, Crash(w) PROVE Answers'
  BY <1>1, EndAnswers DEF Crash, nodeVars
<1>2. ASSUME NEW t \in TxIds, Land(t) PROVE Answers'
  BY <1>2, StoreQuiet, RestAnswers DEF Land, storeVars
<1>3. ASSUME Second PROVE Answers'
  <2>1. \A k \in Keys : /\ idem'[k].state = idem[k].state
                       /\ idem'[k].token = idem[k].token
                       /\ idem'[k].request = idem[k].request
                       /\ idem'[k].reply = idem[k].reply
                       /\ idem'[k].prepared = idem[k].prepared
    BY <1>3, StoreHalf, TickFields DEF Second
  <2>2. UNCHANGED <<records, recycled, accepted, pc, job, told>>
    BY <1>3 DEF Second, Tick, nodeVars
  <2>3. RowsQuiet
    BY <2>1, <2>2 DEF RowsQuiet
  <2>4. \A v \in Workers : pc[v] = "respond" => job[v].key \in Keys
    BY Working
  <2> QED
    BY <2>1, <2>2, <2>3, <2>4, RestAnswers
<1>4. ASSUME CoreRestart PROVE Answers'
  BY <1>4, StoreQuiet, RestAnswers DEF CoreRestart, storeVars
<1> QED
  BY <1>1, <1>2, <1>3, <1>4, BeginAnswers, ReplayAnswers, HandleAnswers DEF SendNext

-----------------------------------------------------------------------------
(* The invariant of the handler *)

\* Initially there is nothing to be wrong.
LEMMA SendInitInv == SendInit => SendInv
<1> SUFFICES ASSUME SendInit PROVE SendInv
  OBVIOUS
<1>1. /\ StoreInit /\ records = <<>> /\ recycled = {} /\ held = {}
      /\ idem = [k \in Keys |-> NoRow]
      /\ pc = [w \in Workers |-> "idle"] /\ job = [w \in Workers |-> NoJob]
      /\ spends = [t \in TxIds |-> None]
      /\ locked = {} /\ wire = {} /\ accepted = {} /\ told = {}
  BY DEF SendInit, StoreInit
<1>2. StoreTypeOK /\ OneOwner /\ TablesAgree
  BY <1>1, StoreInitInv DEF StoreInv
<1>3. SendTypeOK
  BY <1>1, <1>2 DEF SendTypeOK, Labels, Job, NoJob
<1>4. JobShape /\ TokenIdentifiesJob
  BY <1>1 DEF JobShape, TokenIdentifiesJob, NoJob
<1>5. FundingPrivate /\ ActsForRecord
  BY <1>1 DEF FundingPrivate, ActsForRecord, Funding, Persisted
<1>6. RecordsDistinct /\ PreparedOnce /\ PersistedBeforeSent
  BY <1>1 DEF RecordsDistinct, PreparedOnce, PersistedBeforeSent
<1>7. SettledMatchesNode /\ MarkedAfterAccepted /\ ToldFromRow /\ OkMeansAccepted
  BY <1>1 DEF SettledMatchesNode, MarkedAfterAccepted, ToldFromRow, OkMeansAccepted, NoRow
<1> QED
  BY <1>2, <1>3, <1>4, <1>5, <1>6, <1>7 DEF SendInv

\* Stuttering changes nothing.
LEMMA SendStutters == SendInv /\ UNCHANGED sendVars => SendInv'
BY DEF sendVars, storeVars, nodeVars, SendInv, SendTypeOK, StoreTypeOK, OneOwner, TablesAgree,
       Agrees, JobShape, TokenIdentifiesJob, FundingPrivate, ActsForRecord, RecordsDistinct,
       PreparedOnce, PersistedBeforeSent, SettledMatchesNode, MarkedAfterAccepted, ToldFromRow,
       OkMeansAccepted, Recorded, Owner

\* SendInv is inductive.
LEMMA SendStepInv == SendInv /\ [SendNext \/ CoreRestart]_sendVars => SendInv'
<1>1. SendInv /\ (SendNext \/ CoreRestart) => Shape' /\ Answers'
  BY Halves, ShapeStep, AnswersStep
<1>2. Shape' /\ Answers' => SendInv'
  BY DEF SendInv, Shape, Answers
<1> QED
  BY <1>1, <1>2, SendStutters

\* Whatever the interleaving of workers, takeovers, lost and late RPCs, crashes,
\* expiries and restarts of the node: the inductive invariant of the handler.
THEOREM SendInvariant == RestartSpec => []SendInv
BY SendInitInv, SendStepInv, PTL DEF RestartSpec

\* Its parts, each checked by the runs: the types ...
THEOREM SendTypeCorrect == RestartSpec => []SendTypeOK
BY SendInvariant, PTL DEF SendInv

\* ... nothing goes to the network that is not in the store first ...
THEOREM PersistedFirst == RestartSpec => []PersistedBeforeSent
BY SendInvariant, PTL DEF SendInv

\* ... what the store calls broadcast or settled with 2xx, the node has ...
THEOREM SettledCorrect == RestartSpec => []SettledMatchesNode
BY SendInvariant, PTL DEF SendInv

\* ... and so has it what a client is told 2xx about.
THEOREM OkCorrect == RestartSpec => []OkMeansAccepted
BY SendInvariant, PTL DEF SendInv

\* Two sent transactions of an unexpired key are both what its row names.
LEMMA OnePayment == SendInv => AtMostOnePayment
BY DEF SendInv, PreparedOnce, AtMostOnePayment

\* At most one transaction per unexpired key, however often it is retried.
THEOREM AtMostOnce == RestartSpec => []AtMostOnePayment
BY SendInvariant, OnePayment, PTL

\* Two answers of an unexpired key are both what its row says.
LEMMA OneAnswerHolds == SendInv => OneAnswer
<1> SUFFICES ASSUME SendInv, NEW a \in told, NEW b \in told, a.key = b.key, a.key \notin recycled
             PROVE  a = b
  BY DEF OneAnswer
<1>1. a.request = b.request /\ a.reply = b.reply
  BY DEF SendInv, ToldFromRow
<1>2. /\ a \in [key : Keys, request : Requests, reply : Reply]
      /\ b \in [key : Keys, request : Requests, reply : Reply]
  BY DEF SendInv, SendTypeOK
<1> QED
  BY <1>1, <1>2

\* One definite answer per unexpired key, given or replayed by any worker.
THEOREM OneAnswerCorrect == RestartSpec => []OneAnswer
BY SendInvariant, OneAnswerHolds, PTL

-----------------------------------------------------------------------------
(* The handler implements the store's general client *)

\* Step by step, the handler is a client of the store.
LEMMA ClientStep ==
    SendInv /\ [SendNext \/ CoreRestart]_sendVars => [StoreNext]_storeVars
<1>1. SendInv /\ (SendNext \/ CoreRestart) => StoreNext \/ UNCHANGED storeVars
  BY HandlerIsClient, Halves
<1>2. UNCHANGED sendVars => UNCHANGED storeVars
  BY DEF sendVars
<1> QED
  BY <1>1, <1>2

\* A node that keeps its locks is one that may restart and does not.
LEMMA SendIsRestart == SendSpec => RestartSpec
<1>1. [SendNext]_sendVars => [SendNext \/ CoreRestart]_sendVars
  OBVIOUS
<1> QED
  BY <1>1, PTL DEF SendSpec, RestartSpec

\* Every behaviour of the handler, seen through the store's variables, is one of
\* StoreSpec: all that is proved of the store holds under the handler.
THEOREM RestartIsClient == RestartSpec => StoreSpec
<1>1. SendInit => StoreInit
  BY DEF SendInit
<1> QED
  BY <1>1, SendInvariant, ClientStep, PTL DEF RestartSpec, StoreSpec

\* The same for a node that keeps its locks: all that is proved of the store holds.
THEOREM SendIsClient == SendSpec => StoreSpec
BY RestartIsClient, SendIsRestart, PTL

-----------------------------------------------------------------------------
(* Locks: while the node does not restart *)

\* Who holds a lock.
LEMMA HoldingIs ==
    ASSUME NEW t
    PROVE  t \in Holding <=>
               \/ \E i \in DOMAIN records : Live(i) /\ records[i].tx = t
               \/ \E w \in Workers : pc[w] \in Funding \cup {"unlock"} /\ job[w].tx = t
BY DEF Holding

\* Who holds a lock is a funded transaction.
LEMMA HoldingFunded ==
    ASSUME Shape, LockInv, NEW t \in Holding
    PROVE  t \in TxIds /\ spends[t] # None /\ spends[t] \in locked
<1>1. \A w \in Workers : pc[w] \in Funding \cup {"unlock"} => job[w].tx \in TxIds
  BY Working DEF Funding, Unfunded
<1>2. t \in TxIds
  BY <1>1, HoldingIs, RecordFields
<1>3. spends[t] \in locked /\ locked \subseteq Coins
  BY DEF LockInv, Shape, SendTypeOK
<1> QED
  BY <1>2, <1>3, CoinsAssumption

\* The reason why most steps keep LockInv: no lock is given up and no transaction
\* comes to hold one.
LEMMA LockFrame ==
    ASSUME LockInv, locked \subseteq locked',
           \A t \in Holding : spends'[t] = spends[t],
           \A i \in DOMAIN records' : Live(i)' => records'[i].tx \in Holding,
           \A v \in Workers :
               /\ pc'[v] \in Funding \cup {"unlock"} => job'[v].tx \in Holding
               /\ pc'[v] = "unlock" => pc[v] = "unlock" /\ job'[v] = job[v],
           \A i \in DOMAIN records', v \in Workers :
               pc'[v] = "unlock" /\ records'[i].tx = job[v].tx =>
                   /\ i \in DOMAIN records /\ records[i].tx = job[v].tx
                   /\ records[i].status = "rejected" => records'[i].status = "rejected"
    PROVE  LockInv'
<1>1. Holding' \subseteq Holding
  BY DEF Holding
<1> QED
  BY <1>1 DEF LockInv

\* Steps that neither touch records nor unlock.
LEMMA LockQuiet ==
    ASSUME Shape, LockInv, records' = records, locked \subseteq locked',
           \A t \in TxIds : spends[t] # None => spends'[t] = spends[t],
           \A v \in Workers :
               /\ pc'[v] \in Funding \cup {"unlock"} =>
                      pc[v] \in Funding \cup {"unlock"} /\ job'[v] = job[v]
               /\ pc'[v] = "unlock" => pc[v] = "unlock"
    PROVE  LockInv'
<1>1. \A t \in Holding : spends'[t] = spends[t]
  BY HoldingFunded
<1>2. \A i \in DOMAIN records' : Live(i)' => records'[i].tx \in Holding
  BY DEF Holding, Live
<1>3. \A v \in Workers :
          /\ pc'[v] \in Funding \cup {"unlock"} => job'[v].tx \in Holding
          /\ pc'[v] = "unlock" => pc[v] = "unlock" /\ job'[v] = job[v]
  BY DEF Holding
<1> QED
  BY <1>1, <1>2, <1>3, LockFrame

\* A worker moves on without touching records or locks.
LEMMA LockMove ==
    ASSUME Shape, LockInv, records' = records, locked \subseteq locked',
           \A t \in TxIds : spends[t] # None => spends'[t] = spends[t],
           NEW w \in Workers, NEW to \in Labels, Goto(w, to),
           \A v \in Workers \ {w} : job'[v] = job[v],
           \/ to \notin Funding \cup {"unlock"}
           \/ to = "abort" /\ pc[w] = "save" /\ job' = job
    PROVE  LockInv'
<1>1. pc' = [pc EXCEPT ![w] = to] /\ pc \in [Workers -> Labels]
  BY DEF Goto, Shape, SendTypeOK
<1>2. \A v \in Workers :
          /\ pc'[v] \in Funding \cup {"unlock"} =>
                 pc[v] \in Funding \cup {"unlock"} /\ job'[v] = job[v]
          /\ pc'[v] = "unlock" => pc[v] = "unlock"
  BY <1>1 DEF Funding
<1> QED
  BY <1>2, LockQuiet

\* The wallet locks a coin that was not locked, for a transaction nobody had.
LEMMA LockFund ==
    ASSUME Shape, LockInv, NEW w \in Workers, Fund(w)
    PROVE  LockInv'
<1>1. PICK t \in TxIds, c \in Coins : FundTx(t, c) /\ job' = [job EXCEPT ![w].tx = t]
  BY DEF Fund
<1>2. /\ pc[w] = "fund" /\ pc' = [pc EXCEPT ![w] = "save"] /\ records' = records
      /\ pc \in [Workers -> Labels] /\ job \in [Workers -> Job]
  BY DEF Fund, Goto, storeVars, Shape, SendTypeOK
<1>3. /\ spends[t] = None /\ c \notin locked /\ locked' = locked \cup {c}
      /\ spends'[t] = c /\ \A u \in TxIds \ {t} : spends'[u] = spends[u]
  BY <1>1 DEF FundTx, Spendable, Shape, SendTypeOK
<1>4. /\ pc'[w] = "save" /\ job'[w].tx = t
      /\ \A v \in Workers \ {w} : pc'[v] = pc[v] /\ job'[v] = job[v]
  BY <1>1, <1>2 DEF Job
<1>5. \A u \in Holding : u # t /\ spends'[u] = spends[u] /\ spends[u] \in locked
  BY <1>3, HoldingFunded
<1>6. Holding' \subseteq Holding \cup {t}
  BY <1>2, <1>4 DEF Holding, Live
<1>7. \A v \in Workers : pc'[v] = "unlock" => pc[v] = "unlock" /\ v # w /\ job'[v] = job[v]
  BY <1>4
<1> QED
  BY <1>2, <1>3, <1>5, <1>6, <1>7 DEF LockInv

\* The worker's lock becomes the record's.
LEMMA LockSave ==
    ASSUME Shape, LockInv, NEW w \in Workers, Save(w)
    PROVE  LockInv'
<1> DEFINE t == job[w].tx
           rec == [kind |-> "broadcast", key |-> job[w].key, request |-> job[w].request,
                   psbt |-> t, tx |-> t, status |-> "prepared"]
<1>1. PICK d \in 0..Lag : SavePrepared(job[w].key, job[w].request, job[w].token, t, d)
  BY DEF Save
<1>2. /\ pc[w] = "save" /\ pc' = [pc EXCEPT ![w] = "beat"] /\ job' = job
      /\ UNCHANGED <<spends, locked>> /\ records' = Append(records, rec)
      /\ pc \in [Workers -> Labels] /\ records \in Seq(Record)
  BY <1>1 DEF Save, Step, Goto, nodeVars, SavePrepared, Shape, SendTypeOK, StoreTypeOK
<1>3. /\ DOMAIN records' = DOMAIN records \cup {Len(records) + 1}
      /\ records'[Len(records) + 1] = rec
      /\ \A i \in DOMAIN records : records'[i] = records[i]
  BY <1>2
<1>4. t \in Holding /\ rec.tx = t
  BY <1>2, HoldingIs DEF Funding
<1>5. \A i \in DOMAIN records' : Live(i)' => records'[i].tx \in Holding
  BY <1>3, <1>4, HoldingIs DEF Live
<1>6. \A v \in Workers :
          /\ pc'[v] \in Funding \cup {"unlock"} => job'[v].tx \in Holding
          /\ pc'[v] = "unlock" => pc[v] = "unlock" /\ job'[v] = job[v]
  BY <1>2, HoldingIs DEF Funding
<1>7. ASSUME NEW v \in Workers, pc'[v] = "unlock" PROVE job[v].tx # t
  <2>1. job[v].tx \in Recorded
    <3>1. PICK i \in DOMAIN records : records[i].tx = job[v].tx
      BY <1>6, <1>7 DEF Shape, ActsForRecord, Persisted
    <3> QED
      BY <3>1, RecordFields, NoneAssumption DEF Recorded
  <2> QED
    BY <1>2, <2>1 DEF Shape, FundingPrivate, Funding
<1> HIDE DEF t, rec
<1> QED
  BY <1>2, <1>3, <1>4, <1>5, <1>6, <1>7, LockFrame

\* A coin is given back by a worker whose transaction nobody holds on to.
LEMMA LockRelease ==
    ASSUME Shape, LockInv, NEW w \in Workers, pc[w] \in Funding \cup {"unlock"}, End(w),
           Unlock(job[w].tx), UNCHANGED <<records, spends>>,
           \A i \in DOMAIN records : records[i].tx = job[w].tx => ~Live(i),
           \A v \in Workers \ {w} : pc[v] \in Funding \cup {"unlock"} => job[v].tx # job[w].tx
    PROVE  LockInv'
<1>1. /\ pc' = [pc EXCEPT ![w] = "idle"] /\ job' = [job EXCEPT ![w] = NoJob]
      /\ pc \in [Workers -> Labels] /\ job \in [Workers -> Job]
  BY DEF End, Goto, Shape, SendTypeOK
<1>2. \A v \in Workers : pc'[v] # "idle" => v # w /\ pc'[v] = pc[v] /\ job'[v] = job[v]
  BY <1>1
<1>3. "idle" \notin Funding \cup {"unlock"}
  BY DEF Funding
<1>4. Holding' \subseteq Holding \ {job[w].tx}
  BY <1>2, <1>3 DEF Holding, Live
<1>5. job[w].tx \in Holding
  BY HoldingIs
<1>6. \A t \in Holding' : spends[t] \in locked /\ spends[t] # spends[job[w].tx]
  BY <1>4, <1>5 DEF LockInv
<1>7. \A t \in Holding' : spends'[t] \in locked'
  BY <1>6 DEF Unlock
<1>8. /\ \A t, u \in Holding' : spends'[t] = spends'[u] => t = u
      /\ \A u, v \in Workers : pc'[u] = "unlock" /\ pc'[v] = "unlock" /\ job'[u].tx = job'[v].tx => u = v
      /\ \A v \in Workers : pc'[v] = "unlock" =>
             \A i \in DOMAIN records' : records'[i].tx = job'[v].tx => records'[i].status = "rejected"
  BY <1>2, <1>4 DEF LockInv
<1> QED
  BY <1>7, <1>8 DEF LockInv

\* Only the worker that funded a transaction knows it: its coin may be unlocked.
LEMMA LockAbort ==
    ASSUME Shape, LockInv, NEW w \in Workers, Abort(w)
    PROVE  LockInv'
<1>1. /\ pc[w] = "abort" /\ Unlock(job[w].tx) /\ End(w) /\ UNCHANGED <<records, spends>>
  BY DEF Abort
<1>2. /\ job[w].tx \notin Recorded
      /\ \A v \in Workers \ {w} : pc[v] \in Funding => job[v].tx # job[w].tx
  BY <1>1 DEF Shape, FundingPrivate, Funding
<1>3. \A i \in DOMAIN records : records[i].tx # job[w].tx
  BY <1>2, RecordFields, NoneAssumption DEF Recorded
<1>4. \A v \in Workers : pc[v] = "unlock" => job[v].tx # job[w].tx
  BY <1>3 DEF Shape, ActsForRecord, Persisted
<1> QED
  BY <1>1, <1>2, <1>3, <1>4, LockRelease DEF Funding

\* A rejected transaction's coin may be unlocked, by the one worker that rejected it.
LEMMA LockRejected ==
    ASSUME Shape, LockInv, NEW w \in Workers, UnlockRejected(w)
    PROVE  LockInv'
<1>1. /\ pc[w] = "unlock" /\ Unlock(job[w].tx) /\ End(w) /\ UNCHANGED <<records, spends>>
  BY DEF UnlockRejected
<1>2. \A i \in DOMAIN records : records[i].tx = job[w].tx => ~Live(i)
  BY <1>1 DEF LockInv, Live
<1>3. \A v \in Workers \ {w} : pc[v] = "unlock" => job[v].tx # job[w].tx
  BY <1>1 DEF LockInv
<1>4. \A v \in Workers : pc[v] \in Funding => job[v].tx # job[w].tx
  <2>1. PICK i \in DOMAIN records : records[i].tx = job[w].tx
    BY <1>1 DEF Shape, ActsForRecord, Persisted
  <2>2. job[w].tx \in Recorded
    BY <2>1, RecordFields, NoneAssumption DEF Recorded
  <2> QED
    BY <2>2 DEF Shape, FundingPrivate
<1> QED
  BY <1>1, <1>2, <1>3, <1>4, LockRelease

\* The row's own record changes its status; it was live.
LEMMA OwnRecord ==
    ASSUME Shape, NEW w \in Workers, pc[w] \in Persisted, Owner(w),
           idem[job[w].key].state \in {"PREPARED", "UNKNOWN", "BROADCAST"},
           NEW s \in {"broadcast", "rejected"}, SetStatus(job[w].key, s)
    PROVE  LET p == idem[job[w].key].prepared IN
           /\ p \in DOMAIN records /\ records[p].tx = job[w].tx /\ Live(p)
           /\ DOMAIN records' = DOMAIN records /\ records'[p].status = s
           /\ \A n \in DOMAIN records : records'[n].tx = records[n].tx
           /\ \A n \in DOMAIN records \ {p} : records'[n].status = records[n].status
<1> DEFINE p == idem[job[w].key].prepared
<1>1. job[w].key \in Keys
  BY Working, StageFacts
<1>2. Agrees(job[w].key, idem[job[w].key], records)
  BY <1>1 DEF Shape, TablesAgree
<1>3. p \in DOMAIN records /\ records[p].tx = job[w].tx /\ Live(p)
  <2>1. p \in DOMAIN records /\ records[p].status \in StatusFor(idem[job[w].key].state)
    BY <1>2 DEF Agrees
  <2>2. records[p].tx = job[w].tx
    BY DEF Shape, ActsForRecord
  <2>3. Live(p)
    BY <2>1 DEF StatusFor, Live
  <2> QED
    BY <2>1, <2>2, <2>3
<1>4. /\ DOMAIN records' = DOMAIN records
      /\ \A n \in DOMAIN records :
             /\ records[n] \in Record
             /\ records'[n] = IF n = p THEN [records[n] EXCEPT !.status = s] ELSE records[n]
  BY <1>1, StoreHalf, SetStatusFacts
<1>5. /\ \A n \in DOMAIN records : records'[n].tx = records[n].tx
      /\ records'[p].status = s
      /\ \A n \in DOMAIN records \ {p} : records'[n].status = records[n].status
  BY <1>3, <1>4 DEF Record
<1> QED
  BY <1>3, <1>4, <1>5

\* A broadcast transaction goes on holding its lock.
LEMMA LockBroadcast ==
    ASSUME Shape, LockInv, NEW w \in Workers, BecomeBroadcast(w)
    PROVE  LockInv'
<1> DEFINE p == idem[job[w].key].prepared
<1>1. PICK d \in 0..Lag : MarkBroadcast(job[w].key, job[w].token, job[w].tx, d)
  BY DEF BecomeBroadcast
<1>2. /\ pc[w] = "mark" /\ pc' = [pc EXCEPT ![w] = "respond"] /\ job' = job
      /\ UNCHANGED <<spends, locked>> /\ pc \in [Workers -> Labels]
      /\ SetStatus(job[w].key, "broadcast") /\ Owner(w)
      /\ idem[job[w].key].state \in {"PREPARED", "UNKNOWN", "BROADCAST"}
  BY <1>1 DEF BecomeBroadcast, Step, Goto, nodeVars, MarkBroadcast, CanMarkBroadcast, Owner,
     Shape, SendTypeOK
<1>3. /\ p \in DOMAIN records /\ Live(p)
      /\ DOMAIN records' = DOMAIN records
      /\ \A n \in DOMAIN records : records'[n].tx = records[n].tx
      /\ \A n \in DOMAIN records \ {p} : records'[n].status = records[n].status
  BY <1>2, OwnRecord DEF Persisted
<1>4. \A i \in DOMAIN records' : Live(i)' => records'[i].tx \in Holding
  BY <1>3, HoldingIs DEF Live
<1>5. \A v \in Workers :
          /\ pc'[v] \in Funding \cup {"unlock"} => job'[v].tx \in Holding
          /\ pc'[v] = "unlock" => pc[v] = "unlock" /\ job'[v] = job[v]
  BY <1>2, HoldingIs DEF Funding
<1>6. records[p].status # "rejected"
  BY <1>3 DEF Live
<1> QED
  BY <1>2, <1>3, <1>4, <1>5, <1>6, LockFrame

\* The record's lock becomes that of the worker that rejected it.
LEMMA LockFail ==
    ASSUME Shape, LockInv, NEW w \in Workers, FailPrepared(w)
    PROVE  LockInv'
<1> DEFINE p == idem[job[w].key].prepared
<1>1. /\ pc[w] = "fail" /\ pc' = [pc EXCEPT ![w] = "unlock"] /\ job' = job
      /\ UNCHANGED <<spends, locked>> /\ pc \in [Workers -> Labels]
      /\ SetStatus(job[w].key, "rejected") /\ Owner(w)
      /\ idem[job[w].key].state \in {"PREPARED", "UNKNOWN", "BROADCAST"}
  BY DEF FailPrepared, Step, Goto, nodeVars, MarkPreparedFailed, CanMarkPreparedFailed, Owner,
     Shape, SendTypeOK
<1>2. /\ p \in DOMAIN records /\ records[p].tx = job[w].tx /\ Live(p)
      /\ DOMAIN records' = DOMAIN records /\ records'[p].status = "rejected"
      /\ \A n \in DOMAIN records : records'[n].tx = records[n].tx
      /\ \A n \in DOMAIN records \ {p} : records'[n].status = records[n].status
  BY <1>1, OwnRecord DEF Persisted
<1>3. /\ pc'[w] = "unlock" /\ \A v \in Workers \ {w} : pc'[v] = pc[v]
  BY <1>1
<1>4. job[w].tx \in Holding
  BY <1>2, HoldingIs
<1>5. Holding' \subseteq Holding
  <2>1. \A i \in DOMAIN records' : Live(i)' => records'[i].tx \in Holding
    BY <1>2, HoldingIs DEF Live
  <2>2. \A v \in Workers : pc'[v] \in Funding \cup {"unlock"} => job'[v].tx \in Holding
    BY <1>1, <1>3, <1>4, HoldingIs
  <2> QED
    BY <2>1, <2>2 DEF Holding
<1>6. \A v \in Workers \ {w} : pc[v] = "unlock" => job[v].tx # job[w].tx
  BY <1>2 DEF LockInv, Live
<1>7. \A i \in DOMAIN records : records[i].tx = job[w].tx => i = p
  BY <1>2 DEF Shape, RecordsDistinct
<1>8. /\ \A u, v \in Workers : pc'[u] = "unlock" /\ pc'[v] = "unlock" /\ job[u].tx = job[v].tx => u = v
      /\ \A v \in Workers : pc'[v] = "unlock" =>
             \A i \in DOMAIN records' : records'[i].tx = job[v].tx => records'[i].status = "rejected"
  BY <1>2, <1>3, <1>6, <1>7 DEF LockInv
<1> QED
  BY <1>1, <1>5, <1>8 DEF LockInv

\* Every step of a handler keeps LockInv, ...
LEMMA LockHandle ==
    ASSUME Shape, LockInv, NEW w \in Workers, Handle(w)
    PROVE  LockInv'
<1>0. job \in [Workers -> Job] /\ spends \in [TxIds -> Coins \cup {None}]
  BY DEF Shape, SendTypeOK
<1>1. CASE Load(w)
  <2>1. /\ UNCHANGED <<records, locked, spends>>
        /\ \A v \in Workers \ {w} : job'[v] = job[v]
    BY <1>0, <1>1 DEF Load, storeVars, nodeVars
  <2>2. Goto(w, "fund") \/ Goto(w, "beat")
    BY <1>1 DEF Load
  <2> QED
    BY <2>1, <2>2, LockMove DEF Labels, Funding
<1>2. CASE FundFails(w) \/ LoseClaim(w)
  <2>1. /\ UNCHANGED <<records, locked, spends>> /\ Goto(w, "idle")
        /\ \A v \in Workers \ {w} : job'[v] = job[v]
    BY <1>0, <1>2 DEF FundFails, LoseClaim, nodeVars, End
  <2> QED
    BY <2>1, LockMove DEF Labels, Funding
<1>3. CASE FundLost(w)
  <2>1. /\ UNCHANGED records /\ locked \subseteq locked' /\ Goto(w, "idle")
        /\ \A t \in TxIds : spends[t] # None => spends'[t] = spends[t]
        /\ \A v \in Workers \ {w} : job'[v] = job[v]
    BY <1>0, <1>3 DEF FundLost, FundTx, End
  <2> QED
    BY <2>1, LockMove DEF Labels, Funding
<1>4. CASE SaveFails(w)
  <2>1. /\ UNCHANGED <<records, locked, spends>> /\ Goto(w, "abort") /\ pc[w] = "save"
        /\ job' = job
    BY <1>4 DEF SaveFails, Step, storeVars, nodeVars
  <2> QED
    BY <2>1, LockMove DEF Labels
<1>5. CASE NotKnown(w) \/ TestAccept(w) \/ Post(w) \/ Known(w) \/ Answered(w)
  <2>1. /\ UNCHANGED <<records, locked, spends, job>>
        /\ \E to \in Labels \ (Funding \cup {"unlock"}) : Goto(w, to)
    BY <1>5 DEF NotKnown, TestAccept, Post, Known, Answered, Step, storeVars, nodeVars,
       Labels, Funding
  <2> QED
    BY <2>1, LockMove
<1>6. CASE Beat(w)
  <2>1. UNCHANGED <<records, locked, spends, job>> /\ Goto(w, "known1")
    BY <1>6 DEF Beat, Step, HeartbeatClaim, nodeVars
  <2> QED
    BY <2>1, LockMove DEF Labels, Funding
<1>7. CASE BecomeUnknown(w) \/ Respond(w)
  <2>1. /\ UNCHANGED <<records, locked, spends>> /\ Goto(w, "idle")
        /\ \A v \in Workers \ {w} : job'[v] = job[v]
    BY <1>0, <1>7 DEF BecomeUnknown, Respond, MarkUnknown, StoreResponse, nodeVars, End
  <2> QED
    BY <2>1, LockMove DEF Labels, Funding
<1> QED
  BY <1>1, <1>2, <1>3, <1>4, <1>5, <1>6, <1>7, LockFund, LockSave, LockAbort, LockRejected,
     LockBroadcast, LockFail DEF Handle

\* Initially nothing holds a lock.
LEMMA LockInit == SendInit => LockInv
<1> SUFFICES ASSUME SendInit PROVE LockInv
  OBVIOUS
<1>1. records = <<>> /\ pc = [w \in Workers |-> "idle"]
  BY DEF SendInit, StoreInit
<1>2. Holding = {}
  BY <1>1 DEF Holding, Funding
<1> QED
  BY <1>1, <1>2 DEF LockInv

\* ... and so does every step of the system.
LEMMA LockStep == SendInv /\ LockInv /\ [SendNext]_sendVars => LockInv'
<1> SUFFICES ASSUME Shape, LockInv, [SendNext]_sendVars PROVE LockInv'
  BY Halves
<1>0. job \in [Workers -> Job]
  BY DEF Shape, SendTypeOK
<1>1. ASSUME NEW w \in Workers, Begin(w) PROVE LockInv'
  <2>1. /\ UNCHANGED <<records, locked, spends>> /\ Goto(w, "load")
        /\ \A v \in Workers \ {w} : job'[v] = job[v]
    BY <1>0, <1>1 DEF Begin, Claim, ClaimFresh, ClaimTakeover, nodeVars
  <2> QED
    BY <2>1, LockMove DEF Labels, Funding
<1>2. ASSUME NEW w \in Workers, Crash(w) PROVE LockInv'
  <2>1. /\ UNCHANGED <<records, locked, spends>> /\ Goto(w, "idle")
        /\ \A v \in Workers \ {w} : job'[v] = job[v]
    BY <1>0, <1>2 DEF Crash, End, nodeVars
  <2> QED
    BY <2>1, LockMove DEF Labels, Funding
<1>3. CASE UNCHANGED <<records, locked, spends, pc, job>>
  BY <1>3, LockQuiet
<1>4. ASSUME NEW w \in Workers, Replay(w) PROVE LockInv'
  BY <1>3, <1>4 DEF Replay, storeVars, nodeVars
<1>5. ASSUME NEW t \in TxIds, Land(t) PROVE LockInv'
  BY <1>3, <1>5 DEF Land, storeVars
<1>6. ASSUME Second PROVE LockInv'
  BY <1>3, <1>6 DEF Second, Tick, nodeVars
<1>7. CASE UNCHANGED sendVars
  BY <1>3, <1>7 DEF sendVars, storeVars, nodeVars
<1> QED
  BY <1>1, <1>2, <1>4, <1>5, <1>6, <1>7, LockHandle DEF SendNext

\* While the node keeps its locks, each transaction that a record holds as prepared
\* or broadcast, or that a worker has funded or is about to unlock, holds a coin of
\* its own under lock (walletcreatefundedpsbt, _unlock_psbt_inputs).  A rejected one
\* that a displaced worker may yet send is not among them.
THEOREM LockInvariant == SendSpec => []LockInv
<1>1. SendSpec => []SendInv
  BY SendIsRestart, SendInvariant, PTL
<1> QED
  BY <1>1, LockInit, LockStep, PTL DEF SendSpec

\* Who still owns its key past saving acts for a record that is not rejected, so
\* that whatever counts holds a lock.
LEMMA StandingHolds == SendInv => Standing \subseteq Holding
<1> SUFFICES ASSUME SendInv, NEW w \in Workers, pc[w] \in Persisted, Owner(w)
             PROVE  \E i \in DOMAIN records : Live(i) /\ records[i].tx = job[w].tx
  BY DEF Standing, Holding
<1>1. PICK k : k = job[w].key
  OBVIOUS
<1>2. /\ k \in Keys /\ job[w].token \in held /\ held \subseteq Tokens
      /\ idem[k].token = job[w].token
  BY <1>1 DEF SendInv, JobShape, Persisted, Owner, SendTypeOK, StoreTypeOK
<1>3. idem[k].state \in Open
  BY <1>2, NoneAssumption DEF SendInv, OneOwner
<1>4. PICK i \in DOMAIN records : records[i].tx = job[w].tx /\ idem[k].prepared = i
  BY <1>1 DEF SendInv, ActsForRecord
<1>5. Agrees(k, idem[k], records) /\ i # 0
  BY <1>2, <1>4 DEF SendInv, TablesAgree, SendTypeOK, StoreTypeOK
<1>6. records[i].status \in StatusFor(idem[k].state) /\ idem[k].state # "CLAIMED"
  BY <1>4, <1>5 DEF Agrees
<1>7. Live(i)
  BY <1>3, <1>6 DEF Open, StatusFor, Live
<1> QED
  BY <1>4, <1>7

\* So no two transactions that a record holds as prepared or broadcast, or that a
\* worker reconciles or sends while its key is still its own, spend the same coin.
THEOREM NoSharedCoins == SendSpec => []NoSharedCoin
<1>1. SendSpec => []SendInv
  BY SendIsRestart, SendInvariant, PTL
<1>2. SendInv /\ LockInv => NoSharedCoin
  BY StandingHolds DEF LockInv, NoSharedCoin
<1> QED
  BY <1>1, <1>2, LockInvariant, PTL

=============================================================================
