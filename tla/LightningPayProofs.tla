-------------------------- MODULE LightningPayProofs --------------------------
(***************************************************************************)
(* Proofs about LightningPay, for all constants: PayInv is an invariant of *)
(* the handler, which is a client of the store as LightningStoreSpec       *)
(* describes them and keeps the books of PaymentLedger.                    *)
(*                                                                         *)
(* PayInv has two halves.  Shape says which request has which token, so    *)
(* that the handler is a client of the store.  Facts says what rows and    *)
(* workers know of LND; it rests on what a client may do to a row.         *)
(***************************************************************************)
EXTENDS LightningPay, LightningStoreProofs

Shape == PayTypeOK /\ OneOwner /\ JobShape /\ TokenIdentifiesJob

Facts ==
    /\ RowShape /\ OnePoster /\ ToldFromRow
    /\ \A w \in Workers : WorkerKnows(w)
    /\ \A k \in Keys : KeyKnown(k)

\* The two halves are the whole.
LEMMA Halves == PayInv <=> Shape /\ Facts
BY DEF PayInv, Shape, Facts

\* The first contains the invariant of the store.
LEMMA StoreHalf == Shape => StoreInv
BY DEF Shape, PayTypeOK, StoreInv

\* What a worker that handles a request has at hand.
LEMMA Working ==
    ASSUME Shape, NEW w \in Workers, pc[w] # "idle"
    PROVE  /\ job[w].key \in Keys /\ job[w].request \in Requests
           /\ Hash(w) \in Hashes /\ Hash(w) # None
           /\ idem[job[w].key] \in Row
           /\ pc[w] # "claim" =>
                job[w].token \in held /\ job[w].token \in Tokens /\ job[w].token # None
<1>1. held \subseteq Tokens /\ idem \in [Keys -> Row]
  BY DEF Shape, PayTypeOK, StoreTypeOK
<1>2. /\ job[w].key \in Keys /\ job[w].request \in Requests
      /\ pc[w] # "claim" => job[w].token # None
      /\ job[w].token \in held \cup {None}
  BY DEF Shape, JobShape
<1> QED
  BY <1>1, <1>2, LightningNoneAssumption, PayAssumption DEF Hash

\* What it is about to store.
LEMMA Concluded ==
    ASSUME Shape, NEW w \in Workers, pc[w] \in {"fail", "log", "save"}
    PROVE  job[w].result \in Replies
BY PayAssumption DEF Shape, JobShape

-----------------------------------------------------------------------------
(* The handler is a client of the store *)

\* The methods that a worker calls are those its token gives access to.
LEMMA CallsOwned ==
    ASSUME Shape, NEW w \in Workers, pc[w] \notin {"idle", "claim"}, NEW d \in 0..Lag,
           Owned(job[w].key, job[w].request, job[w].token, d),
           held' = held \/ held' = held \ {job[w].token}
    PROVE  StoreNext
BY Working DEF StoreNext, Keeps

\* A request that ends without writing releases its token, if it has one.
LEMMA Releases ==
    ASSUME Shape, NEW w \in Workers, pc[w] # "idle", End(w), UNCHANGED idem
    PROVE  StoreNext \/ UNCHANGED storeVars
<1>1. held \subseteq Tokens /\ held' = held \ {job[w].token}
  BY DEF Shape, PayTypeOK, StoreTypeOK, End
<1>2. CASE pc[w] = "claim"
  <2>1. job[w].token = None
    BY <1>2 DEF Shape, JobShape
  <2>2. held' = held
    BY <1>1, <2>1, LightningNoneAssumption
  <2> QED
    BY <2>2 DEF storeVars
<1>3. CASE pc[w] # "claim"
  BY <1>1, <1>3, Working DEF StoreNext, Release
<1> QED
  BY <1>2, <1>3

\* Every step of the system is a step of the store's client, or none of its business.
LEMMA HandlerIsClient == Shape /\ [PayNext]_payVars => [StoreNext]_storeVars
<1> SUFFICES ASSUME Shape, [PayNext]_payVars PROVE StoreNext \/ UNCHANGED storeVars
  OBVIOUS
<1>1. ASSUME NEW w \in Workers,
             \/ Begin(w) \/ Lookup(w) \/ Post(w) \/ Answered(w) \/ Log(w)
      PROVE  UNCHANGED storeVars
  BY <1>1 DEF Begin, Lookup, Post, Answered, Log
<1>2. ASSUME NEW w \in Workers, Replay(w) \/ ClaimRefused(w) \/ LoseClaim(w) \/ Crash(w)
      PROVE  StoreNext \/ UNCHANGED storeVars
  <2>1. pc[w] # "idle" /\ End(w) /\ UNCHANGED idem
    BY <1>2 DEF Replay, ClaimRefused, LoseClaim, ClaimLost, Crash
  <2> QED
    BY <2>1, Releases
<1>3. ASSUME NEW w \in Workers, ClaimKey(w) PROVE StoreNext
  <2>1. pc[w] = "claim"
    BY <1>3 DEF ClaimKey
  <2>2. PICK tok \in Tokens, d \in 0..Lag :
            Claim(job[w].key, job[w].request, tok, Hash(w), d) /\ held' = held \cup {tok}
    BY <1>3 DEF ClaimKey
  <2> QED
    BY <2>1, <2>2, Working DEF StoreNext
<1>4. ASSUME NEW w \in Workers, Submit(w) PROVE StoreNext
  <2>1. pc[w] = "submit" /\ held' = held
    BY <1>4 DEF Submit, Step
  <2>2. PICK d \in 0..Lag : MarkSubmitted(job[w].key, job[w].request, job[w].token, Hash(w), d)
    BY <1>4 DEF Submit
  <2>3. Owned(job[w].key, job[w].request, job[w].token, d)
    BY <2>1, <2>2, Working DEF Owned
  <2> QED
    BY <2>1, <2>3, CallsOwned
<1>5. ASSUME NEW w \in Workers, BecomeUnknown(w) PROVE StoreNext
  <2>1. pc[w] = "unknown" /\ held' = held \ {job[w].token}
    BY <1>5 DEF BecomeUnknown, End
  <2>2. PICK d \in 0..Lag : MarkUnknown(job[w].key, job[w].request, job[w].token, Hash(w), d)
    BY <1>5 DEF BecomeUnknown
  <2>3. Owned(job[w].key, job[w].request, job[w].token, d)
    BY <2>1, <2>2, Working DEF Owned
  <2> QED
    BY <2>1, <2>3, CallsOwned
<1>6. ASSUME NEW w \in Workers, BecomeFailed(w) \/ Save(w) PROVE StoreNext
  <2>1. pc[w] \in {"fail", "save"} /\ held' = held \ {job[w].token}
    BY <1>6 DEF BecomeFailed, Save, End
  <2>2. \/ MarkFailed(job[w].key, job[w].request, job[w].token, job[w].result)
        \/ SaveIdempotent(job[w].key, job[w].request, job[w].token, job[w].result)
    BY <1>6 DEF BecomeFailed, Save
  <2>3. Owned(job[w].key, job[w].request, job[w].token, 0)
    BY <2>1, <2>2, Concluded DEF Owned
  <2> QED
    BY <2>1, <2>3, CallsOwned, LightningTimeAssumption
<1>7. ASSUME NEW k \in Keys, Land(k) PROVE UNCHANGED storeVars
  BY <1>7 DEF Land
<1>8. ASSUME NEW h \in Hashes, Resolve(h) PROVE UNCHANGED storeVars
  BY <1>8 DEF Resolve
<1>9. CASE Second
  BY <1>9 DEF Second, StoreNext
<1>10. CASE UNCHANGED payVars
  BY <1>10 DEF payVars, storeVars
<1> QED
  BY <1>1, <1>2, <1>3, <1>4, <1>5, <1>6, <1>7, <1>8, <1>9, <1>10 DEF PayNext, Handle

-----------------------------------------------------------------------------
(* Shape: which request has which token *)

\* No row gets an owner, ...
NobodyNew == \A k \in Keys : idem'[k].token \in {idem[k].token, None}

\* ... every request goes on with its key and token, or ends, ...
JobsKept ==
    /\ pc' \in [Workers -> Labels] /\ job' \in [Workers -> Job] /\ JobShape'
    /\ \A v \in Workers :
        \/ job'[v] = NoJob
        \/ job'[v].key = job[v].key /\ job'[v].token = job[v].token

\* ... and the other variables have their types.
HistoryOK ==
    /\ events \subseteq Replies \X Keys
    /\ posts \in [Keys -> Nat]
    /\ told \subseteq [key : Keys, request : Requests, reply : Replies]
    /\ wire \subseteq Keys
    /\ lnd \in [Hashes -> {"none", "in_flight", "succeeded", "failed"}]
    /\ payer \in [Hashes -> Keys \cup {None}]
    /\ taken \subseteq Keys

\* They have them before.
LEMMA HistoryHalf == Shape => HistoryOK
BY DEF Shape, PayTypeOK, HistoryOK

\* The reason why most steps keep Shape.
LEMMA FrameShape ==
    ASSUME Shape, StoreInv', NobodyNew, JobsKept, HistoryOK'
    PROVE  Shape'
<1>1. PayTypeOK' /\ OneOwner' /\ JobShape'
  BY DEF PayTypeOK, StoreInv, JobsKept, HistoryOK
<1>2. ASSUME NEW v \in Workers, NEW w \in Workers,
             job'[v].token = job'[w].token, job'[v].token # None
      PROVE  v = w
  BY <1>2 DEF Shape, TokenIdentifiesJob, JobsKept, NoJob
<1>3. ASSUME NEW w \in Workers, NEW k \in Keys, idem'[k].token = job'[w].token, idem'[k].token # None
      PROVE  job'[w].key = k
  BY <1>3 DEF Shape, TokenIdentifiesJob, JobsKept, NobodyNew, NoJob
<1> QED
  BY <1>1, <1>2, <1>3 DEF Shape, TokenIdentifiesJob

\* A request that ends, anywhere, ...
LEMMA EndJobs ==
    ASSUME Shape, NEW w \in Workers, End(w)
    PROVE  JobsKept /\ \A v \in Workers \ {w} : pc'[v] = pc[v] /\ job'[v] = job[v]
<1>1. pc \in [Workers -> Labels] /\ job \in [Workers -> Job] /\ NoJob \in Job /\ "idle" \in Labels
  BY DEF Shape, PayTypeOK, Job, NoJob, Labels
<1>2. /\ pc' = [pc EXCEPT ![w] = "idle"] /\ job' = [job EXCEPT ![w] = NoJob]
      /\ held' = held \ {job[w].token}
  BY DEF End, Goto
<1>3. NoJob.token = None
  BY DEF NoJob
<1>4. \A v \in Workers \ {w} : job[v].token \in held' \cup {None}
  BY <1>2 DEF Shape, JobShape, TokenIdentifiesJob
<1>5. /\ pc'[w] = "idle" /\ job'[w] = NoJob
      /\ \A v \in Workers \ {w} : pc'[v] = pc[v] /\ job'[v] = job[v]
  BY <1>1, <1>2
<1>6. JobShape'
  BY <1>3, <1>4, <1>5 DEF Shape, JobShape
<1> QED
  BY <1>1, <1>2, <1>5, <1>6 DEF JobsKept

\* ... one that goes on, after it learnt what to answer or not, ...
LEMMA MoveJobs ==
    ASSUME Shape, NEW w \in Workers, pc[w] \notin {"idle", "claim"},
           NEW to \in Labels \ {"idle", "claim"}, Goto(w, to), held' = held,
           job' = job \/ \E result \in Replies : job' = [job EXCEPT ![w].result = result],
           to = "fail" => job'[w].result \in {"rejected", "failed"},
           to \in {"log", "save"} => job'[w].result \in {"submitted", "paid"}
    PROVE  JobsKept /\ \A v \in Workers \ {w} : pc'[v] = pc[v] /\ job'[v] = job[v]
<1>1. pc \in [Workers -> Labels] /\ job \in [Workers -> Job]
  BY DEF Shape, PayTypeOK
<1>2. pc' = [pc EXCEPT ![w] = to]
  BY DEF Goto
<1>3. /\ job' \in [Workers -> Job] /\ \A v \in Workers \ {w} : job'[v] = job[v]
      /\ job'[w].key = job[w].key /\ job'[w].request = job[w].request
      /\ job'[w].token = job[w].token
  <2>1. CASE job' = job
    BY <1>1, <2>1
  <2>2. ASSUME NEW result \in Replies, job' = [job EXCEPT ![w].result = result]
        PROVE  /\ job' \in [Workers -> Job] /\ \A v \in Workers \ {w} : job'[v] = job[v]
               /\ job'[w].key = job[w].key /\ job'[w].request = job[w].request
               /\ job'[w].token = job[w].token
    <3> DEFINE j == [job[w] EXCEPT !.result = result]
    <3>1. job[w] \in Job /\ job' = [job EXCEPT ![w] = j]
      BY <1>1, <2>2
    <3>2. j \in Job /\ j.key = job[w].key /\ j.request = job[w].request /\ j.token = job[w].token
      BY <3>1 DEF Job
    <3> QED
      BY <1>1, <3>1, <3>2
  <2> QED
    BY <2>1, <2>2
<1>4. pc'[w] = to /\ \A v \in Workers \ {w} : pc'[v] = pc[v]
  BY <1>1, <1>2
<1>5. JobShape'
  BY <1>3, <1>4 DEF Shape, JobShape
<1> QED
  BY <1>1, <1>2, <1>3, <1>4, <1>5 DEF JobsKept

\* ... and requests that do nothing.
LEMMA RestJobs == ASSUME Shape, UNCHANGED <<pc, job, held>> PROVE JobsKept
BY DEF Shape, PayTypeOK, JobsKept, JobShape

-----------------------------------------------------------------------------
(* What the store's methods do to the rows *)

\* No row changes what it stands for or how far it is, except within the states
\* of a submitted payment.
RowsKept ==
    \A k \in Keys :
        /\ idem'[k].request = idem[k].request
        /\ idem'[k].payhash = idem[k].payhash
        /\ idem'[k].reply = idem[k].reply
        /\ idem'[k].state = "ABSENT" <=> idem[k].state = "ABSENT"
        /\ idem'[k].state = "CLAIMED" <=> idem[k].state = "CLAIMED"
        /\ idem'[k].state \in Final <=> idem[k].state \in Final

\* The row of key k is the only one to change.
OnlyRow(k) == \A j \in Keys \ {k} : idem'[j] = idem[j]

\* A step of the handler keeps the store's invariant, and only moves keys forward.
LEMMA ClientStep == Shape /\ [PayNext]_payVars => StoreInv' /\ KeyStep
<1> SUFFICES ASSUME Shape, [PayNext]_payVars PROVE StoreInv' /\ KeyStep
  OBVIOUS
<1>1. StoreInv /\ [StoreNext]_storeVars
  BY StoreHalf, HandlerIsClient
<1>2. CASE StoreNext
  BY <1>1, <1>2, StoreStepInv, KeyStepHolds
<1>3. CASE UNCHANGED storeVars
  <2>1. \A k \in Keys : idem[k].state \in {"ABSENT"} \cup Open \cup Final
    BY <1>1 DEF StoreInv, StoreTypeOK, Row
  <2>2. KeyStep
    BY <1>3, <2>1, MovesStay DEF KeyStep, storeVars
  <2> QED
    BY <1>1, <2>2, StoreStepInv
<1> QED
  BY <1>1, <1>2, <1>3

\* Unchanged rows.
LEMMA SameRows == ASSUME UNCHANGED idem PROVE RowsKept /\ NobodyNew
BY DEF RowsKept, NobodyNew

\* A second passes.
LEMMA TickRows == ASSUME Shape, Tick PROVE RowsKept /\ NobodyNew
BY StoreHalf, TickFields DEF StoreInv, StoreTypeOK, RowsKept, NobodyNew

\* A claim inserts a row, or takes over an open one, which stays as it is.
LEMMA ClaimRows ==
    ASSUME Shape, NEW k \in Keys, NEW r, NEW tok, NEW h, NEW d, Claim(k, r, tok, h, d)
    PROVE  /\ OnlyRow(k) /\ idem'[k].token = tok
           /\ \/ RowsKept
              \/ /\ idem[k].state = "ABSENT" /\ idem'[k].state = "CLAIMED"
                 /\ idem'[k].request = r /\ idem'[k].payhash = h /\ idem'[k].reply = None
<1>1. idem \in [Keys -> Row]
  BY DEF Shape, PayTypeOK, StoreTypeOK
<1>2. CASE ClaimFresh(k, r, tok, h, d)
  BY <1>1, <1>2 DEF ClaimFresh, OnlyRow
<1>3. CASE ClaimTakeover(k, r, tok, d)
  <2> DEFINE row == [idem[k] EXCEPT !.token = tok, !.lease = Lease - d]
  <2>1. idem' = [idem EXCEPT ![k] = row]
    BY <1>3 DEF ClaimTakeover
  <2>2. /\ row.request = idem[k].request /\ row.payhash = idem[k].payhash
        /\ row.reply = idem[k].reply /\ row.state = idem[k].state /\ row.token = tok
    BY <1>1 DEF Row
  <2> QED
    BY <1>1, <2>1, <2>2 DEF OnlyRow, RowsKept
<1> QED
  BY <1>2, <1>3 DEF Claim

\* The outcome is unknown: the row, which names the payment already, stays open.
LEMMA UnknownRows ==
    ASSUME Shape, RowShape, NEW k \in Keys, NEW r \in Requests, NEW tok, NEW d,
           MarkUnknown(k, r, tok, HashOf[r], d)
    PROVE  RowsKept /\ NobodyNew
<1> DEFINE row == [idem[k] EXCEPT !.state = "UNKNOWN", !.payhash = HashOf[r], !.lease = Lease - d]
<1>1. idem \in [Keys -> Row] /\ idem' = [idem EXCEPT ![k] = row]
  BY DEF Shape, PayTypeOK, StoreTypeOK, MarkUnknown
<1>2. idem[k].state \in {"SUBMITTED", "UNKNOWN"} /\ idem[k].request = r
  BY DEF MarkUnknown, Owns
<1>3. idem[k].payhash = HashOf[r]
  BY <1>2 DEF RowShape
<1>4. /\ row.request = idem[k].request /\ row.payhash = HashOf[r]
      /\ row.reply = idem[k].reply /\ row.state = "UNKNOWN" /\ row.token = idem[k].token
  BY <1>1 DEF Row
<1> QED
  BY <1>1, <1>2, <1>3, <1>4 DEF RowsKept, NobodyNew, Final

\* The store is told of a payment.
LEMMA SubmitRows ==
    ASSUME Shape, RowShape, NEW k \in Keys, NEW r \in Requests, NEW tok, NEW d,
           MarkSubmitted(k, r, tok, HashOf[r], d)
    PROVE  /\ OnlyRow(k) /\ NobodyNew
           /\ idem[k].state = "CLAIMED" /\ idem'[k].state = "SUBMITTED"
           /\ idem[k].request = r /\ idem'[k].request = r
           /\ idem[k].payhash = HashOf[r] /\ idem'[k].payhash = HashOf[r]
           /\ idem'[k].reply = idem[k].reply
<1> DEFINE row == [idem[k] EXCEPT !.state = "SUBMITTED", !.payhash = HashOf[r], !.lease = Lease - d]
<1>1. idem \in [Keys -> Row] /\ idem' = [idem EXCEPT ![k] = row]
  BY DEF Shape, PayTypeOK, StoreTypeOK, MarkSubmitted
<1>2. idem[k].state = "CLAIMED" /\ idem[k].request = r
  BY DEF MarkSubmitted, Owns
<1>3. idem[k].payhash = HashOf[r]
  BY <1>2 DEF RowShape
<1>4. /\ row.request = idem[k].request /\ row.payhash = HashOf[r]
      /\ row.reply = idem[k].reply /\ row.state = "SUBMITTED" /\ row.token = idem[k].token
  BY <1>1 DEF Row
<1> QED
  BY <1>1, <1>2, <1>3, <1>4 DEF OnlyRow, NobodyNew

\* A row is settled by its owner.
LEMMA SettleRows ==
    ASSUME Shape, RowShape, NEW k \in Keys, NEW r \in Requests, NEW tok, NEW reply,
           SaveIdempotent(k, r, tok, reply) \/ MarkFailed(k, r, tok, reply)
    PROVE  /\ OnlyRow(k) /\ NobodyNew
           /\ idem[k].state \in Open /\ idem'[k].state \in Final
           /\ idem[k].request = r /\ idem'[k].request = r
           /\ idem[k].payhash = HashOf[r] /\ idem'[k].payhash = HashOf[r]
           /\ idem[k].reply = None /\ idem'[k].reply = reply
<1>1. PICK state \in Final : Settle(k, state, reply)
  BY DEF SaveIdempotent, MarkFailed, Final
<1> DEFINE row == [idem[k] EXCEPT !.state = state, !.reply = reply,
                                  !.token = None, !.lease = Past]
<1>2. idem \in [Keys -> Row] /\ idem' = [idem EXCEPT ![k] = row]
  BY <1>1 DEF Shape, PayTypeOK, StoreTypeOK, Settle
<1>3. idem[k].state \in Open /\ idem[k].request = r
  BY DEF SaveIdempotent, MarkFailed, Owns
<1>4. idem[k].state # "ABSENT" /\ idem[k].state \notin Final
  BY <1>3 DEF Open, Final
<1>5. idem[k].payhash = HashOf[r] /\ idem[k].reply = None
  BY <1>3, <1>4 DEF RowShape
<1>6. /\ row.request = idem[k].request /\ row.payhash = idem[k].payhash
      /\ row.reply = reply /\ row.state = state /\ row.token = None
  BY <1>2 DEF Row
<1> QED
  BY <1>2, <1>3, <1>5, <1>6 DEF OnlyRow, NobodyNew

-----------------------------------------------------------------------------
(* Shape is kept *)

\* Telling a client its answer.
LEMMA TellOK ==
    ASSUME Shape, NEW w \in Workers, pc[w] # "idle", NEW reply \in Replies, Tell(w, reply)
    PROVE  told' \subseteq [key : Keys, request : Requests, reply : Replies]
BY Working, HistoryHalf DEF Tell, Answer, HistoryOK

\* A settled row has an answer for its client.
LEMMA ReplayReply ==
    ASSUME Shape, RowShape, NEW k \in Keys, idem[k].state \in Final
    PROVE  idem[k].reply \in Replies
<1>1. idem[k] \in Row
  BY DEF Shape, PayTypeOK, StoreTypeOK
<1> QED
  BY <1>1 DEF RowShape, Row

\* A claim gives a request a token that nobody has.
LEMMA ClaimShape ==
    ASSUME Shape, StoreInv', NEW w \in Workers, ClaimKey(w)
    PROVE  Shape'
<1>1. PICK tok \in Tokens, d \in 0..Lag :
          /\ Claim(job[w].key, job[w].request, tok, Hash(w), d)
          /\ held' = held \cup {tok}
          /\ job' = [job EXCEPT ![w].token = tok]
  BY DEF ClaimKey
<1>2. /\ pc[w] = "claim" /\ pc' = [pc EXCEPT ![w] = AfterClaim(job[w].key)]
      /\ UNCHANGED <<lndVars, events, posts, told>>
  BY DEF ClaimKey, Goto
<1>3. /\ pc \in [Workers -> Labels] /\ job \in [Workers -> Job]
      /\ AfterClaim(job[w].key) \in {"lookup", "submit"}
  BY DEF Shape, PayTypeOK, AfterClaim
<1>4. job[w].key \in Keys /\ job[w].request \in Requests /\ tok # None
  BY <1>2, Working, LightningNoneAssumption
<1>5. /\ job' \in [Workers -> Job] /\ pc' \in [Workers -> Labels]
      /\ pc'[w] \in {"lookup", "submit"}
      /\ job'[w].token = tok /\ job'[w].key = job[w].key /\ job'[w].request = job[w].request
      /\ \A v \in Workers \ {w} : pc'[v] = pc[v] /\ job'[v] = job[v]
  <2> DEFINE j == [job[w] EXCEPT !.token = tok]
  <2>1. job[w] \in Job /\ job' = [job EXCEPT ![w] = j]
    BY <1>1, <1>3
  <2>2. j \in Job /\ j.token = tok /\ j.key = job[w].key /\ j.request = job[w].request
    BY <2>1 DEF Job
  <2> QED
    BY <1>2, <1>3, <2>1, <2>2 DEF Labels
<1>6. PayTypeOK' /\ OneOwner'
  BY <1>2, <1>5 DEF Shape, PayTypeOK, StoreInv, lndVars
<1>7. JobShape'
  BY <1>1, <1>4, <1>5 DEF Shape, JobShape
<1>8. /\ \A v \in Workers : job[v].token # tok
      /\ \A k \in Keys : idem[k].token # tok
  <2>1. tok \notin held /\ \A k \in Keys : idem[k].token # tok
    BY <1>1 DEF Claim, Unissued
  <2> QED
    BY <1>4, <2>1 DEF Shape, JobShape
<1>9. OnlyRow(job[w].key) /\ idem'[job[w].key].token = tok
  BY <1>1, <1>4, ClaimRows
<1>10. ASSUME NEW u \in Workers, NEW v \in Workers, job'[u].token = job'[v].token, job'[u].token # None
       PROVE  u = v
  BY <1>5, <1>8, <1>10 DEF Shape, TokenIdentifiesJob
<1>11. ASSUME NEW v \in Workers, NEW k \in Keys, idem'[k].token = job'[v].token, idem'[k].token # None
       PROVE  job'[v].key = k
  BY <1>4, <1>5, <1>8, <1>9, <1>11 DEF Shape, TokenIdentifiesJob, OnlyRow
<1> QED
  BY <1>6, <1>7, <1>10, <1>11 DEF Shape, TokenIdentifiesJob

\* A request starts without a token.
LEMMA BeginShape ==
    ASSUME Shape, StoreInv', NEW w \in Workers, Begin(w)
    PROVE  Shape'
<1>1. PICK k \in Keys, r \in Requests :
          job' = [job EXCEPT ![w] = [NoJob EXCEPT !.key = k, !.request = r]]
  BY DEF Begin
<1> DEFINE j == [NoJob EXCEPT !.key = k, !.request = r]
<1>2. /\ pc[w] = "idle" /\ pc' = [pc EXCEPT ![w] = "claim"]
      /\ UNCHANGED <<storeVars, lndVars, events, posts, told>>
  BY DEF Begin, Goto
<1>3. /\ pc \in [Workers -> Labels] /\ job \in [Workers -> Job]
      /\ j \in Job /\ j.key = k /\ j.request = r /\ j.token = None
  BY DEF Shape, PayTypeOK, NoJob, Job
<1>4. /\ job' \in [Workers -> Job] /\ pc' \in [Workers -> Labels]
      /\ pc'[w] = "claim" /\ job'[w] = j
      /\ \A v \in Workers \ {w} : pc'[v] = pc[v] /\ job'[v] = job[v]
  BY <1>1, <1>2, <1>3 DEF Labels
<1> HIDE DEF j
<1>5. PayTypeOK' /\ OneOwner'
  BY <1>2, <1>4 DEF Shape, PayTypeOK, StoreInv, lndVars
<1>6. JobShape'
  BY <1>2, <1>3, <1>4 DEF Shape, JobShape, storeVars
<1>7. TokenIdentifiesJob'
  BY <1>2, <1>3, <1>4 DEF Shape, TokenIdentifiesJob, storeVars
<1> QED
  BY <1>5, <1>6, <1>7 DEF Shape

\* A request that ends by storing an answer, or by storing nothing.
LEMMA EndShape ==
    ASSUME Shape, StoreInv', NobodyNew, NEW w \in Workers, End(w), UNCHANGED <<lndVars, events, posts>>,
           told' \subseteq [key : Keys, request : Requests, reply : Replies]
    PROVE  Shape'
<1>1. HistoryOK'
  BY HistoryHalf DEF HistoryOK, lndVars
<1> QED
  BY <1>1, EndJobs, FrameShape

\* A request that goes on, and what it writes besides.
LEMMA MoveShape ==
    ASSUME Shape, StoreInv', NobodyNew, NEW w \in Workers, pc[w] \notin {"idle", "claim"},
           NEW to \in Labels \ {"idle", "claim"}, Goto(w, to), held' = held,
           job' = job \/ \E result \in Replies : job' = [job EXCEPT ![w].result = result],
           to = "fail" => job'[w].result \in {"rejected", "failed"},
           to \in {"log", "save"} => job'[w].result \in {"submitted", "paid"},
           HistoryOK'
    PROVE  Shape'
BY MoveJobs, FrameShape

\* A worker that learns what to answer.
LEMMA ConcludeFields ==
    ASSUME Shape, NEW w \in Workers, NEW result \in Replies, NEW to, Conclude(w, result, to)
    PROVE  /\ Goto(w, to) /\ job'[w].result = result
           /\ job'[w].key = job[w].key /\ job'[w].request = job[w].request
           /\ \E reply \in Replies : job' = [job EXCEPT ![w].result = reply]
<1> DEFINE j == [job[w] EXCEPT !.result = result]
<1>1. job \in [Workers -> Job] /\ job' = [job EXCEPT ![w] = j]
  BY DEF Shape, PayTypeOK, Conclude
<1>2. j.result = result /\ j.key = job[w].key /\ j.request = job[w].request
  BY <1>1 DEF Job
<1> QED
  BY <1>1, <1>2 DEF Conclude

\* In the steps that only learn something.
LEMMA LearnShape ==
    ASSUME Shape, StoreInv', NEW w \in Workers, Lookup(w) \/ Answered(w)
    PROVE  Shape'
<1>1. /\ pc[w] \in {"lookup", "posted"}
      /\ UNCHANGED <<idem, held, lndVars, events, posts, told>>
  BY DEF Lookup, Answered, storeVars
<1>2. HistoryOK' /\ NobodyNew
  BY <1>1, HistoryHalf DEF HistoryOK, lndVars, NobodyNew
<1>3. CASE Conclude(w, "paid", "log") \/ Conclude(w, "submitted", "log")
  <2>1. PICK result \in {"paid", "submitted"} : Conclude(w, result, "log")
    BY <1>3
  <2>2. result \in Replies /\ "log" \in Labels
    BY PayAssumption DEF Labels
  <2> QED
    BY <1>1, <1>2, <2>1, <2>2, ConcludeFields, MoveShape
<1>4. CASE Conclude(w, "failed", "fail") \/ Conclude(w, "rejected", "fail")
  <2>1. PICK result \in {"failed", "rejected"} : Conclude(w, result, "fail")
    BY <1>4
  <2>2. result \in Replies /\ "fail" \in Labels
    BY PayAssumption DEF Labels
  <2> QED
    BY <1>1, <1>2, <2>1, <2>2, ConcludeFields, MoveShape
<1>5. CASE Goto(w, "unknown") /\ UNCHANGED job
  BY <1>1, <1>2, <1>5, MoveShape DEF Labels
<1> QED
  BY <1>3, <1>4, <1>5 DEF Lookup, Answered

\* Every step keeps Shape.
LEMMA ShapeStep == Shape /\ RowShape /\ [PayNext]_payVars => Shape'
<1> SUFFICES ASSUME Shape, RowShape, [PayNext]_payVars PROVE Shape'
  OBVIOUS
<1>0. StoreInv' /\ HistoryOK
  BY ClientStep, HistoryHalf
<1>1. ASSUME NEW w \in Workers, Replay(w) \/ ClaimRefused(w) \/ LoseClaim(w) \/ Crash(w)
      PROVE  Shape'
  <2>1. /\ pc[w] # "idle" /\ End(w) /\ UNCHANGED <<idem, lndVars, events, posts>>
    BY <1>1 DEF Replay, ClaimRefused, LoseClaim, ClaimLost, Crash
  <2>2. told' \subseteq [key : Keys, request : Requests, reply : Replies]
    <3>1. CASE Replay(w)
      <4>1. idem[job[w].key].state \in Final /\ Tell(w, idem[job[w].key].reply)
        BY <3>1 DEF Replay, CanReplay
      <4> QED
        BY <2>1, <4>1, Working, ReplayReply, TellOK
    <3>2. CASE told' = told
      BY <1>0, <3>2 DEF HistoryOK
    <3> QED
      BY <1>1, <3>1, <3>2 DEF ClaimRefused, LoseClaim, Crash
  <2> QED
    BY <1>0, <2>1, <2>2, SameRows, EndShape
<1>2. ASSUME NEW w \in Workers, BecomeUnknown(w) PROVE Shape'
  <2>1. /\ pc[w] = "unknown" /\ End(w) /\ UNCHANGED <<lndVars, events, posts, told>>
    BY <1>2 DEF BecomeUnknown
  <2>2. PICK d \in 0..Lag : MarkUnknown(job[w].key, job[w].request, job[w].token, Hash(w), d)
    BY <1>2 DEF BecomeUnknown
  <2>3. NobodyNew
    BY <2>1, <2>2, Working, UnknownRows DEF Hash
  <2> QED
    BY <1>0, <2>1, <2>3, EndShape DEF HistoryOK
<1>3. ASSUME NEW w \in Workers, BecomeFailed(w) \/ Save(w) PROVE Shape'
  <2>1. /\ pc[w] \in {"fail", "save"} /\ End(w) /\ Tell(w, job[w].result)
        /\ UNCHANGED <<lndVars, events, posts>>
    BY <1>3 DEF BecomeFailed, Save
  <2>2. NobodyNew
    BY <1>3, <2>1, Working, SettleRows DEF BecomeFailed, Save
  <2> QED
    BY <1>0, <2>1, <2>2, Concluded, TellOK, EndShape
<1>4. ASSUME NEW w \in Workers, Submit(w) PROVE Shape'
  <2>1. /\ pc[w] = "submit" /\ Goto(w, "post") /\ UNCHANGED <<job, held, lndVars, events, posts, told>>
    BY <1>4 DEF Submit, Step
  <2>2. PICK d \in 0..Lag : MarkSubmitted(job[w].key, job[w].request, job[w].token, Hash(w), d)
    BY <1>4 DEF Submit
  <2>3. NobodyNew
    BY <2>1, <2>2, Working, SubmitRows DEF Hash
  <2>4. HistoryOK' /\ "post" \in Labels
    BY <1>0, <2>1 DEF HistoryOK, lndVars, Labels
  <2> QED
    BY <1>0, <2>1, <2>3, <2>4, MoveShape
<1>5. ASSUME NEW w \in Workers, Post(w) PROVE Shape'
  <2>1. /\ pc[w] = "post" /\ Goto(w, "posted") /\ UNCHANGED <<job, held, idem>>
        /\ wire' = wire \cup {job[w].key} /\ posts' = [posts EXCEPT ![job[w].key] = @ + 1]
        /\ UNCHANGED <<lnd, payer, taken, events, told>>
    BY <1>5 DEF Post, Step, storeVars
  <2>2. HistoryOK' /\ "posted" \in Labels
    BY <1>0, <2>1, Working DEF HistoryOK, Labels
  <2> QED
    BY <1>0, <2>1, <2>2, SameRows, MoveShape
<1>6. ASSUME NEW w \in Workers, Log(w) PROVE Shape'
  <2>1. /\ pc[w] = "log" /\ Goto(w, "save") /\ UNCHANGED <<job, held, idem>>
        /\ events' = events \cup {<<job[w].result, job[w].key>>}
        /\ UNCHANGED <<lndVars, posts, told>>
    BY <1>6 DEF Log, Step, storeVars
  <2>2. HistoryOK' /\ "save" \in Labels
    BY <1>0, <2>1, Working, Concluded DEF HistoryOK, lndVars, Labels
  <2>3. job[w].result \in {"submitted", "paid"}
    BY <2>1 DEF Shape, JobShape
  <2> QED
    BY <1>0, <2>1, <2>2, <2>3, SameRows, MoveShape
<1>7. ASSUME NEW k \in Keys, Land(k) PROVE Shape'
  <2>1. UNCHANGED <<idem, held, pc, job, events, posts, told>> /\ wire' = wire \ {k}
    BY <1>7 DEF Land, storeVars
  <2>2. \/ UNCHANGED <<lnd, payer, taken>>
        \/ \E h : /\ lnd' = [lnd EXCEPT ![h] = "in_flight"]
                  /\ payer' = [payer EXCEPT ![h] = k]
                  /\ taken' = taken \cup {k}
    BY <1>7 DEF Land
  <2>3. HistoryOK'
    BY <1>0, <2>1, <2>2 DEF HistoryOK
  <2> QED
    BY <1>0, <2>1, <2>3, SameRows, RestJobs, FrameShape
<1>8. ASSUME NEW h \in Hashes, Resolve(h) PROVE Shape'
  <2>1. /\ UNCHANGED <<idem, held, pc, job, wire, payer, taken, events, posts, told>>
        /\ \E s \in {"succeeded", "failed"} : lnd' = [lnd EXCEPT ![h] = s]
    BY <1>8 DEF Resolve, storeVars
  <2>2. HistoryOK'
    BY <1>0, <2>1 DEF HistoryOK
  <2> QED
    BY <1>0, <2>1, <2>2, SameRows, RestJobs, FrameShape
<1>9. CASE Second
  <2>1. Tick /\ UNCHANGED <<held, pc, job, lndVars, events, posts, told>>
    BY <1>9 DEF Second, Tick
  <2>2. HistoryOK'
    BY <1>0, <2>1 DEF HistoryOK, lndVars
  <2> QED
    BY <1>0, <2>1, <2>2, TickRows, RestJobs, FrameShape
<1>10. CASE UNCHANGED payVars
  BY <1>0, <1>10, HistoryHalf, SameRows, RestJobs, FrameShape
     DEF payVars, storeVars, lndVars, HistoryOK
<1> QED
  BY <1>0, <1>1, <1>2, <1>3, <1>4, <1>5, <1>6, <1>7, <1>8, <1>9, <1>10,
     ClaimShape, BeginShape, LearnShape DEF PayNext, Handle

-----------------------------------------------------------------------------
(* Facts: what nobody has to learn twice *)

\* What a worker has seen stays true when others move on: a submitted key, an
\* event, what LND took or paid, and that a POST is spent.
LndKept ==
    /\ taken \subseteq taken'
    /\ \A h \in Hashes : lnd[h] = "succeeded" => lnd'[h] = "succeeded"
    /\ \A h \in Hashes : lnd[h] # "none" => lnd'[h] # "none"
    /\ \A k \in Keys, h \in Hashes : Spent(k, h) => Spent(k, h)'

LearntKept ==
    /\ LndKept /\ events \subseteq events'
    /\ \A k \in Keys : Submitted(k) => Submitted(k)'

\* A reply once justified stays so.
LEMMA BackedStays ==
    ASSUME LndKept, NEW reply, NEW k \in Keys, NEW h \in Hashes, Backed(reply, k, h)
    PROVE  Backed(reply, k, h)'
BY DEF LndKept, Backed

\* Requests leave LND alone, except by a POST.
LEMMA LndSame == ASSUME UNCHANGED <<lndVars, posts>> PROVE LndKept
BY DEF LndKept, lndVars, Spent, Paying

\* A key goes forward, and a settled one stays where it is.
LEMMA Forward ==
    ASSUME Shape, KeyStep, NEW k \in Keys
    PROVE  /\ Submitted(k) => Submitted(k)'
           /\ idem[k].state \in Final =>
                /\ idem'[k].state = idem[k].state
                /\ idem'[k].request = idem[k].request /\ idem'[k].reply = idem[k].reply
<1>1. idem[k].state \in {"ABSENT"} \cup Open \cup Final
  BY DEF Shape, PayTypeOK, StoreTypeOK, Row
<1>2. /\ idem'[k].state \in Moves(idem[k].state)
      /\ idem[k].state # "ABSENT" => idem'[k].request = idem[k].request
      /\ idem[k].state \in Final => idem'[k].reply = idem[k].reply
  BY DEF KeyStep
<1>3. /\ Moves("SUBMITTED") = {"SUBMITTED", "UNKNOWN"} \cup Final
      /\ Moves("UNKNOWN") = {"UNKNOWN"} \cup Final
      /\ Moves("SUCCEEDED") = {"SUCCEEDED"} /\ Moves("FAILED_FINAL") = {"FAILED_FINAL"}
  BY DEF Moves
<1> QED
  BY <1>1, <1>2, <1>3 DEF Submitted, Open, Final

\* A worker that stays where it is goes on to know what it knew, ...
LEMMA Stays ==
    ASSUME Shape, LearntKept, NEW v \in Workers, WorkerKnows(v), pc'[v] = pc[v], job'[v] = job[v],
           pc[v] \in {"post", "posted"} => posts'[job[v].key] = posts[job[v].key]
    PROVE  WorkerKnows(v)'
<1>1. CASE pc[v] \in Dispatched
  <2>1. job[v].key \in Keys /\ Hash(v) \in Hashes /\ Hash(v)' = Hash(v)
    BY <1>1, Working DEF Dispatched, Hash
  <2>2. pc[v] \in {"fail", "log", "save"} => Backed(job[v].result, job[v].key, Hash(v))'
    BY <2>1, BackedStays DEF WorkerKnows, LearntKept
  <2> QED
    BY <2>1, <2>2 DEF WorkerKnows, LearntKept, Backed, Hash
<1>2. CASE pc[v] \notin Dispatched
  BY <1>2 DEF WorkerKnows, Dispatched
<1> QED
  BY <1>1, <1>2

\* ... so that only the one that moves is of interest, ...
LEMMA OthersStay ==
    ASSUME Shape, Facts, LearntKept, posts' = posts, NEW w \in Workers, WorkerKnows(w)',
           \A v \in Workers \ {w} : pc'[v] = pc[v] /\ job'[v] = job[v]
    PROVE  \A v \in Workers : WorkerKnows(v)'
BY Stays DEF Facts

\* ... if it does anything.
LEMMA AllStay ==
    ASSUME Shape, Facts, LearntKept, UNCHANGED <<posts, pc, job>>
    PROVE  (\A v \in Workers : WorkerKnows(v)') /\ OnePoster'
BY Stays DEF Facts, OnePoster

\* One that knows nothing yet, or no more.
LEMMA KnowsNothing ==
    ASSUME NEW w \in Workers, pc'[w] \notin Dispatched PROVE WorkerKnows(w)'
BY DEF WorkerKnows, Dispatched

\* Nobody comes to post.
LEMMA NoPoster ==
    ASSUME Facts, NEW w \in Workers, pc'[w] # "post",
           \A v \in Workers \ {w} : pc'[v] = pc[v] /\ job'[v] = job[v]
    PROVE  OnePoster'
BY DEF Facts, OnePoster

\* What a client was told is in the row.
FromRow(a) ==
    /\ idem[a.key].state \in Final
    /\ idem[a.key].request = a.request /\ idem[a.key].reply = a.reply

\* Settled rows stay, hence so does what was told.
LEMMA ToldStays ==
    ASSUME Shape, Facts, KeyStep, \A a \in told' : a \in told \/ FromRow(a)'
    PROVE  ToldFromRow'
<1>1. \A a \in told : a.key \in Keys /\ FromRow(a)
  BY HistoryHalf DEF Facts, ToldFromRow, FromRow, HistoryOK
<1>2. \A a \in told : FromRow(a)'
  BY <1>1, Forward DEF FromRow
<1> QED
  BY <1>2 DEF ToldFromRow, FromRow

\* Rows that keep what they stand for, while LND keeps what it did.
LEMMA KeysSame ==
    ASSUME Shape, Facts, RowsKept, UNCHANGED <<lndVars, posts>>, events \subseteq events'
    PROVE  RowShape' /\ \A k \in Keys : KeyKnown(k)'
<1>1. RowShape'
  BY DEF Facts, RowShape, RowsKept
<1>2. ASSUME NEW k \in Keys PROVE KeyKnown(k)'
  <2>1. Backed(idem[k].reply, k, idem[k].payhash)'
    <3>1. Backed(idem[k].reply, k, idem[k].payhash)
      BY DEF Facts, KeyKnown
    <3>2. idem'[k].reply = idem[k].reply /\ idem'[k].payhash = idem[k].payhash
      BY DEF RowsKept
    <3>3. Spent(k, idem[k].payhash) => Spent(k, idem[k].payhash)'
      BY <3>2 DEF Spent, Paying, lndVars
    <3> QED
      BY <3>1, <3>2, <3>3 DEF Backed, lndVars
  <2> QED
    BY <2>1 DEF Facts, KeyKnown, RowsKept, lndVars, Submitted
<1> QED
  BY <1>1, <1>2

\* The reason why most steps keep Facts: one worker moves, and knows what it has to.
LEMMA FrameFacts ==
    ASSUME Shape, Facts, KeyStep, RowsKept, UNCHANGED <<lndVars, posts>>, events \subseteq events',
           NEW w \in Workers, WorkerKnows(w)', pc'[w] # "post",
           \A v \in Workers \ {w} : pc'[v] = pc[v] /\ job'[v] = job[v],
           \A a \in told' : a \in told \/ FromRow(a)'
    PROVE  Facts'
<1>1. LearntKept
  BY Forward, LndSame DEF LearntKept
<1> QED
  BY <1>1, OthersStay, NoPoster, KeysSame, ToldStays DEF Facts

-----------------------------------------------------------------------------
(* Facts are kept *)

\* A request that ends without writing anything new.
LEMMA EndFacts ==
    ASSUME Shape, Facts, KeyStep, RowsKept, NEW w \in Workers, End(w),
           UNCHANGED <<lndVars, posts, events>>, \A a \in told' : a \in told \/ FromRow(a)'
    PROVE  Facts'
<1>1. pc'[w] = "idle"
  BY DEF Shape, PayTypeOK, End, Goto
<1>2. WorkerKnows(w)'
  BY <1>1, KnowsNothing DEF Dispatched
<1> QED
  BY <1>1, <1>2, EndJobs, FrameFacts

\* The claim of a new key, or of one whose row says how far it is.
LEMMA ClaimFacts ==
    ASSUME Shape, Facts, KeyStep, NEW w \in Workers, ClaimKey(w)
    PROVE  Facts'
<1>0. PICK k : k = job[w].key
  OBVIOUS
<1> USE <1>0
<1>1. PICK tok \in Tokens, d \in 0..Lag :
          /\ Claim(k, job[w].request, tok, Hash(w), d)
          /\ job' = [job EXCEPT ![w].token = tok]
  BY DEF ClaimKey
<1>2. /\ pc[w] = "claim" /\ pc' = [pc EXCEPT ![w] = AfterClaim(k)]
      /\ UNCHANGED <<lndVars, events, posts, told>>
  BY DEF ClaimKey, Goto
<1>3. pc \in [Workers -> Labels] /\ job \in [Workers -> Job]
  BY DEF Shape, PayTypeOK
<1>4. /\ k \in Keys /\ job[w].request \in Requests /\ Hash(w) = HashOf[job[w].request]
      /\ OnlyRow(k)
  BY <1>1, <1>2, Working, ClaimRows DEF Hash
<1>5. /\ pc'[w] = AfterClaim(k) /\ job'[w].key = k
      /\ \A v \in Workers \ {w} : pc'[v] = pc[v] /\ job'[v] = job[v]
  BY <1>1, <1>2, <1>3 DEF Job
<1>6. WorkerKnows(w)'
  <2>1. CASE AfterClaim(k) = "lookup"
    <3>1. Submitted(k)
      BY <2>1 DEF AfterClaim, Submitted
    <3> QED
      BY <1>4, <1>5, <2>1, <3>1, Forward DEF WorkerKnows
  <2>2. CASE AfterClaim(k) = "submit"
    BY <1>5, <2>2, KnowsNothing DEF Dispatched
  <2> QED
    BY <2>1, <2>2 DEF AfterClaim
<1>7. pc'[w] # "post"
  BY <1>5 DEF AfterClaim
<1>8. CASE RowsKept
  BY <1>2, <1>5, <1>6, <1>7, <1>8, FrameFacts
<1>9. CASE ~RowsKept
  <2>1. /\ idem[k].state = "ABSENT" /\ idem'[k].state = "CLAIMED"
        /\ idem'[k].request = job[w].request /\ idem'[k].payhash = HashOf[job[w].request]
        /\ idem'[k].reply = None
    BY <1>1, <1>4, <1>9, ClaimRows
  <2>2. RowShape'
    BY <1>4, <2>1 DEF Facts, RowShape, OnlyRow, Final
  <2>3. KeyKnown(k)'
    <3>1. posts[k] = 0 /\ k \notin wire \cup taken /\ \A h \in Hashes : payer[h] # k
      <4>1. ~(posts[k] > 0) /\ posts[k] \in Nat
        BY <1>4, <2>1, HistoryHalf DEF Facts, KeyKnown, Submitted, HistoryOK
      <4> QED
        <5>1. KeyKnown(k)
          BY <1>4 DEF Facts
        <5> QED
          BY <4>1, <5>1 DEF KeyKnown
    <3>2. None \notin {"submitted", "paid", "rejected"}
      BY LightningNoneAssumption, PayAssumption
    <3> QED
      BY <1>2, <2>1, <3>1, <3>2 DEF KeyKnown, Backed, lndVars
  <2>4. ASSUME NEW j \in Keys \ {k} PROVE KeyKnown(j)'
    BY <1>2, <1>4, <2>4 DEF Facts, KeyKnown, Backed, Spent, Paying, Submitted, lndVars, OnlyRow
  <2>5. LearntKept
    BY <1>2, Forward, LndSame DEF LearntKept
  <2> QED
    BY <1>2, <1>5, <1>6, <1>7, <2>2, <2>3, <2>4, <2>5, OthersStay, NoPoster, ToldStays DEF Facts
<1> QED
  BY <1>8, <1>9

\* mark_submitted: from now on the key is in no other worker's hands to post.
LEMMA SubmitFacts ==
    ASSUME Shape, Facts, KeyStep, NEW w \in Workers, Submit(w)
    PROVE  Facts'
<1>0. PICK k : k = job[w].key
  OBVIOUS
<1> USE <1>0
<1>1. PICK d \in 0..Lag : MarkSubmitted(k, job[w].request, job[w].token, HashOf[job[w].request], d)
  BY DEF Submit, Hash
<1>2. /\ pc[w] = "submit" /\ pc' = [pc EXCEPT ![w] = "post"]
      /\ UNCHANGED <<job, lndVars, events, posts, told>>
  BY DEF Submit, Step, Goto
<1>3. /\ k \in Keys /\ job[w].request \in Requests
      /\ pc'[w] = "post" /\ \A v \in Workers \ {w} : pc'[v] = pc[v] /\ job'[v] = job[v]
  BY <1>2, Working DEF Shape, PayTypeOK
<1>4. /\ OnlyRow(k)
      /\ idem[k].state = "CLAIMED" /\ idem'[k].state = "SUBMITTED"
      /\ idem'[k].request = idem[k].request /\ idem'[k].payhash = idem[k].payhash
      /\ idem'[k].reply = idem[k].reply
  BY <1>1, <1>3, SubmitRows DEF Facts
<1>5. RowShape'
  BY <1>3, <1>4 DEF Facts, RowShape, OnlyRow, Final
<1>6. Submitted(k)' /\ ~Submitted(k) /\ posts[k] = 0
  <2>1. Submitted(k)' /\ ~Submitted(k)
    BY <1>4 DEF Submitted
  <2>2. ~(posts[k] > 0) /\ posts[k] \in Nat
    BY <1>3, <2>1, HistoryHalf DEF Facts, KeyKnown, HistoryOK
  <2> QED
    BY <2>1, <2>2
<1>7. ASSUME NEW j \in Keys PROVE KeyKnown(j)'
  <2>1. Backed(idem[j].reply, j, idem[j].payhash)'
    <3>1. Backed(idem[j].reply, j, idem[j].payhash)
      BY DEF Facts, KeyKnown
    <3>2. idem'[j].reply = idem[j].reply /\ idem'[j].payhash = idem[j].payhash
      BY <1>4 DEF OnlyRow
    <3> QED
      BY <1>2, <3>1, <3>2 DEF Backed, Spent, Paying, lndVars
  <2>2. Submitted(j) => Submitted(j)'
    BY Forward
  <2> QED
    BY <1>2, <1>4, <2>1, <2>2 DEF Facts, KeyKnown, lndVars, OnlyRow
<1>8. WorkerKnows(w)'
  BY <1>2, <1>3, <1>6 DEF WorkerKnows
<1>9. LearntKept
  BY <1>2, Forward, LndSame DEF LearntKept
<1>10. OnePoster'
  <2>1. \A v \in Workers : pc[v] = "post" => job[v].key # k
    BY <1>6 DEF Facts, WorkerKnows, Dispatched
  <2> QED
    BY <1>2, <1>3, <2>1 DEF Facts, OnePoster
<1> QED
  BY <1>2, <1>3, <1>5, <1>7, <1>8, <1>9, <1>10, OthersStay, ToldStays DEF Facts

\* The answer is stored and given: the worker knows why.
LEMMA SettleFacts ==
    ASSUME Shape, Facts, KeyStep, NEW w \in Workers, Save(w) \/ BecomeFailed(w)
    PROVE  Facts'
<1>0. PICK k, r, reply : k = job[w].key /\ r = job[w].request /\ reply = job[w].result
  OBVIOUS
<1> USE <1>0
<1>1. /\ pc[w] \in {"save", "fail"} /\ End(w) /\ Tell(w, reply)
      /\ UNCHANGED <<lndVars, events, posts>>
  BY DEF Save, BecomeFailed
<1>2. k \in Keys /\ r \in Requests /\ Hash(w) = HashOf[r] /\ HashOf[r] \in Hashes /\ reply \in Replies
  BY <1>1, Working, Concluded DEF Hash
<1>3. /\ OnlyRow(k)
      /\ idem[k].state \in Open /\ idem'[k].state \in Final
      /\ idem[k].request = r /\ idem'[k].request = r
      /\ idem[k].payhash = HashOf[r] /\ idem'[k].payhash = HashOf[r]
      /\ idem[k].reply = None /\ idem'[k].reply = reply
  BY <1>1, <1>2, SettleRows DEF Facts, Save, BecomeFailed
<1>4. /\ pc'[w] = "idle" /\ \A v \in Workers \ {w} : pc'[v] = pc[v] /\ job'[v] = job[v]
  BY <1>1, EndJobs DEF Shape, PayTypeOK, End, Goto
<1>5. RowShape'
  BY <1>2, <1>3, LightningNoneAssumption DEF Facts, RowShape, OnlyRow
<1>6. KeyKnown(k)'
  <2>1. Backed(reply, k, HashOf[r])
    BY <1>1, <1>2 DEF Facts, WorkerKnows
  <2>2. Backed(idem[k].reply, k, idem[k].payhash)'
    BY <1>1, <1>3, <2>1 DEF Backed, Spent, Paying, lndVars
  <2>3. reply \in {"submitted", "paid"} => <<reply, k>> \in events
    BY <1>1 DEF Facts, WorkerKnows, Shape, JobShape
  <2>4. Submitted(k)'
    BY <1>3 DEF Submitted, Final
  <2> QED
    BY <1>1, <1>2, <1>3, <2>2, <2>3, <2>4 DEF Facts, KeyKnown, lndVars
<1>7. ASSUME NEW j \in Keys \ {k} PROVE KeyKnown(j)'
  BY <1>1, <1>3, <1>7 DEF Facts, KeyKnown, Backed, Spent, Paying, Submitted, lndVars, OnlyRow
<1>8. LearntKept
  BY <1>1, Forward, LndSame DEF LearntKept
<1>9. ToldFromRow'
  <2>1. FromRow(Answer(k, r, reply))'
    BY <1>3 DEF FromRow, Answer
  <2> QED
    BY <1>1, <2>1, ToldStays DEF Tell
<1>10. WorkerKnows(w)' /\ OnePoster'
  BY <1>4, KnowsNothing, NoPoster DEF Dispatched
<1> QED
  BY <1>1, <1>4, <1>5, <1>6, <1>7, <1>8, <1>9, <1>10, OthersStay DEF Facts

\* The POST leaves: no other worker of the key is at or past it.
LEMMA PostFacts ==
    ASSUME Shape, Facts, KeyStep, NEW w \in Workers, Post(w)
    PROVE  Facts'
<1>0. PICK k : k = job[w].key
  OBVIOUS
<1> USE <1>0
<1>1. /\ pc[w] = "post" /\ pc' = [pc EXCEPT ![w] = "posted"]
      /\ wire' = wire \cup {k} /\ posts' = [posts EXCEPT ![k] = @ + 1]
      /\ UNCHANGED <<idem, held, job, lnd, payer, taken, events, told>>
  BY DEF Post, Step, Goto, storeVars
<1>2. /\ k \in Keys /\ posts[k] = 0 /\ Submitted(k)
      /\ pc'[w] = "posted" /\ \A v \in Workers \ {w} : pc'[v] = pc[v] /\ job'[v] = job[v]
  BY <1>1, Working DEF Shape, PayTypeOK, Facts, WorkerKnows, Dispatched
<1>3. posts'[k] = 1 /\ \A j \in Keys \ {k} : posts'[j] = posts[j]
  BY <1>1, <1>2, HistoryHalf DEF HistoryOK
<1>4. LndKept
  BY <1>1, <1>2, <1>3 DEF LndKept, Spent, Paying
<1>5. LearntKept
  BY <1>1, <1>4 DEF LearntKept, Submitted
<1>6. ASSUME NEW j \in Keys PROVE KeyKnown(j)'
  <2>1. idem[j].state # "ABSENT" => idem[j].payhash \in Hashes
    BY PayAssumption DEF Facts, RowShape
  <2>2. Backed(idem[j].reply, j, idem[j].payhash)'
    <3>1. CASE idem[j].reply = "rejected"
      <4>1. Spent(j, idem[j].payhash)
        BY <3>1 DEF Facts, KeyKnown, Backed
      <4>2. j # k
        BY <1>2, <4>1 DEF Spent
      <4> QED
        BY <1>1, <1>3, <3>1, <4>1, <4>2 DEF Backed, Spent, Paying
    <3>2. CASE idem[j].reply # "rejected"
      BY <1>1, <3>2 DEF Facts, KeyKnown, Backed
    <3> QED
      BY <3>1, <3>2
  <2>3. posts[j] <= 1 /\ (posts[j] > 0 => Submitted(j)) /\ (j \in wire \cup taken => posts[j] = 1)
    BY DEF Facts, KeyKnown
  <2>4. posts'[j] <= 1 /\ (posts'[j] > 0 => Submitted(j)') /\ (j \in wire' \cup taken' => posts'[j] = 1)
    BY <1>1, <1>2, <1>3, <2>3 DEF Submitted
  <2> QED
    BY <1>1, <2>2, <2>4 DEF Facts, KeyKnown
<1>7. WorkerKnows(w)'
  BY <1>1, <1>2, <1>3 DEF WorkerKnows, Dispatched, Submitted
<1>8. ASSUME NEW v \in Workers \ {w} PROVE WorkerKnows(v)'
  <2>1. ASSUME pc[v] \in {"post", "posted"} PROVE job[v].key \in Keys /\ job[v].key # k
    <3>1. job[v].key \in Keys
      BY <2>1, Working
    <3>2. CASE pc[v] = "post"
      BY <1>1, <3>1, <3>2 DEF Facts, OnePoster
    <3>3. CASE pc[v] = "posted"
      <4>1. WorkerKnows(v)
        BY DEF Facts
      <4>2. posts[job[v].key] = 1
        BY <3>3, <4>1 DEF WorkerKnows
      <4> QED
        BY <1>2, <3>1, <4>2
    <3> QED
      BY <2>1, <3>1, <3>2, <3>3
  <2> QED
    BY <1>2, <1>3, <1>5, <2>1, Stays DEF Facts
<1>9. OnePoster' /\ RowShape'
  BY <1>1, <1>2, NoPoster DEF Facts, RowShape
<1> QED
  BY <1>1, <1>6, <1>7, <1>8, <1>9, ToldStays DEF Facts

\* LND takes the POST, or it is lost; either way there is no other of that key.
LEMMA LandFacts ==
    ASSUME Shape, Facts, KeyStep, NEW k \in Keys, Land(k)
    PROVE  Facts'
<1>0. PICK h : h = HashOf[idem[k].request]
  OBVIOUS
<1>1. /\ k \in wire /\ wire' = wire \ {k}
      /\ UNCHANGED <<idem, held, pc, job, events, posts, told>>
      /\ \/ UNCHANGED <<lnd, payer, taken>>
         \/ /\ lnd[h] \in {"none", "failed"}
            /\ lnd' = [lnd EXCEPT ![h] = "in_flight"]
            /\ payer' = [payer EXCEPT ![h] = k]
            /\ taken' = taken \cup {k}
  BY <1>0 DEF Land, storeVars
<1>2. KeyKnown(k)
  BY DEF Facts
<1>3. posts[k] = 1 /\ Submitted(k)
  BY <1>1, <1>2 DEF KeyKnown
<1>4. idem[k].payhash = h /\ h \in Hashes
  BY <1>0, <1>3, PayAssumption DEF Facts, RowShape, Submitted
<1>5. lnd \in [Hashes -> {"none", "in_flight", "succeeded", "failed"}]
      /\ payer \in [Hashes -> Keys \cup {None}]
  BY HistoryHalf DEF HistoryOK
<1>6. LndKept
  <2>1. ASSUME NEW j \in Keys, NEW g \in Hashes, Spent(j, g) PROVE Spent(j, g)'
    <3>1. j # k /\ ~Paying(j, g)
      BY <1>1, <2>1 DEF Spent
    <3>2. ~Paying(j, g)'
      BY <1>1, <1>4, <1>5, <3>1 DEF Paying
    <3> QED
      BY <1>1, <2>1, <3>2 DEF Spent
  <2>2. \A g \in Hashes : /\ lnd[g] = "succeeded" => lnd'[g] = "succeeded"
                          /\ lnd[g] # "none" => lnd'[g] # "none"
    BY <1>1, <1>4, <1>5
  <2> QED
    BY <1>1, <2>1, <2>2 DEF LndKept
<1>7. LearntKept
  BY <1>1, <1>6 DEF LearntKept, Submitted
<1>8. ASSUME NEW j \in Keys PROVE KeyKnown(j)'
  <2>1. KeyKnown(j)
    BY DEF Facts
  <2>2. posts[j] > 0 => idem[j].payhash \in Hashes
    BY <2>1, PayAssumption DEF KeyKnown, Facts, RowShape, Submitted
  <2>3. j \in wire' \cup taken' => posts[j] = 1
    BY <1>1, <1>3, <2>1 DEF KeyKnown
  <2>4. j \in taken' => lnd'[idem[j].payhash] # "none"
    <3>1. CASE j \in taken
      BY <1>6, <2>1, <2>2, <3>1 DEF LndKept, KeyKnown
    <3>2. CASE j \notin taken
      BY <1>1, <1>4, <1>5, <3>2
    <3> QED
      BY <3>1, <3>2
  <2>5. \A g \in Hashes : payer'[g] = j => j \in taken'
    BY <1>1, <1>5, <2>1 DEF KeyKnown
  <2>6. Backed(idem[j].reply, j, idem[j].payhash)'
    <3>1. CASE idem[j].reply = None
      BY <1>1, <3>1, LightningNoneAssumption, PayAssumption DEF Backed
    <3>2. CASE idem[j].reply # None
      <4>1. idem[j].state # "ABSENT"
        BY <3>2 DEF Facts, RowShape, Final
      <4>2. idem[j].payhash \in Hashes
        BY <4>1, PayAssumption DEF Facts, RowShape
      <4> QED
        BY <1>1, <1>6, <2>1, <4>2, BackedStays DEF KeyKnown, Backed
    <3> QED
      BY <3>1, <3>2
  <2> QED
    BY <1>1, <2>1, <2>3, <2>4, <2>5, <2>6 DEF KeyKnown, Submitted
<1> QED
  BY <1>1, <1>7, <1>8, AllStay, ToldStays DEF Facts, RowShape

\* LND gets a payment through, or not.
LEMMA ResolveFacts ==
    ASSUME Shape, Facts, KeyStep, NEW h \in Hashes, Resolve(h)
    PROVE  Facts'
<1>1. /\ lnd[h] = "in_flight" /\ \E s \in {"succeeded", "failed"} : lnd' = [lnd EXCEPT ![h] = s]
      /\ UNCHANGED <<idem, held, wire, payer, taken, pc, job, events, posts, told>>
  BY DEF Resolve, storeVars
<1>2. lnd \in [Hashes -> {"none", "in_flight", "succeeded", "failed"}]
  BY HistoryHalf DEF HistoryOK
<1>3. LndKept
  <2>1. \A g \in Hashes : /\ lnd[g] = "succeeded" => lnd'[g] = "succeeded"
                          /\ lnd[g] # "none" => lnd'[g] # "none"
                          /\ lnd'[g] \in {"in_flight", "succeeded"}
                                => lnd[g] \in {"in_flight", "succeeded"}
    BY <1>1, <1>2
  <2> QED
    BY <1>1, <2>1 DEF LndKept, Spent, Paying
<1>4. LearntKept
  BY <1>1, <1>3 DEF LearntKept, Submitted
<1>5. ASSUME NEW j \in Keys PROVE KeyKnown(j)'
  <2>1. KeyKnown(j)
    BY DEF Facts
  <2>2. posts[j] > 0 => idem[j].payhash \in Hashes
    BY <2>1, PayAssumption DEF KeyKnown, Facts, RowShape, Submitted
  <2>3. j \in taken' => lnd'[idem[j].payhash] # "none"
    BY <1>1, <1>3, <2>1, <2>2 DEF LndKept, KeyKnown
  <2>4. Backed(idem[j].reply, j, idem[j].payhash)'
    <3>1. CASE idem[j].reply = None
      BY <1>1, <3>1, LightningNoneAssumption, PayAssumption DEF Backed
    <3>2. CASE idem[j].reply # None
      <4>1. idem[j].state # "ABSENT"
        BY <3>2 DEF Facts, RowShape, Final
      <4>2. idem[j].payhash \in Hashes
        BY <4>1, PayAssumption DEF Facts, RowShape
      <4> QED
        BY <1>1, <1>3, <2>1, <4>2, BackedStays DEF KeyKnown, Backed
    <3> QED
      BY <3>1, <3>2
  <2> QED
    BY <1>1, <2>1, <2>3, <2>4 DEF KeyKnown, Submitted
<1> QED
  BY <1>1, <1>4, <1>5, AllStay, ToldStays DEF Facts, RowShape

\* A worker learns from LND why it may answer as it will.
LEMMA LearnFacts ==
    ASSUME Shape, Facts, KeyStep, NEW w \in Workers, Lookup(w) \/ Answered(w)
    PROVE  Facts'
<1>1. /\ pc[w] \in {"lookup", "posted"}
      /\ UNCHANGED <<idem, held, lndVars, events, posts, told>>
  BY DEF Lookup, Answered, storeVars
<1>2. PICK k, h : k = job[w].key /\ h = Hash(w)
  OBVIOUS
<1>3. k \in Keys /\ h \in Hashes /\ Submitted(k) /\ WorkerKnows(w) /\ KeyKnown(k)
  BY <1>1, <1>2, Working DEF Facts, WorkerKnows, Dispatched
<1>4. ASSUME NEW result \in Replies, NEW to \in {"log", "fail"}, Conclude(w, result, to),
             Backed(result, k, h)
      PROVE  Facts'
  <2>1. /\ pc'[w] = to /\ job'[w].result = result /\ job'[w].key = k /\ Hash(w)' = h
        /\ \A v \in Workers \ {w} : pc'[v] = pc[v] /\ job'[v] = job[v]
    BY <1>2, <1>4, ConcludeFields DEF Conclude, Goto, Shape, PayTypeOK, Hash
  <2>2. Backed(result, k, h)'
    BY <1>1, <1>3, <1>4, LndSame, BackedStays
  <2>3. WorkerKnows(w)'
    BY <1>1, <1>3, <2>1, <2>2 DEF WorkerKnows, Submitted, Backed
  <2> QED
    BY <1>1, <2>1, <2>3, SameRows, FrameFacts
<1>5. CASE Goto(w, "unknown") /\ UNCHANGED job
  <2>1. pc'[w] = "unknown" /\ \A v \in Workers \ {w} : pc'[v] = pc[v] /\ job'[v] = job[v]
    BY <1>5 DEF Goto, Shape, PayTypeOK
  <2>2. WorkerKnows(w)'
    BY <1>1, <1>2, <1>3, <1>5, <2>1 DEF WorkerKnows, Submitted
  <2> QED
    BY <1>1, <2>1, <2>2, SameRows, FrameFacts
<1>6. CASE lnd[h] = "succeeded" /\ Conclude(w, "paid", "log")
  BY <1>4, <1>6, PayAssumption DEF Backed
<1>7. CASE Conclude(w, "failed", "fail")
  BY <1>4, <1>7, PayAssumption DEF Backed
<1>8. CASE Paying(k, h) /\ Conclude(w, "submitted", "log")
  BY <1>3, <1>4, <1>8, PayAssumption DEF Backed, Paying, KeyKnown
<1>9. CASE pc[w] = "posted" /\ k \notin wire /\ ~Paying(k, h) /\ Conclude(w, "rejected", "fail")
  <2>1. Spent(k, h)
    BY <1>2, <1>3, <1>9 DEF Spent, WorkerKnows
  <2> QED
    BY <1>4, <1>9, <2>1, PayAssumption DEF Backed
<1> QED
  BY <1>2, <1>5, <1>6, <1>7, <1>8, <1>9 DEF Lookup, Answered

\* Every step keeps Facts.
LEMMA FactsStep == Shape /\ Facts /\ [PayNext]_payVars => Facts'
<1> SUFFICES ASSUME Shape, Facts, [PayNext]_payVars PROVE Facts'
  OBVIOUS
<1>0. KeyStep
  BY ClientStep
<1>1. ASSUME NEW w \in Workers, Begin(w) PROVE Facts'
  <2>1. /\ UNCHANGED <<idem, lndVars, events, posts, told>>
        /\ pc' = [pc EXCEPT ![w] = "claim"] /\ \E j : job' = [job EXCEPT ![w] = j]
    BY <1>1 DEF Begin, Goto, storeVars
  <2>2. pc'[w] = "claim" /\ \A v \in Workers \ {w} : pc'[v] = pc[v] /\ job'[v] = job[v]
    BY <2>1 DEF Shape, PayTypeOK
  <2> QED
    BY <1>0, <2>1, <2>2, SameRows, KnowsNothing, FrameFacts DEF Dispatched
<1>2. ASSUME NEW w \in Workers, Replay(w) \/ ClaimRefused(w) \/ LoseClaim(w) \/ Crash(w)
      PROVE  Facts'
  <2>1. End(w) /\ UNCHANGED <<idem, lndVars, events, posts>>
    BY <1>2 DEF Replay, ClaimRefused, LoseClaim, Crash
  <2>2. \A a \in told' : a \in told \/ FromRow(a)'
    <3>1. CASE Replay(w)
      <4>1. PICK k, r : k = job[w].key /\ r = job[w].request
        OBVIOUS
      <4>2. idem[k].request = r /\ idem[k].state \in Final
            /\ told' = told \cup {Answer(k, r, idem[k].reply)}
        BY <3>1, <4>1 DEF Replay, CanReplay, Tell
      <4>3. FromRow(Answer(k, r, idem[k].reply))'
        BY <2>1, <4>2 DEF FromRow, Answer
      <4> QED
        BY <2>1, <4>2, <4>3
    <3>2. CASE told' = told
      BY <3>2
    <3> QED
      BY <1>2, <3>1, <3>2 DEF ClaimRefused, LoseClaim, Crash
  <2> QED
    BY <1>0, <2>1, <2>2, SameRows, EndFacts
<1>3. ASSUME NEW w \in Workers, BecomeUnknown(w) PROVE Facts'
  <2>1. /\ pc[w] = "unknown" /\ End(w) /\ UNCHANGED <<lndVars, events, posts, told>>
    BY <1>3 DEF BecomeUnknown
  <2>2. RowsKept
    BY <1>3, <2>1, Working, UnknownRows DEF BecomeUnknown, Hash, Facts
  <2> QED
    BY <1>0, <2>1, <2>2, EndFacts
<1>4. ASSUME NEW w \in Workers, Log(w) PROVE Facts'
  <2>1. /\ pc[w] = "log" /\ pc' = [pc EXCEPT ![w] = "save"]
        /\ events' = events \cup {<<job[w].result, job[w].key>>}
        /\ UNCHANGED <<idem, job, lndVars, posts, told>>
    BY <1>4 DEF Log, Step, Goto, storeVars
  <2>2. pc'[w] = "save" /\ \A v \in Workers \ {w} : pc'[v] = pc[v] /\ job'[v] = job[v]
    BY <2>1 DEF Shape, PayTypeOK
  <2>3. job[w].key \in Keys /\ Hash(w) \in Hashes /\ Hash(w)' = Hash(w) /\ WorkerKnows(w)
    BY <2>1, Working DEF Hash, Facts
  <2>4. Backed(job[w].result, job[w].key, Hash(w))'
    BY <2>1, <2>3 DEF WorkerKnows, Backed, Spent, Paying, lndVars
  <2>5. WorkerKnows(w)'
    BY <2>1, <2>2, <2>3, <2>4 DEF WorkerKnows, Submitted, Dispatched
  <2> QED
    BY <1>0, <2>1, <2>2, <2>5, SameRows, FrameFacts
<1>5. CASE Second \/ UNCHANGED payVars
  <2>1. UNCHANGED <<pc, job, lndVars, events, posts, told>>
    BY <1>5 DEF Second, payVars
  <2>2. RowsKept
    BY <1>5, TickRows, SameRows DEF Second, payVars, storeVars
  <2>3. LearntKept
    BY <1>0, <2>1, Forward, LndSame DEF LearntKept
  <2> QED
    BY <1>0, <2>1, <2>2, <2>3, AllStay, KeysSame, ToldStays DEF Facts
<1> QED
  BY <1>0, <1>1, <1>2, <1>3, <1>4, <1>5, ClaimFacts, SubmitFacts, SettleFacts, PostFacts,
     LandFacts, ResolveFacts, LearnFacts DEF PayNext, Handle

-----------------------------------------------------------------------------
(* The invariant *)

\* At the start nobody does anything and LND was asked nothing.
LEMMA PayStarts == PayInit => PayInv
<1> SUFFICES ASSUME PayInit PROVE PayInv
  OBVIOUS
<1>1. StoreInv
  BY StoreInitInv DEF PayInit
<1>2. \A k \in Keys : idem[k].state = "ABSENT" /\ idem[k].token = None /\ idem[k].reply = None
  BY DEF PayInit, StoreInit, NoRow
<1>3. /\ NoJob \in Job /\ NoJob.token = None /\ "idle" \in Labels
      /\ \A w \in Workers : pc[w] = "idle" /\ job[w] = NoJob
      /\ \A k \in Keys : posts[k] = 0
      /\ \A h \in Hashes : payer[h] = None
  BY DEF PayInit, NoJob, Job, Labels
<1>4. Shape
  BY <1>1, <1>2, <1>3 DEF PayInit, Shape, PayTypeOK, StoreInv, JobShape, TokenIdentifiesJob
<1>5. Facts
  <2>1. None \notin Keys /\ None \notin {"submitted", "paid", "rejected"}
    BY LightningNoneAssumption, PayAssumption
  <2>2. \A k \in Keys : KeyKnown(k)
    BY <1>2, <1>3, <2>1 DEF PayInit, KeyKnown, Backed
  <2> QED
    BY <1>2, <1>3, <2>2 DEF PayInit, Facts, RowShape, OnePoster, ToldFromRow, WorkerKnows,
                            Dispatched, Final
<1> QED
  BY <1>4, <1>5, Halves

\* PayInv is inductive.
LEMMA PayInvStep == PayInv /\ [PayNext]_payVars => PayInv'
<1> SUFFICES ASSUME PayInv, [PayNext]_payVars PROVE PayInv'
  OBVIOUS
<1>1. Shape /\ Facts
  BY Halves
<1>2. Shape' /\ Facts'
  BY <1>1, ShapeStep, FactsStep DEF Facts
<1> QED
  BY <1>2 DEF PayInv, Shape, Facts

\* For any number of workers, keys, requests and hashes, however claims lapse and
\* whatever is lost: the invariant of pay_invoice.
THEOREM PayInvariant == PaySpec => []PayInv
BY PayStarts, PayInvStep, PTL DEF PaySpec

\* All variables keep their types.
THEOREM PayTypeCorrect == PaySpec => []PayTypeOK
<1>1. PayInv => PayTypeOK
  BY DEF PayInv
<1> QED
  BY <1>1, PayInvariant, PTL

\* At most one payment is ever POSTed under a key.
THEOREM PayPostsOnce == PaySpec => []SubmittedOnce
<1>1. PayInv => SubmittedOnce
  BY DEF PayInv, KeyKnown, SubmittedOnce
<1> QED
  BY <1>1, PayInvariant, PTL

\* No payment leaves before the store was told.
THEOREM PayWritesAhead == PaySpec => []SubmittedFirst
<1>1. PayInv => SubmittedFirst
  BY DEF PayInv, KeyKnown, SubmittedFirst, Submitted
<1> QED
  BY <1>1, PayInvariant, PTL

\* A 202 that is stored is what LND did.
THEOREM PaySettlesRightly == PaySpec => []SettledMatchesLnd
<1>1. PayInv => SettledMatchesLnd
  BY DEF PayInv, KeyKnown, Backed, SettledMatchesLnd
<1> QED
  BY <1>1, PayInvariant, PTL

\* A payment that was stored as rejected is not made.
THEOREM PayRejectsRightly == PaySpec => []RejectedNotPaid
<1>1. PayInv => RejectedNotPaid
  BY DEF PayInv, KeyKnown, Backed, Spent, RejectedNotPaid
<1> QED
  BY <1>1, PayInvariant, PTL

\* All clients of a key are told the same.
THEOREM PayAnswersOnce == PaySpec => []OneAnswer
<1>1. PayInv => OneAnswer
  <2> SUFFICES ASSUME PayInv, NEW a \in told, NEW b \in told, a.key = b.key PROVE a = b
    BY DEF OneAnswer
  <2>1. /\ a \in [key : Keys, request : Requests, reply : Replies]
        /\ b \in [key : Keys, request : Requests, reply : Replies]
    BY DEF PayInv, PayTypeOK
  <2>2. a.request = b.request /\ a.reply = b.reply
    BY DEF PayInv, ToldFromRow
  <2> QED
    BY <2>1, <2>2
<1> QED
  BY <1>1, PayInvariant, PTL

\* Nobody is told 202 without an event.
THEOREM PayAnswersAreLogged == PaySpec => []AnswersLogged
<1>1. PayInv => AnswersLogged
  <2> SUFFICES ASSUME PayInv, NEW a \in told, a.reply \in {"submitted", "paid"}
               PROVE  <<a.reply, a.key>> \in events
    BY DEF AnswersLogged
  <2>1. a.key \in Keys /\ idem[a.key].reply = a.reply
    BY DEF PayInv, PayTypeOK, ToldFromRow
  <2>2. KeyKnown(a.key)
    BY <2>1 DEF PayInv
  <2> QED
    BY <2>1, <2>2 DEF KeyKnown
<1> QED
  BY <1>1, PayInvariant, PTL

\* pay_invoice uses the store as its most general client may.
THEOREM PayIsClient == PaySpec => LightningStoreSpec
<1>1. PayInit => StoreInit
  BY DEF PayInit
<1>2. PayInv /\ [PayNext]_payVars => [StoreNext]_storeVars
  BY Halves, HandlerIsClient
<1> QED
  BY <1>1, <1>2, PayInvariant, PTL DEF PaySpec, LightningStoreSpec

-----------------------------------------------------------------------------
(* The ledger: what it does not see *)

\* Rows that keep what they stand for, as the ledger sees them.
LEMMA ChosenKept ==
    ASSUME RowsKept, NEW k \in Keys
    PROVE  /\ ChosenHash(k)' = ChosenHash(k)
           /\ HashOf[idem'[k].request] = HashOf[idem[k].request]
           /\ Verdict(idem'[k].reply) = Verdict(idem[k].reply)
BY DEF RowsKept, ChosenHash

\* What LND took, as the ledger sees it.
Known == {h \in Hashes : lnd[h] # "none"}

\* Then the ledger sees nothing.
LEMMA Unseen ==
    ASSUME RowsKept, wire' = wire, Known' = Known, wire \subseteq Keys
    PROVE  UNCHANGED Ledger!ledgerVars
BY ChosenKept DEF Ledger!ledgerVars, Known

\* LND as it was.
LEMMA KnownSame == ASSUME UNCHANGED lndVars PROVE wire' = wire /\ Known' = Known
BY DEF lndVars, Known

-----------------------------------------------------------------------------
(* The ledger: what it sees *)

\* A row that was not there, and has no POST, is nothing to the ledger either.
LEMMA ClaimLedger ==
    ASSUME Shape, Facts, NEW w \in Workers, ClaimKey(w)
    PROVE  UNCHANGED Ledger!ledgerVars
<1>0. PICK k : k = job[w].key
  OBVIOUS
<1>1. PICK tok \in Tokens, d \in 0..Lag : Claim(k, job[w].request, tok, Hash(w), d)
  BY <1>0 DEF ClaimKey
<1>2. pc[w] = "claim" /\ wire' = wire /\ Known' = Known /\ wire \subseteq Keys
  BY KnownSame, HistoryHalf DEF ClaimKey, HistoryOK
<1>3. k \in Keys /\ OnlyRow(k)
  BY <1>0, <1>1, <1>2, Working, ClaimRows
<1>4. CASE RowsKept
  BY <1>2, <1>4, Unseen
<1>5. CASE ~RowsKept
  <2>1. idem[k].state = "ABSENT" /\ idem'[k].state = "CLAIMED" /\ idem'[k].reply = None
    BY <1>1, <1>3, <1>5, ClaimRows
  <2>2. k \notin wire /\ idem[k].reply = None
    <3>1. KeyKnown(k) /\ ~Submitted(k)
      BY <1>3, <2>1 DEF Facts, Submitted
    <3>2. k \notin wire
      BY <3>1 DEF KeyKnown
    <3> QED
      BY <1>3, <2>1, <3>2 DEF Facts, RowShape, Final
  <2>3. \A j \in Keys : /\ ChosenHash(j)' = ChosenHash(j)
                        /\ Verdict(idem'[j].reply) = Verdict(idem[j].reply)
    BY <1>3, <2>1, <2>2 DEF ChosenHash, OnlyRow
  <2>4. \A j \in wire : HashOf[idem'[j].request] = HashOf[idem[j].request]
    BY <1>2, <1>3, <2>2 DEF OnlyRow
  <2> QED
    BY <1>2, <2>3, <2>4 DEF Ledger!ledgerVars, Known
<1> QED
  BY <1>4, <1>5

\* mark_submitted decides what the key stands for.
LEMMA SubmitLedger ==
    ASSUME Shape, Facts, NEW w \in Workers, Submit(w)
    PROVE  Ledger!LedgerNext
<1>0. PICK k, h : k = job[w].key /\ h = HashOf[job[w].request]
  OBVIOUS
<1>1. PICK d \in 0..Lag : MarkSubmitted(k, job[w].request, job[w].token, h, d)
  BY <1>0 DEF Submit, Hash
<1>2. pc[w] = "submit" /\ wire' = wire /\ Known' = Known /\ wire \subseteq Keys
  BY KnownSame, HistoryHalf DEF Submit, Step, HistoryOK
<1>3. k \in Keys /\ job[w].request \in Requests /\ h \in Hashes /\ h # None
  BY <1>0, <1>2, Working DEF Hash
<1>4. /\ OnlyRow(k)
      /\ idem[k].state = "CLAIMED" /\ idem'[k].state = "SUBMITTED"
      /\ idem'[k].request = idem[k].request /\ idem'[k].payhash = h
      /\ idem'[k].reply = idem[k].reply
  BY <1>0, <1>1, <1>3, SubmitRows DEF Facts
<1>5. /\ ChosenHash(k) = None /\ ChosenHash(k)' = h
      /\ \A j \in Keys \ {k} : ChosenHash(j)' = ChosenHash(j)
  BY <1>4 DEF ChosenHash, OnlyRow
<1>6. {ChosenHash(j)' : j \in Keys} \ {None} = ({ChosenHash(j) : j \in Keys} \ {None}) \cup {h}
  BY <1>3, <1>5
<1>7. \A j \in Keys : /\ HashOf[idem'[j].request] = HashOf[idem[j].request]
                      /\ Verdict(idem'[j].reply) = Verdict(idem[j].reply)
  BY <1>4 DEF OnlyRow
<1>8. Ledger!Choose(k, h)
  <2>1. {HashOf[idem'[j].request] : j \in wire'} = {HashOf[idem[j].request] : j \in wire}
    BY <1>2, <1>7
  <2>2. [j \in Keys |-> ChosenHash(j)'] = [[j \in Keys |-> ChosenHash(j)] EXCEPT ![k] = h]
    BY <1>3, <1>5 DEF ChosenHash
  <2>3. [j \in Keys |-> Verdict(idem'[j].reply)] = [j \in Keys |-> Verdict(idem[j].reply)]
    BY <1>7
  <2> QED
    BY <1>2, <1>3, <1>5, <1>6, <2>1, <2>2, <2>3 DEF Ledger!Choose, Known
<1> QED
  BY <1>3, <1>8 DEF Ledger!LedgerNext

\* What leaves is what the key stands for.
LEMMA PostLedger ==
    ASSUME Shape, Facts, NEW w \in Workers, Post(w)
    PROVE  Ledger!LedgerNext
<1>0. PICK k, h : k = job[w].key /\ h = HashOf[idem[k].request]
  OBVIOUS
<1>1. pc[w] = "post" /\ wire' = wire \cup {k} /\ UNCHANGED <<idem, lnd>>
  BY <1>0 DEF Post, Step, storeVars
<1>2. k \in Keys /\ Submitted(k)
  BY <1>0, <1>1, Working DEF Facts, WorkerKnows, Dispatched
<1>3. h \in Hashes /\ ChosenHash(k) = h /\ h # None
  BY <1>0, <1>2, PayAssumption, LightningNoneAssumption DEF Facts, RowShape, Submitted, ChosenHash
<1>4. \A j \in Keys : ChosenHash(j)' = ChosenHash(j)
  BY <1>1 DEF ChosenHash
<1>5. h \in {ChosenHash(j) : j \in Keys} \ {None}
  BY <1>2, <1>3
<1>6. {HashOf[idem'[j].request] : j \in wire'} = {HashOf[idem[j].request] : j \in wire} \cup {h}
  BY <1>0, <1>1
<1>7. Ledger!Leave(h)
  BY <1>1, <1>4, <1>5, <1>6 DEF Ledger!Leave
<1> QED
  BY <1>3, <1>7 DEF Ledger!LedgerNext

\* A POST arrives; another key's, of the same hash, may still be on its way.
LEMMA LandLedger ==
    ASSUME Shape, Facts, NEW k \in Keys, Land(k)
    PROVE  Ledger!LedgerNext
<1>0. PICK h : h = HashOf[idem[k].request]
  OBVIOUS
<1>1. /\ k \in wire /\ wire' = wire \ {k} /\ idem' = idem
      /\ lnd' = lnd \/ lnd' = [lnd EXCEPT ![h] = "in_flight"]
  BY <1>0 DEF Land, storeVars
<1>2. h \in Hashes
  <2>1. KeyKnown(k)
    BY DEF Facts
  <2>2. Submitted(k)
    BY <1>1, <2>1 DEF KeyKnown
  <2> QED
    BY <1>0, <2>2, PayAssumption DEF Facts, RowShape, Submitted
<1>3. \A j \in Keys : ChosenHash(j)' = ChosenHash(j)
  BY <1>1 DEF ChosenHash
<1>4. /\ h \in {HashOf[idem[j].request] : j \in wire}
      /\ {HashOf[idem'[j].request] : j \in wire'} \in
            {{HashOf[idem[j].request] : j \in wire}, {HashOf[idem[j].request] : j \in wire} \ {h}}
  BY <1>0, <1>1
<1>5. lnd \in [Hashes -> {"none", "in_flight", "succeeded", "failed"}]
  BY HistoryHalf DEF HistoryOK
<1>6. Known' \in {Known, Known \cup {h}}
  BY <1>1, <1>2, <1>5 DEF Known
<1>7. Ledger!Arrive(h)
  <2>1. [j \in Keys |-> ChosenHash(j)'] = [j \in Keys |-> ChosenHash(j)]
        /\ {ChosenHash(j)' : j \in Keys} = {ChosenHash(j) : j \in Keys}
    BY <1>3
  <2> QED
    BY <1>1, <1>4, <1>6, <2>1 DEF Ledger!Arrive, Known
<1> QED
  BY <1>2, <1>7 DEF Ledger!LedgerNext

\* A stored answer is a verdict on a payment that LND took, or not.
LEMMA SettleLedger ==
    ASSUME Shape, Facts, NEW w \in Workers, Save(w) \/ BecomeFailed(w)
    PROVE  Ledger!LedgerNext
<1>0. PICK k, r, h, reply :
          k = job[w].key /\ r = job[w].request /\ h = HashOf[r] /\ reply = job[w].result
  OBVIOUS
<1>1. pc[w] \in {"save", "fail"} /\ wire' = wire /\ Known' = Known /\ wire \subseteq Keys
  BY KnownSame, HistoryHalf DEF Save, BecomeFailed, HistoryOK
<1>2. k \in Keys /\ r \in Requests /\ Hash(w) = h /\ h \in Hashes /\ h # None
  BY <1>0, <1>1, Working DEF Hash
<1>3. /\ OnlyRow(k) /\ idem'[k].state \in Final
      /\ idem[k].request = r /\ idem'[k].request = r
      /\ idem[k].payhash = h /\ idem'[k].payhash = h
      /\ idem[k].reply = None /\ idem'[k].reply = reply
  BY <1>0, <1>1, <1>2, SettleRows DEF Facts, Save, BecomeFailed
<1>4. Submitted(k) /\ Backed(reply, k, h)
  BY <1>0, <1>1, <1>2 DEF Facts, WorkerKnows, Dispatched
<1>5. /\ ChosenHash(k) = h /\ ChosenHash(k)' = h
      /\ \A j \in Keys \ {k} : ChosenHash(j)' = ChosenHash(j)
  BY <1>3, <1>4 DEF ChosenHash, Submitted, OnlyRow, Final
<1>6. \A j \in Keys : HashOf[idem'[j].request] = HashOf[idem[j].request]
  BY <1>3 DEF OnlyRow
<1>7. /\ Verdict(idem[k].reply) = "none" /\ Verdict(idem'[k].reply) = Verdict(reply)
      /\ \A j \in Keys \ {k} : Verdict(idem'[j].reply) = Verdict(idem[j].reply)
  <2>1. None \notin {"submitted", "paid", "rejected", "failed"}
    BY LightningNoneAssumption, PayAssumption
  <2> QED
    BY <1>3, <2>1 DEF Verdict, OnlyRow
<1>8. /\ [j \in Keys |-> ChosenHash(j)'] = [j \in Keys |-> ChosenHash(j)]
      /\ {ChosenHash(j)' : j \in Keys} = {ChosenHash(j) : j \in Keys}
      /\ {HashOf[idem'[j].request] : j \in wire'} = {HashOf[idem[j].request] : j \in wire}
  BY <1>1, <1>2, <1>5, <1>6
<1>9. [j \in Keys |-> Verdict(idem'[j].reply)]
        = [[j \in Keys |-> Verdict(idem[j].reply)] EXCEPT ![k] = Verdict(reply)]
  BY <1>2, <1>7
<1>10. CASE pc[w] = "save"
  <2>1. reply \in {"submitted", "paid"}
    BY <1>0, <1>10 DEF Shape, JobShape
  <2>2. Verdict(reply) = "ok"
    BY <2>1 DEF Verdict
  <2>3. lnd[h] # "none"
    BY <1>2, <1>3, <1>4, <2>1 DEF Backed, Facts, KeyKnown
  <2>4. Ledger!SettleOk(k)
    BY <1>1, <1>2, <1>5, <1>7, <1>8, <1>9, <2>2, <2>3 DEF Ledger!SettleOk, Known
  <2> QED
    BY <1>2, <2>4 DEF Ledger!LedgerNext
<1>11. CASE pc[w] = "fail"
  <2>1. reply \in {"rejected", "failed"}
    BY <1>0, <1>11 DEF Shape, JobShape
  <2>2. Verdict(reply) = "refused"
    BY <2>1 DEF Verdict
  <2>3. Ledger!Refuse(k)
    BY <1>1, <1>2, <1>5, <1>7, <1>8, <1>9, <2>2 DEF Ledger!Refuse, Known
  <2> QED
    BY <1>2, <2>3 DEF Ledger!LedgerNext
<1> QED
  BY <1>1, <1>10, <1>11

-----------------------------------------------------------------------------
(* The refinement *)

\* Initially no key stands for anything.
LEMMA LedgerStarts == PayInit => Ledger!LedgerInit
<1> SUFFICES ASSUME PayInit PROVE Ledger!LedgerInit
  OBVIOUS
<1>1. /\ \A k \in Keys : idem[k].state = "ABSENT" /\ idem[k].reply = None
      /\ wire = {} /\ \A h \in Hashes : lnd[h] = "none"
  BY DEF PayInit, StoreInit, NoRow
<1>2. Verdict(None) = "none"
  BY LightningNoneAssumption, PayAssumption DEF Verdict
<1>3. \A k \in Keys : ChosenHash(k) = None
  BY <1>1 DEF ChosenHash
<1> QED
  BY <1>1, <1>2, <1>3 DEF Ledger!LedgerInit

\* Each step is a step of the ledger, or unseen.
LEMMA LedgerStep == PayInv /\ [PayNext]_payVars => [Ledger!LedgerNext]_(Ledger!ledgerVars)
<1> SUFFICES ASSUME PayInv, [PayNext]_payVars
             PROVE  Ledger!LedgerNext \/ UNCHANGED Ledger!ledgerVars
  OBVIOUS
<1>0. Shape /\ Facts /\ wire \subseteq Keys
  BY Halves, HistoryHalf DEF HistoryOK
<1>1. ASSUME NEW w \in Workers,
             \/ Begin(w) \/ Replay(w) \/ ClaimRefused(w) \/ Lookup(w) \/ Answered(w)
             \/ Log(w) \/ LoseClaim(w) \/ Crash(w)
      PROVE  UNCHANGED Ledger!ledgerVars
  <2>1. UNCHANGED <<idem, lndVars>>
    BY <1>1 DEF Begin, Replay, ClaimRefused, Lookup, Answered, Log, LoseClaim, Crash, storeVars
  <2> QED
    BY <1>0, <2>1, SameRows, KnownSame, Unseen
<1>2. ASSUME NEW w \in Workers, BecomeUnknown(w) PROVE UNCHANGED Ledger!ledgerVars
  <2>1. pc[w] = "unknown" /\ UNCHANGED lndVars
    BY <1>2 DEF BecomeUnknown
  <2>2. RowsKept
    BY <1>0, <1>2, <2>1, Working, UnknownRows DEF BecomeUnknown, Hash, Facts
  <2> QED
    BY <1>0, <2>1, <2>2, KnownSame, Unseen
<1>3. ASSUME NEW h \in Hashes, Resolve(h) PROVE UNCHANGED Ledger!ledgerVars
  <2>1. /\ UNCHANGED <<idem, wire>> /\ lnd[h] = "in_flight"
        /\ \E s \in {"succeeded", "failed"} : lnd' = [lnd EXCEPT ![h] = s]
    BY <1>3 DEF Resolve, storeVars
  <2>2. Known' = Known
    BY <1>0, <2>1, HistoryHalf DEF Known, HistoryOK
  <2> QED
    BY <1>0, <2>1, <2>2, SameRows, Unseen
<1>4. CASE Second \/ UNCHANGED payVars
  <2>1. RowsKept /\ UNCHANGED lndVars
    BY <1>0, <1>4, TickRows, SameRows DEF Second, payVars, storeVars
  <2> QED
    BY <1>0, <2>1, KnownSame, Unseen
<1> QED
  BY <1>0, <1>1, <1>2, <1>3, <1>4, ClaimLedger, SubmitLedger, PostLedger, LandLedger, SettleLedger
     DEF PayNext, Handle

\* pay_invoice keeps the same books as the Bitcoin handler, except that several
\* keys may stand for one hash and none is ever forgotten.
THEOREM PayKeepsLedger == PaySpec => KeepsLedger
BY LedgerStarts, LedgerStep, PayInvariant, PTL DEF PaySpec, KeepsLedger, Ledger!LedgerSpec

=============================================================================
