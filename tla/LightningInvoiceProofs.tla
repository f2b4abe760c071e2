------------------------ MODULE LightningInvoiceProofs ------------------------
(***************************************************************************)
(* Proofs about LightningInvoice, for all constants: InvoiceInv is an      *)
(* invariant of the handler, and the handler is a client of the store as   *)
(* LightningStoreSpec describes them.                                      *)
(*                                                                         *)
(* InvoiceInv has two halves.  Shape says which request has which token.   *)
(* Facts follows each invoice from LND to a worker, the event log, one row *)
(* and its clients.                                                        *)
(***************************************************************************)
EXTENDS LightningInvoice, LightningStoreProofs

Shape == InvoiceTypeOK /\ OneOwner /\ JobShape /\ TokenIdentifiesJob

Facts ==
    /\ \A w \in Workers : WorkerKnows(w)
    /\ \A k \in Keys : KeyKnown(k)
    /\ Apart /\ ToldKnown

\* The two halves are the whole.
LEMMA Halves == InvoiceInv <=> Shape /\ Facts
BY DEF InvoiceInv, Shape, Facts

\* The first contains the invariant of the store.
LEMMA StoreHalf == Shape => StoreInv
BY DEF Shape, InvoiceTypeOK, StoreInv

\* What a worker that handles a request has at hand.
LEMMA Working ==
    ASSUME Shape, NEW w \in Workers, pc[w] # "idle"
    PROVE  /\ job[w].key \in Keys /\ job[w].request \in Requests
           /\ job[w].token \in held /\ job[w].token \in Tokens /\ job[w].token # None
           /\ pc[w] \in {"save", "fail", "invalid"} => job[w].result \in Replies
<1>1. held \subseteq Tokens
  BY DEF Shape, InvoiceTypeOK, StoreTypeOK
<1>2. /\ job[w].key \in Keys /\ job[w].request \in Requests /\ job[w].token \in held
      /\ pc[w] \in {"save", "fail", "invalid"} => job[w].result \in Invoices \cup {Invalid}
  BY DEF Shape, JobShape
<1> QED
  BY <1>1, <1>2, LightningNoneAssumption, InvoiceAssumption

-----------------------------------------------------------------------------
(* The handler is a client of the store *)

\* A request that ends without writing releases its token.
LEMMA Releases ==
    ASSUME Shape, NEW w \in Workers, pc[w] # "idle", End(w), UNCHANGED idem
    PROVE  StoreNext
<1>1. Release(job[w].token) /\ job[w].token \in held
  BY Working DEF End, Release
<1> QED
  BY <1>1 DEF StoreNext

\* Every step of the system is a step of the store's client, or none of its business.
LEMMA HandlerIsClient == Shape /\ [InvoiceNext]_invoiceVars => [StoreNext]_storeVars
<1> SUFFICES ASSUME Shape, [InvoiceNext]_invoiceVars PROVE StoreNext \/ UNCHANGED storeVars
  OBVIOUS
<1>1. ASSUME NEW w \in Workers, Begin(w) PROVE StoreNext
  BY <1>1 DEF Begin, StoreNext
<1>2. ASSUME NEW w \in Workers, Replay(w) \/ Create(w) \/ Log(w) PROVE UNCHANGED storeVars
  BY <1>2 DEF Replay, Create, Log
<1>3. ASSUME NEW w \in Workers, CreateFails(w) \/ LoseClaim(w) \/ Crash(w) PROVE StoreNext
  <2>1. pc[w] # "idle" /\ End(w) /\ UNCHANGED idem
    BY <1>3 DEF CreateFails, LoseClaim, Crash
  <2> QED
    BY <2>1, Releases
<1>4. ASSUME NEW w \in Workers, CheckOwner(w) PROVE StoreNext \/ UNCHANGED storeVars
  <2>1. pc[w] = "invalid" /\ UNCHANGED idem
    BY <1>4 DEF CheckOwner
  <2> QED
    BY <1>4, <2>1, Releases DEF CheckOwner, storeVars
<1>5. ASSUME NEW w \in Workers, Save(w) \/ Fail(w) PROVE StoreNext
  <2>1. pc[w] \in {"save", "fail"} /\ held' = held \ {job[w].token}
    BY <1>5 DEF Save, Fail, End
  <2>2. \/ SaveIdempotent(job[w].key, job[w].request, job[w].token, job[w].result)
        \/ MarkFailed(job[w].key, job[w].request, job[w].token, job[w].result)
    BY <1>5 DEF Save, Fail
  <2>3. Owned(job[w].key, job[w].request, job[w].token, 0)
    BY <2>1, <2>2, Working DEF Owned
  <2> QED
    BY <2>1, <2>3, Working, LightningTimeAssumption DEF StoreNext, Keeps
<1>6. CASE Second
  BY <1>6 DEF Second, StoreNext
<1>7. CASE UNCHANGED invoiceVars
  BY <1>7 DEF invoiceVars, storeVars
<1> QED
  BY <1>1, <1>2, <1>3, <1>4, <1>5, <1>6, <1>7 DEF InvoiceNext, Handle

\* A step of the handler keeps the store's invariant, and only moves keys forward.
LEMMA ClientStep == Shape /\ [InvoiceNext]_invoiceVars => StoreInv' /\ KeyStep
<1> SUFFICES ASSUME Shape, [InvoiceNext]_invoiceVars PROVE StoreInv' /\ KeyStep
  OBVIOUS
<1>1. StoreInv /\ [StoreNext]_storeVars
  BY StoreHalf, HandlerIsClient
<1>2. CASE StoreNext
  BY <1>1, <1>2, StoreStepInv, KeyStepHolds
<1>3. CASE UNCHANGED storeVars
  <2>1. \A k \in Keys : idem[k].state \in {"ABSENT"} \cup Open \cup Final
    BY <1>1 DEF StoreInv, StoreTypeOK, Row
  <2>2. KeyStep
    BY <1>3, <2>1, MovesStay DEF KeyStep, storeVars
  <2> QED
    BY <1>1, <2>2, StoreStepInv
<1> QED
  BY <1>1, <1>2, <1>3

-----------------------------------------------------------------------------
(* What the store's methods do to the rows *)

RowsKept ==
    \A k \in Keys :
        /\ idem'[k].request = idem[k].request
        /\ idem'[k].state = idem[k].state
        /\ idem'[k].reply = idem[k].reply

\* No row gets an owner.
NobodyNew == \A k \in Keys : idem'[k].token \in {idem[k].token, None}

\* The row of key k is the only one to change.
OnlyRow(k) == \A j \in Keys \ {k} : idem'[j] = idem[j]

\* Unchanged rows.
LEMMA SameRows == ASSUME UNCHANGED idem PROVE RowsKept /\ NobodyNew
BY DEF RowsKept, NobodyNew

\* A second passes.
LEMMA TickRows == ASSUME Shape, Tick PROVE RowsKept /\ NobodyNew
BY StoreHalf, TickFields DEF StoreInv, StoreTypeOK, RowsKept, NobodyNew

\* A claim inserts a row, or takes over an open one, which stays as it is.
LEMMA ClaimRows ==
    ASSUME Shape, NEW k \in Keys, NEW r, NEW tok, NEW h, NEW d, Claim(k, r, tok, h, d)
    PROVE  /\ OnlyRow(k) /\ idem'[k].token = tok
           /\ idem'[k].request = r /\ idem'[k].state # "ABSENT"
           /\ \/ RowsKept
              \/ idem[k].state = "ABSENT" /\ idem'[k].state = "CLAIMED" /\ idem'[k].reply = None
<1>1. idem \in [Keys -> Row]
  BY DEF Shape, InvoiceTypeOK, StoreTypeOK
<1>2. CASE ClaimFresh(k, r, tok, h, d)
  BY <1>1, <1>2 DEF ClaimFresh, OnlyRow
<1>3. CASE ClaimTakeover(k, r, tok, d)
  <2> DEFINE row == [idem[k] EXCEPT !.token = tok, !.lease = Lease - d]
  <2>1. /\ idem' = [idem EXCEPT ![k] = row]
        /\ idem[k].request = r /\ idem[k].state # "ABSENT"
    BY <1>3 DEF ClaimTakeover, CanTakeOver, Open
  <2>2. /\ row.request = idem[k].request /\ row.reply = idem[k].reply
        /\ row.state = idem[k].state /\ row.token = tok
    BY <1>1 DEF Row
  <2> QED
    BY <1>1, <2>1, <2>2 DEF OnlyRow, RowsKept
<1> QED
  BY <1>2, <1>3 DEF Claim

\* A row is settled by its owner.
LEMMA SettleRows ==
    ASSUME Shape, NEW k \in Keys, NEW r, NEW tok, NEW state, NEW reply,
           Owns(k, r, tok, Open), Settle(k, state, reply)
    PROVE  /\ OnlyRow(k) /\ NobodyNew
           /\ idem[k].state \in Open /\ idem'[k].state = state
           /\ idem'[k].request = r /\ idem'[k].reply = reply
<1> DEFINE row == [idem[k] EXCEPT !.state = state, !.reply = reply,
                                  !.token = None, !.lease = Past]
<1>1. idem \in [Keys -> Row] /\ idem' = [idem EXCEPT ![k] = row]
  BY DEF Shape, InvoiceTypeOK, StoreTypeOK, Settle
<1>2. /\ row.request = idem[k].request /\ row.reply = reply
      /\ row.state = state /\ row.token = None
  BY <1>1 DEF Row
<1> QED
  BY <1>1, <1>2 DEF Owns, OnlyRow, NobodyNew

-----------------------------------------------------------------------------
(* Shape is kept *)

\* Every request goes on with its key and token, or ends, ...
JobsKept ==
    /\ pc' \in [Workers -> Labels] /\ job' \in [Workers -> Job] /\ JobShape'
    /\ \A v \in Workers :
        \/ job'[v] = NoJob
        \/ job'[v].key = job[v].key /\ job'[v].token = job[v].token

\* ... and the other variables have their types.
HistoryOK ==
    /\ created \subseteq Invoices /\ events \subseteq Invoices
    /\ told \subseteq [key : Keys, request : Requests, reply : Replies]

\* They have them before.
LEMMA HistoryHalf == Shape => HistoryOK
BY DEF Shape, InvoiceTypeOK, HistoryOK

\* The reason why most steps keep Shape.
LEMMA FrameShape ==
    ASSUME Shape, StoreInv', NobodyNew, JobsKept, HistoryOK'
    PROVE  Shape'
<1>1. InvoiceTypeOK' /\ OneOwner' /\ JobShape'
  BY DEF InvoiceTypeOK, StoreInv, JobsKept, HistoryOK
<1>2. ASSUME NEW v \in Workers, NEW w \in Workers,
             job'[v].token = job'[w].token, job'[v].token # None
      PROVE  v = w
  BY <1>2 DEF Shape, TokenIdentifiesJob, JobsKept, NoJob
<1>3. ASSUME NEW w \in Workers, NEW k \in Keys, idem'[k].token = job'[w].token, idem'[k].token # None
      PROVE  job'[w].key = k
  BY <1>3 DEF Shape, TokenIdentifiesJob, JobsKept, NobodyNew, NoJob
<1> QED
  BY <1>1, <1>2, <1>3 DEF Shape, TokenIdentifiesJob

\* A request that ends, ...
LEMMA EndJobs ==
    ASSUME Shape, NEW w \in Workers, pc[w] # "idle", End(w)
    PROVE  /\ JobsKept /\ pc'[w] = "idle" /\ job'[w] = NoJob
           /\ \A v \in Workers \ {w} : pc'[v] = pc[v] /\ job'[v] = job[v]
<1>1. pc \in [Workers -> Labels] /\ job \in [Workers -> Job] /\ NoJob \in Job /\ "idle" \in Labels
  BY DEF Shape, InvoiceTypeOK, Job, NoJob, Labels
<1>2. /\ pc' = [pc EXCEPT ![w] = "idle"] /\ job' = [job EXCEPT ![w] = NoJob]
      /\ held' = held \ {job[w].token}
  BY DEF End, Goto
<1>3. \A v \in Workers \ {w} : pc[v] # "idle" => job[v].token \in held'
  BY <1>2, Working DEF Shape, JobShape, TokenIdentifiesJob
<1>4. /\ pc'[w] = "idle" /\ job'[w] = NoJob
      /\ \A v \in Workers \ {w} : pc'[v] = pc[v] /\ job'[v] = job[v]
  BY <1>1, <1>2
<1>5. JobShape'
  BY <1>3, <1>4 DEF Shape, JobShape
<1> QED
  BY <1>1, <1>2, <1>4, <1>5 DEF JobsKept

\* ... one that goes on, ...
LEMMA MoveJobs ==
    ASSUME Shape, NEW w \in Workers, UNCHANGED <<job, held>>, NEW to \in Labels, Goto(w, to),
           \/ pc[w] = "log" /\ to = "save"
           \/ pc[w] = "invalid" /\ to = "fail"
    PROVE  /\ JobsKept /\ pc'[w] = to
           /\ \A v \in Workers \ {w} : pc'[v] = pc[v]
<1>1. pc \in [Workers -> Labels] /\ job \in [Workers -> Job]
  BY DEF Shape, InvoiceTypeOK
<1>2. /\ pc' \in [Workers -> Labels] /\ pc'[w] = to
      /\ \A v \in Workers \ {w} : pc'[v] = pc[v]
  BY <1>1 DEF Goto
<1>3. JobShape'
  BY <1>2 DEF Shape, JobShape
<1> QED
  BY <1>1, <1>2, <1>3 DEF JobsKept

\* ... one that has its invoice, ...
LEMMA CreateJobs ==
    ASSUME Shape, NEW w \in Workers, pc[w] = "create", Goto(w, "log"), held' = held,
           NEW i \in Invoices, job' = [job EXCEPT ![w].result = i]
    PROVE  /\ JobsKept /\ pc'[w] = "log" /\ job'[w].result = i
           /\ job'[w].key = job[w].key /\ job'[w].request = job[w].request
           /\ \A v \in Workers \ {w} : pc'[v] = pc[v] /\ job'[v] = job[v]
<1> DEFINE j == [job[w] EXCEPT !.result = i]
<1>1. pc \in [Workers -> Labels] /\ job \in [Workers -> Job] /\ i \in Replies
  BY InvoiceAssumption DEF Shape, InvoiceTypeOK
<1>2. job[w] \in Job /\ job' = [job EXCEPT ![w] = j]
  BY <1>1
<1>3. /\ j \in Job /\ j.key = job[w].key /\ j.request = job[w].request
      /\ j.token = job[w].token /\ j.result = i
  BY <1>1, <1>2 DEF Job
<1> HIDE DEF j
<1>4. /\ pc' \in [Workers -> Labels] /\ job' \in [Workers -> Job]
      /\ pc'[w] = "log" /\ job'[w] = j
      /\ \A v \in Workers \ {w} : pc'[v] = pc[v] /\ job'[v] = job[v]
  BY <1>1, <1>2, <1>3 DEF Goto, Labels
<1>5. JobShape'
  BY <1>3, <1>4 DEF Shape, JobShape
<1> QED
  BY <1>3, <1>4, <1>5 DEF JobsKept

\* ... and requests that do nothing.
LEMMA RestJobs == ASSUME Shape, UNCHANGED <<pc, job, held>> PROVE JobsKept
BY DEF Shape, InvoiceTypeOK, JobsKept, JobShape

\* Telling a client its answer.
LEMMA TellOK ==
    ASSUME Shape, NEW w \in Workers, pc[w] \in {"save", "fail", "invalid"}, Tell(w)
    PROVE  told' \subseteq [key : Keys, request : Requests, reply : Replies]
BY Working, HistoryHalf DEF Tell, Answer, HistoryOK

\* A settled row has an answer for its client.
LEMMA RowReply ==
    ASSUME Shape, Facts, NEW k \in Keys, idem[k].state \in Final
    PROVE  idem[k].reply \in Replies
<1>1. KeyKnown(k) /\ created \subseteq Invoices
  BY HistoryHalf DEF Facts, HistoryOK
<1> QED
  BY <1>1, InvoiceAssumption DEF KeyKnown, Final

\* A claim, with the token it is made with.
Starts(w, k, r, tok) ==
    /\ pc[w] = "idle" /\ tok # None /\ tok \notin held /\ \A j \in Keys : idem[j].token # tok
    /\ \E d \in 0..Lag : Claim(k, r, tok, None, d)
    /\ held' = held \cup {tok} /\ UNCHANGED <<created, events, told>>
    /\ pc'[w] = IF r \in ValidRequests THEN "create" ELSE "invalid"
    /\ job'[w] = [key |-> k, request |-> r, token |-> tok,
                  result |-> IF r \in ValidRequests THEN None ELSE Invalid]
    /\ \A v \in Workers \ {w} : pc'[v] = pc[v] /\ job'[v] = job[v]
    /\ pc' \in [Workers -> Labels] /\ job' \in [Workers -> Job]

\* What a request starts with.
LEMMA Beginning ==
    ASSUME Shape, NEW w \in Workers, Begin(w)
    PROVE  \E k \in Keys, r \in Requests, tok \in Tokens : Starts(w, k, r, tok)
<1>1. PICK k \in Keys, r \in Requests, tok \in Tokens, d \in 0..Lag :
          /\ Claim(k, r, tok, None, d)
          /\ held' = held \cup {tok}
          /\ job' = [job EXCEPT ![w] =
                       [key |-> k, request |-> r, token |-> tok,
                        result |-> IF r \in ValidRequests THEN None ELSE Invalid]]
          /\ Goto(w, IF r \in ValidRequests THEN "create" ELSE "invalid")
  BY DEF Begin
<1>2. pc[w] = "idle" /\ UNCHANGED <<created, events, told>>
  BY DEF Begin
<1>3. tok # None /\ tok \notin held /\ \A j \in Keys : idem[j].token # tok
  BY <1>1, LightningNoneAssumption DEF Claim, Unissued
<1>4. PICK result, to : /\ result = IF r \in ValidRequests THEN None ELSE Invalid
                        /\ to = IF r \in ValidRequests THEN "create" ELSE "invalid"
  OBVIOUS
<1>5. /\ pc \in [Workers -> Labels] /\ job \in [Workers -> Job]
      /\ to \in Labels /\ result \in Replies \cup {None}
  BY <1>4, InvoiceAssumption DEF Shape, InvoiceTypeOK, Labels
<1>6. [key |-> k, request |-> r, token |-> tok, result |-> result] \in Job
  BY <1>5 DEF Job
<1>7. /\ pc'[w] = to /\ job'[w] = [key |-> k, request |-> r, token |-> tok, result |-> result]
      /\ \A v \in Workers \ {w} : pc'[v] = pc[v] /\ job'[v] = job[v]
      /\ pc' \in [Workers -> Labels] /\ job' \in [Workers -> Job]
  BY <1>1, <1>4, <1>5, <1>6 DEF Goto
<1>8. Starts(w, k, r, tok)
  BY <1>1, <1>2, <1>3, <1>4, <1>7 DEF Starts
<1> QED
  BY <1>8

\* A claim gives a request a token that nobody has.
LEMMA BeginShape ==
    ASSUME Shape, StoreInv', NEW w \in Workers, Begin(w)
    PROVE  Shape'
<1>1. PICK k \in Keys, r \in Requests, tok \in Tokens : Starts(w, k, r, tok)
  BY Beginning
<1>2. /\ pc[w] = "idle" /\ tok # None /\ tok \notin held /\ \A j \in Keys : idem[j].token # tok
      /\ held' = held \cup {tok}
      /\ pc'[w] = IF r \in ValidRequests THEN "create" ELSE "invalid"
      /\ job'[w].key = k /\ job'[w].request = r /\ job'[w].token = tok
      /\ r \notin ValidRequests => job'[w].result = Invalid
      /\ \A v \in Workers \ {w} : pc'[v] = pc[v] /\ job'[v] = job[v]
  BY <1>1 DEF Starts
<1>3. OnlyRow(k) /\ idem'[k].token = tok
  <2>1. PICK d \in 0..Lag : Claim(k, r, tok, None, d)
    BY <1>1 DEF Starts
  <2> QED
    BY <2>1, ClaimRows
<1>4. InvoiceTypeOK' /\ OneOwner'
  BY <1>1 DEF Starts, Shape, InvoiceTypeOK, StoreInv
<1>5. JobShape'
  BY <1>2 DEF Shape, JobShape
<1>6. \A v \in Workers : job[v].token # tok
  BY <1>2 DEF Shape, JobShape, NoJob
<1>7. ASSUME NEW u \in Workers, NEW v \in Workers, job'[u].token = job'[v].token, job'[u].token # None
      PROVE  u = v
  BY <1>2, <1>6, <1>7 DEF Shape, TokenIdentifiesJob
<1>8. ASSUME NEW v \in Workers, NEW j \in Keys, idem'[j].token = job'[v].token, idem'[j].token # None
      PROVE  job'[v].key = j
  BY <1>2, <1>3, <1>6, <1>8 DEF Shape, TokenIdentifiesJob, OnlyRow
<1> QED
  BY <1>4, <1>5, <1>7, <1>8 DEF Shape, TokenIdentifiesJob

\* A request that ends, whatever it stored.
LEMMA EndShape ==
    ASSUME Shape, StoreInv', NobodyNew, NEW w \in Workers, pc[w] # "idle", End(w),
           created' \subseteq Invoices, events' = events,
           told' \subseteq [key : Keys, request : Requests, reply : Replies]
    PROVE  Shape'
BY EndJobs, FrameShape, HistoryHalf DEF HistoryOK

\* Every step keeps Shape.
LEMMA ShapeStep == Shape /\ Facts /\ [InvoiceNext]_invoiceVars => Shape'
<1> SUFFICES ASSUME Shape, Facts, [InvoiceNext]_invoiceVars PROVE Shape'
  OBVIOUS
<1>0. StoreInv' /\ HistoryOK
  BY ClientStep, HistoryHalf
<1>1. ASSUME NEW w \in Workers, Replay(w) PROVE Shape'
  <2>1. PICK k \in Keys, r \in Requests :
            CanReplay(k, r) /\ told' = told \cup {Answer(k, r, idem[k].reply)}
    BY <1>1 DEF Replay
  <2>2. Answer(k, r, idem[k].reply) \in [key : Keys, request : Requests, reply : Replies]
    BY <2>1, RowReply DEF CanReplay, Answer
  <2>3. UNCHANGED <<idem, held, pc, job, created, events>>
    BY <1>1 DEF Replay, storeVars
  <2>4. HistoryOK'
    BY <1>0, <2>1, <2>2, <2>3 DEF HistoryOK
  <2> QED
    BY <1>0, <2>3, <2>4, SameRows, RestJobs, FrameShape
<1>2. ASSUME NEW w \in Workers, Create(w) PROVE Shape'
  <2>1. PICK i \in Invoices \ created :
            created' = created \cup {i} /\ job' = [job EXCEPT ![w].result = i]
    BY <1>2 DEF Create
  <2>2. pc[w] = "create" /\ Goto(w, "log") /\ UNCHANGED <<idem, held, events, told>>
    BY <1>2 DEF Create, storeVars
  <2>3. HistoryOK'
    BY <1>0, <2>1, <2>2 DEF HistoryOK
  <2> QED
    BY <1>0, <2>1, <2>2, <2>3, SameRows, CreateJobs, FrameShape
<1>3. ASSUME NEW w \in Workers, CreateFails(w) \/ LoseClaim(w) \/ Crash(w) PROVE Shape'
  <2>1. /\ pc[w] # "idle" /\ End(w) /\ UNCHANGED <<idem, events, told>>
        /\ created' = created \/ \E lost \in SUBSET (Invoices \ created) : created' = created \cup lost
    BY <1>3 DEF CreateFails, LoseClaim, Crash
  <2>2. created' \subseteq Invoices /\ told' \subseteq [key : Keys, request : Requests, reply : Replies]
    BY <1>0, <2>1 DEF HistoryOK
  <2> QED
    BY <1>0, <2>1, <2>2, SameRows, EndShape
<1>4. ASSUME NEW w \in Workers, Log(w) PROVE Shape'
  <2>1. /\ pc[w] = "log" /\ Goto(w, "save") /\ events' = events \cup {job[w].result}
        /\ UNCHANGED <<idem, held, job, created, told>>
    BY <1>4 DEF Log, storeVars
  <2>2. job[w].result \in Invoices /\ "save" \in Labels
    BY <2>1 DEF Shape, JobShape, Labels
  <2>3. HistoryOK'
    BY <1>0, <2>1, <2>2 DEF HistoryOK
  <2> QED
    BY <1>0, <2>1, <2>2, <2>3, SameRows, MoveJobs, FrameShape
<1>5. ASSUME NEW w \in Workers, Save(w) \/ Fail(w) PROVE Shape'
  <2>1. /\ pc[w] \in {"save", "fail"} /\ Tell(w) /\ End(w) /\ UNCHANGED <<created, events>>
    BY <1>5 DEF Save, Fail
  <2>2. NobodyNew
    BY <1>5, <2>1, Working, SettleRows DEF Save, Fail, SaveIdempotent, MarkFailed
  <2> QED
    BY <1>0, <2>1, <2>2, TellOK, EndShape DEF HistoryOK
<1>6. ASSUME NEW w \in Workers, CheckOwner(w) PROVE Shape'
  <2>1. pc[w] = "invalid" /\ UNCHANGED <<idem, created, events>>
    BY <1>6 DEF CheckOwner
  <2>2. CASE Goto(w, "fail") /\ UNCHANGED <<job, held, told>>
    <3>1. HistoryOK' /\ "fail" \in Labels
      BY <1>0, <2>1, <2>2 DEF HistoryOK, Labels
    <3> QED
      BY <1>0, <2>1, <2>2, <3>1, SameRows, MoveJobs, FrameShape
  <2>3. CASE Tell(w) /\ End(w)
    BY <1>0, <2>1, <2>3, SameRows, TellOK, EndShape DEF HistoryOK
  <2> QED
    BY <1>6, <2>2, <2>3 DEF CheckOwner
<1>7. CASE Second
  <2>1. Tick /\ UNCHANGED <<held, pc, job, created, events, told>>
    BY <1>7 DEF Second, Tick
  <2>2. HistoryOK'
    BY <1>0, <2>1 DEF HistoryOK
  <2> QED
    BY <1>0, <2>1, <2>2, TickRows, RestJobs, FrameShape
<1>8. CASE UNCHANGED invoiceVars
  BY <1>0, <1>8, SameRows, RestJobs, FrameShape DEF invoiceVars, storeVars, HistoryOK
<1> QED
  BY <1>0, <1>1, <1>2, <1>3, <1>4, <1>5, <1>6, <1>7, <1>8, BeginShape DEF InvoiceNext, Handle

-----------------------------------------------------------------------------
(* Facts are kept *)

\* A key keeps its request, and a settled one its answer too.
LEMMA Forward ==
    ASSUME Shape, KeyStep, NEW k \in Keys
    PROVE  /\ idem[k].state # "ABSENT" =>
                idem'[k].state # "ABSENT" /\ idem'[k].request = idem[k].request
           /\ idem[k].state \in Final =>
                idem'[k].state = idem[k].state /\ idem'[k].reply = idem[k].reply
<1>1. idem[k].state \in {"ABSENT"} \cup Open \cup Final
  BY DEF Shape, InvoiceTypeOK, StoreTypeOK, Row
<1>2. /\ idem'[k].state \in Moves(idem[k].state)
      /\ idem[k].state # "ABSENT" => idem'[k].request = idem[k].request
      /\ idem[k].state \in Final => idem'[k].reply = idem[k].reply
  BY DEF KeyStep
<1>3. /\ Moves("CLAIMED") = {"CLAIMED", "SUBMITTED"} \cup Final
      /\ Moves("SUBMITTED") = {"SUBMITTED", "UNKNOWN"} \cup Final
      /\ Moves("UNKNOWN") = {"UNKNOWN"} \cup Final
      /\ Moves("SUCCEEDED") = {"SUCCEEDED"} /\ Moves("FAILED_FINAL") = {"FAILED_FINAL"}
  BY DEF Moves
<1> QED
  BY <1>1, <1>2, <1>3 DEF Open, Final

\* What the conjuncts of ToldKnown say of an answer.
ToldOf(a) ==
    /\ StandsFor(a.key, a.request)
    /\ a.reply = Invalid <=> a.request \notin ValidRequests
    /\ a.reply # Invalid => idem[a.key].state = "SUCCEEDED" /\ idem[a.key].reply = a.reply

\* It stays true, hence only new answers are of interest.
LEMMA ToldStays ==
    ASSUME Shape, Facts, KeyStep, \A a \in told' : a \in told \/ ToldOf(a)'
    PROVE  ToldKnown'
<1>1. \A a \in told : a.key \in Keys /\ ToldOf(a)
  BY HistoryHalf DEF Facts, ToldKnown, ToldOf, HistoryOK
<1>2. \A a \in told : ToldOf(a)'
  BY <1>1, Forward DEF ToldOf, StandsFor, Final
<1> QED
  BY <1>2 DEF ToldKnown, ToldOf

\* The invoices in rows were created by LND.
LEMMA InRow ==
    ASSUME Facts, NEW k \in Keys
    PROVE  idem[k].reply \in created \cup {None, Invalid}
<1>1. KeyKnown(k)
  BY DEF Facts
<1> QED
  BY <1>1 DEF KeyKnown, Final

\* Only rows that are open, and stay so, change, and none gets an answer.
AnswersKept ==
    \A k \in Keys :
        /\ idem'[k].reply = idem[k].reply
        /\ \/ idem'[k].state = idem[k].state /\ idem'[k].request = idem[k].request
           \/ idem[k].state \notin Final /\ idem'[k].state \notin Final

\* A worker is done, starts on a row of its request, or goes on with what it has.
GoesOn(v) ==
    \/ pc'[v] = "idle"
    \/ /\ pc'[v] \in {"create", "invalid"}
       /\ idem'[job'[v].key].state # "ABSENT" /\ idem'[job'[v].key].request = job'[v].request
    \/ /\ pc[v] # "idle" /\ job'[v] = job[v]
       /\ pc'[v] \in {"log", "save"} => pc[v] \in {"log", "save"}
       /\ pc'[v] = "save" => pc[v] = "save" \/ job[v].result \in events'

\* The reason why most steps keep Facts.
LEMMA FrameFacts ==
    ASSUME Shape, Facts, KeyStep, AnswersKept, created \subseteq created', events \subseteq events',
           \A v \in Workers : GoesOn(v), \A a \in told' : a \in told \/ ToldOf(a)'
    PROVE  Facts'
<1>1. ASSUME NEW v \in Workers PROVE WorkerKnows(v)'
  <2>1. GoesOn(v) /\ WorkerKnows(v)
    BY DEF Facts
  <2>2. CASE pc[v] # "idle" /\ job'[v] = job[v]
             /\ (pc'[v] \in {"log", "save"} => pc[v] \in {"log", "save"})
             /\ (pc'[v] = "save" => pc[v] = "save" \/ job[v].result \in events')
    <3>1. StandsFor(job[v].key, job[v].request) /\ job[v].key \in Keys
      BY <2>1, <2>2, Working DEF WorkerKnows
    <3>2. idem'[job[v].key].state # "ABSENT" /\ idem'[job[v].key].request = job[v].request
      BY <3>1, Forward DEF StandsFor
    <3> QED
      BY <2>1, <2>2, <3>2 DEF WorkerKnows, StandsFor
  <2> QED
    BY <2>1, <2>2 DEF GoesOn, WorkerKnows, StandsFor
<1>2. ASSUME NEW k \in Keys PROVE KeyKnown(k)'
  <2>1. KeyKnown(k)
    BY DEF Facts
  <2>2. /\ idem'[k].reply = idem[k].reply
        /\ \/ idem'[k].state = idem[k].state /\ idem'[k].request = idem[k].request
           \/ idem[k].state \notin Final /\ idem'[k].state \notin Final
    BY DEF AnswersKept
  <2> QED
    BY <2>1, <2>2 DEF KeyKnown, Final
<1>3. Apart'
  <2>1. \A v \in Workers : pc'[v] \in {"log", "save"} =>
            pc[v] \in {"log", "save"} /\ job'[v] = job[v]
    BY DEF GoesOn
  <2>2. \A k \in Keys : idem'[k].reply = idem[k].reply
    BY DEF AnswersKept
  <2> QED
    BY <2>1, <2>2 DEF Facts, Apart
<1> QED
  BY <1>1, <1>2, <1>3, ToldStays DEF Facts

\* Rows that are as they were.
LEMMA AnswersSame == ASSUME RowsKept PROVE AnswersKept
BY DEF RowsKept, AnswersKept

\* A request that ends, or one that has what it needs, while the others wait.
LEMMA OneMoves ==
    ASSUME Shape, NEW w \in Workers, GoesOn(w),
           \A v \in Workers \ {w} : pc'[v] = pc[v] /\ job'[v] = job[v]
    PROVE  \A v \in Workers : GoesOn(v)
BY DEF GoesOn

\* A claim inserts a row for the request, or finds one.
LEMMA BeginFacts ==
    ASSUME Shape, Facts, KeyStep, NEW w \in Workers, Begin(w)
    PROVE  Facts'
<1>1. PICK k \in Keys, r \in Requests, tok \in Tokens : Starts(w, k, r, tok)
  BY Beginning
<1>2. /\ pc'[w] \in {"create", "invalid"} /\ job'[w].key = k /\ job'[w].request = r
      /\ \A v \in Workers \ {w} : pc'[v] = pc[v] /\ job'[v] = job[v]
      /\ UNCHANGED <<created, events, told>>
  BY <1>1 DEF Starts
<1>3. PICK d \in 0..Lag : Claim(k, r, tok, None, d)
  BY <1>1 DEF Starts
<1>4. /\ OnlyRow(k) /\ idem'[k].request = r /\ idem'[k].state # "ABSENT"
      /\ \/ RowsKept
         \/ idem[k].state = "ABSENT" /\ idem'[k].state = "CLAIMED" /\ idem'[k].reply = None
  BY <1>3, ClaimRows
<1>5. AnswersKept
  <2>1. CASE idem[k].state = "ABSENT" /\ idem'[k].state = "CLAIMED" /\ idem'[k].reply = None
    <3>1. KeyKnown(k)
      BY DEF Facts
    <3>2. idem[k].reply = None
      BY <2>1, <3>1 DEF KeyKnown, Final
    <3> QED
      BY <1>4, <2>1, <3>2 DEF AnswersKept, OnlyRow, Final
  <2> QED
    BY <1>4, <2>1, AnswersSame
<1>6. GoesOn(w)
  BY <1>2, <1>4 DEF GoesOn
<1> QED
  BY <1>2, <1>5, <1>6, OneMoves, FrameFacts

\* A new invoice is nobody else's.
LEMMA CreateFacts ==
    ASSUME Shape, Facts, KeyStep, NEW w \in Workers, Create(w)
    PROVE  Facts'
<1>1. PICK i \in Invoices \ created :
          created' = created \cup {i} /\ job' = [job EXCEPT ![w].result = i]
  BY DEF Create
<1>2. pc[w] = "create" /\ Goto(w, "log") /\ UNCHANGED <<idem, held, events, told>>
  BY DEF Create, storeVars
<1>3. /\ pc'[w] = "log" /\ job'[w].result = i
      /\ job'[w].key = job[w].key /\ job'[w].request = job[w].request
      /\ \A v \in Workers \ {w} : pc'[v] = pc[v] /\ job'[v] = job[v]
  BY <1>1, <1>2, CreateJobs
<1>4. \A v \in Workers : WorkerKnows(v)'
  BY <1>1, <1>2, <1>3 DEF Facts, WorkerKnows, StandsFor
<1>5. \A k \in Keys : KeyKnown(k)'
  BY <1>1, <1>2 DEF Facts, KeyKnown
<1>6. Apart'
  <2>1. i \notin {None, Invalid} /\ \A k \in Keys : idem[k].reply # i
    BY InRow, LightningNoneAssumption, InvoiceAssumption
  <2>2. \A v \in Workers : pc[v] \in {"log", "save"} => job[v].result # i
    BY DEF Facts, WorkerKnows
  <2> QED
    BY <1>2, <1>3, <2>1, <2>2 DEF Facts, Apart
<1>7. ToldKnown'
  BY <1>2, ToldStays
<1> QED
  BY <1>4, <1>5, <1>6, <1>7 DEF Facts

\* An answer that is stored is what the worker had in its hands.
LEMMA SettleFacts ==
    ASSUME Shape, Facts, KeyStep, NEW w \in Workers, Save(w) \/ Fail(w)
    PROVE  Facts'
<1>0. PICK k, r, reply : k = job[w].key /\ r = job[w].request /\ reply = job[w].result
  OBVIOUS
<1>1. /\ pc[w] \in {"save", "fail"} /\ End(w) /\ UNCHANGED <<created, events>>
      /\ told' = told \cup {Answer(k, r, reply)}
  BY <1>0 DEF Save, Fail, Tell
<1>2. k \in Keys /\ r \in Requests
  BY <1>0, <1>1, Working
<1>3. /\ pc'[w] = "idle"
      /\ \A v \in Workers \ {w} : pc'[v] = pc[v] /\ job'[v] = job[v]
  BY <1>1, EndJobs
<1>4. PICK state : /\ Owns(k, r, job[w].token, Open) /\ Settle(k, state, reply)
                   /\ pc[w] = "save" => state = "SUCCEEDED"
                   /\ pc[w] = "fail" => state = "FAILED_FINAL"
  BY <1>0, <1>1 DEF Save, Fail, SaveIdempotent, MarkFailed
<1>5. /\ OnlyRow(k) /\ idem'[k].state = state
      /\ idem'[k].request = r /\ idem'[k].reply = reply
  BY <1>2, <1>4, SettleRows
<1>6. /\ pc[w] = "save" => r \in ValidRequests /\ reply \in created \cap events /\ reply \in Invoices
      /\ pc[w] = "fail" => r \notin ValidRequests /\ reply = Invalid
  BY <1>0 DEF Shape, JobShape, Facts, WorkerKnows
<1>7. KeyKnown(k)'
  BY <1>1, <1>4, <1>5, <1>6 DEF KeyKnown, Final
<1>8. \A j \in Keys : KeyKnown(j)'
  BY <1>1, <1>5, <1>7 DEF Facts, KeyKnown, OnlyRow
<1>9. ASSUME NEW v \in Workers PROVE WorkerKnows(v)'
  <2>1. CASE v = w
    BY <1>3, <2>1 DEF WorkerKnows
  <2>2. CASE v # w /\ pc[v] # "idle"
    <3>1. StandsFor(job[v].key, job[v].request) /\ job[v].key \in Keys
      BY <2>2, Working DEF Facts, WorkerKnows
    <3>2. idem'[job[v].key].state # "ABSENT" /\ idem'[job[v].key].request = job[v].request
      BY <3>1, Forward DEF StandsFor
    <3> QED
      BY <1>1, <1>3, <2>2, <3>2 DEF Facts, WorkerKnows, StandsFor
  <2>3. CASE v # w /\ pc[v] = "idle"
    BY <1>3, <2>3 DEF WorkerKnows
  <2> QED
    BY <2>1, <2>2, <2>3
<1>10. Apart'
  <2>1. \A v \in Workers \ {w} : pc[v] \in {"log", "save"} => job[v].result # reply
    BY <1>0, <1>1, <1>6, InvoiceAssumption DEF Facts, Apart, Shape, JobShape
  <2>2. \A j \in Keys : reply \in Invoices => idem[j].reply # reply
    BY <1>0, <1>1, <1>6, InvoiceAssumption DEF Facts, Apart
  <2>3. /\ \A u, v \in Workers :
               /\ pc'[u] \in {"log", "save"} /\ pc'[v] \in {"log", "save"}
               /\ job'[u].result = job'[v].result
               => u = v
        /\ \A v \in Workers, j \in Keys :
               pc'[v] \in {"log", "save"} => idem'[j].reply # job'[v].result
        /\ \A i, j \in Keys : idem'[i].reply = idem'[j].reply /\ idem'[i].reply \in Invoices => i = j
    BY <1>3, <1>5, <2>1, <2>2 DEF Facts, Apart, OnlyRow
  <2> QED
    BY <2>3 DEF Apart
<1>11. ToldKnown'
  <2>1. ToldOf(Answer(k, r, reply))'
    BY <1>1, <1>4, <1>5, <1>6, InvoiceAssumption DEF ToldOf, Answer, StandsFor
  <2> QED
    BY <1>1, <2>1, ToldStays
<1> QED
  BY <1>8, <1>9, <1>10, <1>11 DEF Facts

\* Every step keeps Facts.
LEMMA FactsStep == Shape /\ Facts /\ [InvoiceNext]_invoiceVars => Facts'
<1> SUFFICES ASSUME Shape, Facts, [InvoiceNext]_invoiceVars PROVE Facts'
  OBVIOUS
<1>0. KeyStep
  BY ClientStep
<1>1. ASSUME NEW w \in Workers, Replay(w) PROVE Facts'
  <2>1. PICK k \in Keys, r \in Requests :
            CanReplay(k, r) /\ told' = told \cup {Answer(k, r, idem[k].reply)}
    BY <1>1 DEF Replay
  <2>2. UNCHANGED <<idem, pc, job, created, events>>
    BY <1>1 DEF Replay, storeVars
  <2>3. ToldOf(Answer(k, r, idem[k].reply))
    <3>1. KeyKnown(k) /\ idem[k].state \in Final /\ idem[k].request = r
      BY <2>1 DEF Facts, CanReplay
    <3>2. Invalid \notin created
      BY HistoryHalf, InvoiceAssumption DEF HistoryOK
    <3> QED
      BY <3>1, <3>2 DEF ToldOf, Answer, StandsFor, KeyKnown, Final
  <2>4. \A a \in told' : a \in told \/ ToldOf(a)'
    <3>1. ASSUME NEW a \in told' PROVE a \in told \/ ToldOf(a)'
      BY <2>1, <2>2, <2>3 DEF ToldOf, StandsFor, Answer
    <3> QED
      BY <3>1
  <2>5. \A v \in Workers : GoesOn(v)
    BY <2>2 DEF GoesOn
  <2> QED
    BY <1>0, <2>2, <2>4, <2>5, SameRows, AnswersSame, FrameFacts
<1>2. ASSUME NEW w \in Workers, CreateFails(w) \/ LoseClaim(w) \/ Crash(w) PROVE Facts'
  <2>1. pc[w] # "idle" /\ End(w) /\ UNCHANGED <<idem, events, told>> /\ created \subseteq created'
    BY <1>2 DEF CreateFails, LoseClaim, Crash
  <2>2. \A v \in Workers : GoesOn(v)
    BY <2>1, EndJobs, OneMoves DEF GoesOn
  <2> QED
    BY <1>0, <2>1, <2>2, SameRows, AnswersSame, FrameFacts
<1>3. ASSUME NEW w \in Workers, Log(w) PROVE Facts'
  <2>1. /\ pc[w] = "log" /\ Goto(w, "save") /\ events' = events \cup {job[w].result}
        /\ UNCHANGED <<idem, held, job, created, told>>
    BY <1>3 DEF Log, storeVars
  <2>2. pc'[w] = "save" /\ \A v \in Workers \ {w} : pc'[v] = pc[v]
    BY <2>1, MoveJobs DEF Labels
  <2>3. \A v \in Workers : GoesOn(v)
    BY <2>1, <2>2, OneMoves DEF GoesOn
  <2> QED
    BY <1>0, <2>1, <2>3, SameRows, AnswersSame, FrameFacts
<1>4. ASSUME NEW w \in Workers, CheckOwner(w) PROVE Facts'
  <2>1. pc[w] = "invalid" /\ UNCHANGED <<idem, created, events>>
    BY <1>4 DEF CheckOwner
  <2>2. CASE Goto(w, "fail") /\ UNCHANGED <<job, held, told>>
    <3>1. pc'[w] = "fail" /\ \A v \in Workers \ {w} : pc'[v] = pc[v]
      BY <2>1, <2>2, MoveJobs DEF Labels
    <3>2. \A v \in Workers : GoesOn(v)
      BY <2>1, <2>2, <3>1, OneMoves DEF GoesOn
    <3> QED
      BY <1>0, <2>1, <2>2, <3>2, SameRows, AnswersSame, FrameFacts
  <2>3. CASE Tell(w) /\ End(w)
    <3>1. PICK a : a = Answer(job[w].key, job[w].request, job[w].result)
      OBVIOUS
    <3>2. told' = told \cup {a}
      BY <2>3, <3>1 DEF Tell
    <3>3. ToldOf(a)'
      BY <2>1, <3>1 DEF Facts, WorkerKnows, Shape, JobShape, ToldOf, StandsFor, Answer
    <3>4. \A v \in Workers : GoesOn(v)
      BY <2>1, <2>3, EndJobs, OneMoves DEF GoesOn
    <3> QED
      BY <1>0, <2>1, <3>2, <3>3, <3>4, SameRows, AnswersSame, FrameFacts
  <2> QED
    BY <1>4, <2>2, <2>3 DEF CheckOwner
<1>5. CASE Second \/ UNCHANGED invoiceVars
  <2>1. RowsKept /\ UNCHANGED <<pc, job, created, events, told>>
    BY <1>5, TickRows, SameRows DEF Second, invoiceVars, storeVars
  <2>2. \A v \in Workers : GoesOn(v)
    BY <2>1 DEF GoesOn
  <2> QED
    BY <1>0, <2>1, <2>2, AnswersSame, FrameFacts
<1> QED
  BY <1>0, <1>1, <1>2, <1>3, <1>4, <1>5, BeginFacts, CreateFacts, SettleFacts
     DEF InvoiceNext, Handle

-----------------------------------------------------------------------------
(* The theorems *)

\* Initially no request runs and nothing is stored.
LEMMA InvoiceStarts == InvoiceInit => InvoiceInv
<1> SUFFICES ASSUME InvoiceInit PROVE InvoiceInv
  OBVIOUS
<1>1. StoreInv
  BY StoreInitInv DEF InvoiceInit
<1>2. /\ \A k \in Keys : idem[k].state = "ABSENT" /\ idem[k].reply = None /\ idem[k].token = None
      /\ \A w \in Workers : pc[w] = "idle" /\ job[w] = NoJob
      /\ NoJob \in Job /\ NoJob.token = None
  BY DEF InvoiceInit, StoreInit, NoRow, NoJob, Job
<1>3. InvoiceTypeOK
  BY <1>1, <1>2 DEF InvoiceInit, InvoiceTypeOK, StoreInv, Labels
<1>4. Shape
  BY <1>1, <1>2, <1>3 DEF Shape, StoreInv, JobShape, TokenIdentifiesJob
<1>5. Facts
  <2>1. None \notin Invoices
    BY LightningNoneAssumption, InvoiceAssumption
  <2> QED
    BY <1>2, <2>1 DEF InvoiceInit, Facts, WorkerKnows, KeyKnown, Apart, ToldKnown, Final
<1> QED
  BY <1>4, <1>5, Halves

\* InvoiceInv is inductive.
LEMMA InvoiceInvStep == InvoiceInv /\ [InvoiceNext]_invoiceVars => InvoiceInv'
<1> SUFFICES ASSUME InvoiceInv, [InvoiceNext]_invoiceVars PROVE InvoiceInv'
  OBVIOUS
<1>1. Shape' /\ Facts'
  BY Halves, ShapeStep, FactsStep
<1> QED
  BY <1>1 DEF InvoiceInv, Shape, Facts

\* For any number of workers, keys, requests and invoices, however claims lapse
\* and whatever is lost: the invariant of create_invoice.
THEOREM InvoiceInvariant == InvoiceSpec => []InvoiceInv
BY InvoiceStarts, InvoiceInvStep, PTL DEF InvoiceSpec

\* All variables keep their types.
THEOREM InvoiceTypeCorrect == InvoiceSpec => []InvoiceTypeOK
<1>1. InvoiceInv => InvoiceTypeOK
  BY DEF InvoiceInv
<1> QED
  BY <1>1, InvoiceInvariant, PTL

\* All clients of a key are told the same, and an invoice is told under one key.
THEOREM InvoiceAnswersOnce == InvoiceSpec => []OneAnswer
<1>1. InvoiceInv => OneAnswer
  <2> SUFFICES ASSUME InvoiceInv, NEW a \in told, NEW b \in told,
                      a.key = b.key \/ (a.reply = b.reply /\ a.reply # Invalid)
               PROVE  a = b
    BY DEF OneAnswer
  <2>1. /\ a \in [key : Keys, request : Requests, reply : Replies]
        /\ b \in [key : Keys, request : Requests, reply : Replies]
    BY DEF InvoiceInv, InvoiceTypeOK
  <2>2. a.key = b.key
    <3>1. CASE a.reply = b.reply /\ a.reply # Invalid
      <4>1. idem[a.key].reply = a.reply /\ idem[b.key].reply = a.reply
        BY <3>1 DEF InvoiceInv, ToldKnown
      <4>2. a.reply \in Invoices
        BY <2>1, <3>1, InvoiceAssumption
      <4> QED
        BY <2>1, <4>1, <4>2 DEF InvoiceInv, Apart
    <3> QED
      BY <3>1
  <2>3. a.request = b.request /\ a.reply = b.reply
    BY <2>2 DEF InvoiceInv, ToldKnown, StandsFor
  <2> QED
    BY <2>1, <2>2, <2>3
<1> QED
  BY <1>1, InvoiceInvariant, PTL

\* An invoice that was told or stored is logged, and LND knows it.
THEOREM InvoiceAnswersAreLogged == InvoiceSpec => []AnswersLogged
<1>1. InvoiceInv => AnswersLogged
  <2> SUFFICES ASSUME InvoiceInv PROVE AnswersLogged
    OBVIOUS
  <2>1. \A k \in Keys : idem[k].state = "SUCCEEDED" => idem[k].reply \in created \cap events
    BY DEF InvoiceInv, KeyKnown
  <2>2. \A a \in told : a.reply # Invalid => a.reply \in created \cap events
    BY <2>1 DEF InvoiceInv, ToldKnown, InvoiceTypeOK
  <2> QED
    BY <2>1, <2>2 DEF AnswersLogged
<1> QED
  BY <1>1, InvoiceInvariant, PTL

\* create_invoice uses the store as its most general client may.
THEOREM InvoiceIsClient == InvoiceSpec => LightningStoreSpec
<1>1. InvoiceInit => StoreInit
  BY DEF InvoiceInit
<1>2. InvoiceInv /\ [InvoiceNext]_invoiceVars => [StoreNext]_storeVars
  BY Halves, HandlerIsClient
<1> QED
  BY <1>1, <1>2, InvoiceInvariant, PTL DEF InvoiceSpec, LightningStoreSpec

=============================================================================
