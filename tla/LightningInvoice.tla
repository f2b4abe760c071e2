--------------------------- MODULE LightningInvoice ---------------------------
(***************************************************************************)
(* POST /v1/invoices of the Lightning adapter: workers that run            *)
(* create_invoice (lightning_flask/src/api/app.py) over LightningStore and *)
(* a Lightning node.  Unlike a payment, an invoice is claimed before its   *)
(* request is validated, nothing is stored before LND is called, and a row *)
(* goes from CLAIMED to its answer.                                        *)
(*                                                                         *)
(*   pc, job   as in LightningPay; job[w].result is the invoice in hand,   *)
(*             or Invalid when the request is being refused                *)
(*   created   external: the invoices that LND created; one per call, and  *)
(*             a retry after a lost answer makes another                   *)
(*   events    lightning_events: the invoices logged as created            *)
(*   told      history: the definite answers that clients were given       *)
(***************************************************************************)
EXTENDS LightningStore

CONSTANTS
    Workers,        \* worker threads, over all processes
    Invoices,       \* the invoices that LND may create, each by its hash
    Invalid,        \* the 400 with which a bad request is answered
    ValidRequests   \* the requests whose body passes validation

ASSUME InvoiceAssumption ==
    /\ Replies = Invoices \cup {Invalid}
    /\ Invalid \notin Invoices
    /\ ValidRequests \subseteq Requests

VARIABLES pc, job, created, events, told

invoiceVars == <<storeVars, pc, job, created, events, told>>

-----------------------------------------------------------------------------
(* Workers *)

NoJob == [key |-> None, request |-> None, token |-> None, result |-> None]

Job == [key     : Keys \cup {None},
        request : Requests \cup {None},
        token   : Tokens \cup {None},
        result  : Replies \cup {None}]

Labels == {"idle", "create", "log", "save", "invalid", "fail"}

Goto(w, label) == pc' = [pc EXCEPT ![w] = label]

\* The handler returns or raises; its locals are gone.
End(w) ==
    /\ Goto(w, "idle")
    /\ job' = [job EXCEPT ![w] = NoJob]
    /\ held' = held \ {job[w].token}

Answer(k, r, reply) == [key |-> k, request |-> r, reply |-> reply]

Tell(w) == told' = told \cup {Answer(job[w].key, job[w].request, job[w].result)}

InvoiceInit ==
    /\ StoreInit
    /\ pc = [w \in Workers |-> "idle"]
    /\ job = [w \in Workers |-> NoJob]
    /\ created = {}
    /\ events = {}
    /\ told = {}

-----------------------------------------------------------------------------
(* The handler *)

\* _require_idempotency claims the key; then the body is validated.  A 409
\* (another request, or a live claim) leaves everything as it was.
Begin(w) ==
    /\ pc[w] = "idle"
    /\ \E k \in Keys, r \in Requests, tok \in Tokens, d \in 0..Lag :
        /\ Claim(k, r, tok, None, d)
        /\ held' = held \cup {tok}
        /\ job' = [job EXCEPT ![w] =
                     [key |-> k, request |-> r, token |-> tok,
                      result |-> IF r \in ValidRequests THEN None ELSE Invalid]]
        /\ Goto(w, IF r \in ValidRequests THEN "create" ELSE "invalid")
    /\ UNCHANGED <<created, events, told>>

Replay(w) ==
    /\ pc[w] = "idle"
    /\ \E k \in Keys, r \in Requests :
        /\ CanReplay(k, r)
        /\ told' = told \cup {Answer(k, r, idem[k].reply)}
    /\ UNCHANGED <<storeVars, pc, job, created, events>>

\* Mutant of Create: the hash in LND's answer is dropped.
CreateUnnamed(w) ==
    /\ pc[w] = "create"
    /\ \E i \in Invoices \ created : created' = created \cup {i}
    /\ Goto(w, "log")
    /\ UNCHANGED <<storeVars, job, events, told>>

\* LND creates the invoice and answers.
Create(w) ==
    /\ pc[w] = "create"
    /\ \E i \in Invoices \ created :
        /\ created' = created \cup {i}
        /\ job' = [job EXCEPT ![w].result = i]
    /\ Goto(w, "log")
    /\ UNCHANGED <<storeVars, events, told>>

\* The answer is lost, or there was none: a 502 or 503.  The row stays CLAIMED.
CreateFails(w) ==
    /\ pc[w] = "create"
    /\ \E lost \in SUBSET (Invoices \ created) :
        Cardinality(lost) <= 1 /\ created' = created \cup lost
    /\ End(w)
    /\ UNCHANGED <<idem, events, told>>

\* Mutant of Log: the answer is stored first, the event never.
LogNever(w) ==
    /\ pc[w] = "log"
    /\ Goto(w, "save")
    /\ UNCHANGED <<storeVars, job, created, events, told>>

\* append_event
Log(w) ==
    /\ pc[w] = "log"
    /\ events' = events \cup {job[w].result}
    /\ Goto(w, "save")
    /\ UNCHANGED <<storeVars, job, created, told>>

\* Mutant of Save: the 201 is given although it could not be stored.
SaveUnstored(w) ==
    /\ pc[w] = "save"
    /\ Tell(w)
    /\ End(w)
    /\ UNCHANGED <<idem, created, events>>

\* _idempotent stores the 201 and gives it.
Save(w) ==
    LET j == job[w] IN
    /\ pc[w] = "save"
    /\ SaveIdempotent(j.key, j.request, j.token, j.result)
    /\ Tell(w)
    /\ End(w)
    /\ UNCHANGED <<created, events>>

-----------------------------------------------------------------------------
(* Errors: api_error reads the row, then fails it *)

Mine(w) == idem[job[w].key].state = "CLAIMED" /\ idem[job[w].key].token = job[w].token

\* The row is read: if the claim was lost, the 400 is given and not stored.
CheckOwner(w) ==
    /\ pc[w] = "invalid"
    /\ \/ Mine(w) /\ Goto(w, "fail") /\ UNCHANGED <<job, held, told>>
       \/ ~Mine(w) /\ Tell(w) /\ End(w)
    /\ UNCHANGED <<idem, created, events>>

\* Mutant of Fail: what was read a moment ago is trusted.
FailUnfenced(w) ==
    /\ pc[w] = "fail"
    /\ Settle(job[w].key, "FAILED_FINAL", job[w].result)
    /\ Tell(w)
    /\ End(w)
    /\ UNCHANGED <<created, events>>

\* mark_failed
Fail(w) ==
    LET j == job[w] IN
    /\ pc[w] = "fail"
    /\ MarkFailed(j.key, j.request, j.token, j.result)
    /\ Tell(w)
    /\ End(w)
    /\ UNCHANGED <<created, events>>

\* The claim was lost: a 409, or a 500 from within the error handler.
LoseClaim(w) ==
    LET j == job[w] IN
    /\ pc[w] \in {"save", "fail"}
    /\ ~Owns(j.key, j.request, j.token, Open)
    /\ End(w)
    /\ UNCHANGED <<idem, created, events, told>>

\* The process dies, or the database is busy for too long.  The row stays.
Crash(w) ==
    /\ pc[w] # "idle"
    /\ End(w)
    /\ UNCHANGED <<idem, created, events, told>>

Second ==
    /\ Tick
    /\ UNCHANGED <<pc, job, created, events, told>>

-----------------------------------------------------------------------------
Handle(w) ==
    \/ Create(w) \/ CreateFails(w) \/ Log(w) \/ Save(w)
    \/ CheckOwner(w) \/ Fail(w) \/ LoseClaim(w)

InvoiceNext ==
    \/ \E w \in Workers : Begin(w) \/ Replay(w) \/ Handle(w) \/ Crash(w)
    \/ Second

InvoiceSpec == InvoiceInit /\ [][InvoiceNext]_invoiceVars

-----------------------------------------------------------------------------
(* Properties *)

InvoiceTypeOK ==
    /\ StoreTypeOK
    /\ pc \in [Workers -> Labels]
    /\ job \in [Workers -> Job]
    /\ created \subseteq Invoices
    /\ events \subseteq Invoices
    /\ told \subseteq [key : Keys, request : Requests, reply : Replies]

\* Clients get one definite answer per key, although several invoices may have
\* been created for it, and no two keys get the same invoice.
OneAnswer ==
    \A a, b \in told :
        /\ a.key = b.key => a = b
        /\ a.reply = b.reply /\ a.reply # Invalid => a = b

\* An invoice that a client was given, or that is stored for it, is logged and
\* LND knows it.
AnswersLogged ==
    /\ \A a \in told : a.reply # Invalid => a.reply \in created \cap events
    /\ \A k \in Keys : idem[k].state = "SUCCEEDED" => idem[k].reply \in created \cap events

-----------------------------------------------------------------------------
(* The inductive invariant behind them *)

\* A running request has a key and a token, and a result that fits its body and
\* how far it is.
JobShape ==
    \A w \in Workers :
        /\ pc[w] = "idle" => job[w] = NoJob
        /\ pc[w] # "idle" =>
            job[w].key \in Keys /\ job[w].request \in Requests /\ job[w].token \in held
        /\ pc[w] \in {"create", "log", "save"} => job[w].request \in ValidRequests
        /\ pc[w] \in {"log", "save"} => job[w].result \in Invoices
        /\ pc[w] \in {"invalid", "fail"} =>
            job[w].request \notin ValidRequests /\ job[w].result = Invalid

\* No two requests have one token, and a row's is that of a request for the row.
TokenIdentifiesJob ==
    /\ \A v, w \in Workers :
        job[v].token = job[w].token /\ job[v].token # None => v = w
    /\ \A w \in Workers, k \in Keys :
        idem[k].token = job[w].token /\ idem[k].token # None => job[w].key = k

\* The row of key k is there for request r, for good.
StandsFor(k, r) == idem[k].state # "ABSENT" /\ idem[k].request = r

\* What each worker relies on, also after it lost its claim.
WorkerKnows(w) ==
    /\ pc[w] # "idle" => StandsFor(job[w].key, job[w].request)
    /\ pc[w] \in {"log", "save"} => job[w].result \in created
    /\ pc[w] = "save" => job[w].result \in events

\* A row is settled with an invoice of its own, or because its request is bad.
KeyKnown(k) ==
    /\ idem[k].state \notin Final => idem[k].reply = None
    /\ idem[k].state = "SUCCEEDED" =>
        idem[k].request \in ValidRequests /\ idem[k].reply \in created \cap events
    /\ idem[k].state = "FAILED_FINAL" =>
        idem[k].request \notin ValidRequests /\ idem[k].reply = Invalid

\* An invoice is in one worker's hands or in one row.
Apart ==
    /\ \A v, w \in Workers :
        pc[v] \in {"log", "save"} /\ pc[w] \in {"log", "save"} /\ job[v].result = job[w].result
            => v = w
    /\ \A w \in Workers, k \in Keys : pc[w] \in {"log", "save"} => idem[k].reply # job[w].result
    /\ \A j, k \in Keys : idem[j].reply = idem[k].reply /\ idem[j].reply \in Invoices => j = k

\* An invoice that was told is in its row; a 400 need not be stored, but the row
\* is of the bad request for good.
ToldKnown ==
    \A a \in told :
        /\ StandsFor(a.key, a.request)
        /\ a.reply = Invalid <=> a.request \notin ValidRequests
        /\ a.reply # Invalid => idem[a.key].state = "SUCCEEDED" /\ idem[a.key].reply = a.reply

InvoiceInv ==
    /\ InvoiceTypeOK /\ OneOwner /\ JobShape /\ TokenIdentifiesJob
    /\ \A w \in Workers : WorkerKnows(w)
    /\ \A k \in Keys : KeyKnown(k)
    /\ Apart /\ ToldKnown

=============================================================================
