------------------------------ MODULE RateLimit ------------------------------
(***************************************************************************)
(* The rate limiters that every authenticated request of either adapter    *)
(* passes in before_request, for one principal (buckets of different       *)
(* principals have nothing in common):                                     *)
(*                                                                         *)
(*   "locked"      FixedWindowLimiter, bitcoin_core_backend/src/api/app.py *)
(*   "unlocked"    RateLimiter, lightning_flask/src/core/security.py       *)
(*   "redis"       RedisRateLimiter of either, in production               *)
(*   "redis_open"  the same elsewhere: it fails open                       *)
(*                                                                         *)
(*   kind      which of them the adapter was started with                  *)
(*   home[w]   the process that worker w is a thread of                    *)
(*   hits[p]   the deque of process p, oldest entry first; an entry is     *)
(*             what has passed since it was made                           *)
(*   link[p]   self._redis of process p: not tried yet, connected, or      *)
(*             given up for good                                           *)
(*   count     the value of the Redis key (0: no key)                      *)
(*   ttl       what is left of its expiry (0: it has none)                 *)
(*   gate[w]   where worker w is in the limiter                            *)
(*   seen[w]   what has passed since worker w read its clock               *)
(*   served[p] history: how many requests process p admitted how long ago, *)
(*             on a count (since its start, if the count is in its memory)   *)
(*   lost      history: an EXPIRE was not executed after its INCR            *)
(*                                                                         *)
(* FixedWindowLimiter reads its clock and works under a lock, in one step. *)
(* RateLimiter has no lock: between any two statements other threads of    *)
(* the process run.  INCR and EXPIRE are two calls to Redis, of which each *)
(* may fail, executed or not.                                              *)
(***************************************************************************)
EXTENDS Integers, Sequences, FiniteSets

CONSTANTS
    Workers,    \* worker threads
    Processes,  \* gunicorn processes
    Kinds,      \* the limiters to consider
    Limit,      \* rate_limit_per_minute
    Window,     \* the 60 seconds
    Patience    \* bound: the longest a thread is preempted in the limiter

ASSUME LimitAssumption ==
    /\ Limit \in Nat \ {0}
    /\ Window \in Nat \ {0}
    /\ Patience \in Nat
    /\ IsFiniteSet(Workers)
    /\ IsFiniteSet(Processes)

VARIABLES kind, home, hits, link, count, ttl, gate, seen, served, lost

config     == <<kind, home>>
memoryVars == <<hits, seen>>
redisVars  == <<link, count, ttl, lost>>
limitVars  == <<config, memoryVars, redisVars, gate, served>>

-----------------------------------------------------------------------------
\* The oldest age that is told apart: all readings agree that it is past.
Old == Window + Patience + 1

\* Where a thread of RateLimiter holds a reading of the clock.
Timed == {"peek", "head", "pop", "count", "append"}

Gates == {"out", "ask", "in", "refused"} \cup Timed
             \cup {"connect", "ping", "return", "incr", "expire"}

Pass(w, from, to) == gate[w] = from /\ gate' = [gate EXCEPT ![w] = to]

Threads(p) == {w \in Workers : home[w] = p}

Redis == kind \in {"redis", "redis_open"}

\* The request goes on to its route.
Admit(w, from) ==
    /\ Pass(w, from, "in")
    /\ served' = [served EXCEPT ![home[w]][0] = @ + 1]

Refuse(w, from) == Pass(w, from, "refused") /\ UNCHANGED served

NoneServed == [age \in 0..Window + Patience |-> 0]

LimitInit ==
    /\ kind \in Kinds
    /\ home \in [Workers -> Processes]
    /\ hits = [p \in Processes |-> <<>>]
    /\ link = [p \in Processes |-> "untried"]
    /\ count = 0
    /\ ttl = 0
    /\ gate = [w \in Workers |-> "out"]
    /\ seen = [w \in Workers |-> 0]
    /\ served = [p \in Processes |-> NoneServed]
    /\ lost = FALSE

Arrive(w) ==
    /\ Pass(w, "out", "ask")
    /\ UNCHANGED <<config, memoryVars, redisVars, served>>

-----------------------------------------------------------------------------
(* FixedWindowLimiter.allow *)

\* popleft while the oldest entry is out of the window.
Past(s) == {i \in DOMAIN s : \A j \in 1..i : s[j] > Window}
Recent(s) == SubSeq(s, Cardinality(Past(s)) + 1, Len(s))

\* Mutant of AllowLocked: one request more than the limit.
AllowLockedOneMore(w) ==
    LET p == home[w] IN
    /\ kind = "locked"
    /\ Len(Recent(hits[p])) <= Limit
    /\ hits' = [hits EXCEPT ![p] = Append(Recent(@), 0)]
    /\ Admit(w, "ask")
    /\ UNCHANGED <<config, seen, redisVars>>

AllowLocked(w) ==
    LET p == home[w] IN
    /\ kind = "locked"
    /\ Len(Recent(hits[p])) < Limit
    /\ hits' = [hits EXCEPT ![p] = Append(Recent(@), 0)]
    /\ Admit(w, "ask")
    /\ UNCHANGED <<config, seen, redisVars>>

\* Mutant of RefuseLocked: a refused request counts like an admitted one.
RefuseLockedCounts(w) ==
    LET p == home[w] IN
    /\ kind = "locked"
    /\ Len(Recent(hits[p])) >= Limit
    /\ hits' = [hits EXCEPT ![p] = Append(Recent(@), 0)]
    /\ Refuse(w, "ask")
    /\ UNCHANGED <<config, seen, redisVars>>

RefuseLocked(w) ==
    LET p == home[w] IN
    /\ kind = "locked"
    /\ Len(Recent(hits[p])) >= Limit
    /\ hits' = [hits EXCEPT ![p] = Recent(@)]
    /\ Refuse(w, "ask")
    /\ UNCHANGED <<config, seen, redisVars>>

-----------------------------------------------------------------------------
(* RateLimiter.check *)

\* now = time.monotonic()
ReadClock(w) ==
    /\ kind = "unlocked"
    /\ Pass(w, "ask", "peek")
    /\ seen' = [seen EXCEPT ![w] = 0]
    /\ UNCHANGED <<config, hits, redisVars, served>>

\* while bucket and ...
Peek(w) ==
    /\ \/ hits[home[w]] # <<>> /\ Pass(w, "peek", "head")
       \/ hits[home[w]] = <<>> /\ Pass(w, "peek", "count")
    /\ UNCHANGED <<config, memoryVars, redisVars, served>>

\* IndexError, and so a 500: another thread has emptied the deque.
Emptied(w, from) ==
    hits[home[w]] = <<>> /\ Pass(w, from, "out") /\ UNCHANGED hits

\* ... bucket[0] < cutoff
OldestPast(w) == Head(hits[home[w]]) - seen[w] > Window

LookAtHead(w) ==
    /\ \/ Emptied(w, "head")
       \/ /\ hits[home[w]] # <<>>
          /\ Pass(w, "head", IF OldestPast(w) THEN "pop" ELSE "count")
          /\ UNCHANGED hits
    /\ UNCHANGED <<config, seen, redisVars, served>>

\* popleft of whatever is the oldest entry by now.
Pop(w) ==
    LET p == home[w] IN
    /\ \/ Emptied(w, "pop")
       \/ hits[p] # <<>> /\ Pass(w, "pop", "peek") /\ hits' = [hits EXCEPT ![p] = Tail(@)]
    /\ UNCHANGED <<config, seen, redisVars, served>>

\* Mutant of CountHits: one request more than the limit.
CountHitsOneMore(w) ==
    /\ \/ Len(hits[home[w]]) > Limit /\ Refuse(w, "count")
       \/ Len(hits[home[w]]) <= Limit /\ Pass(w, "count", "append") /\ UNCHANGED served
    /\ UNCHANGED <<config, memoryVars, redisVars>>

CountHits(w) ==
    /\ \/ Len(hits[home[w]]) >= Limit /\ Refuse(w, "count")
       \/ Len(hits[home[w]]) < Limit /\ Pass(w, "count", "append") /\ UNCHANGED served
    /\ UNCHANGED <<config, memoryVars, redisVars>>

AppendHit(w) ==
    /\ hits' = [hits EXCEPT ![home[w]] = Append(@, seen[w])]
    /\ Admit(w, "append")
    /\ UNCHANGED <<config, seen, redisVars>>

-----------------------------------------------------------------------------
(* RedisRateLimiter *)

\* The except clauses: in production a 429 or a 503; otherwise the request passes,
\* and nothing has counted it.
Unavailable(w, from) ==
    /\ Pass(w, from, IF kind = "redis" THEN "refused" ELSE "in")
    /\ UNCHANGED served

\* _ensure_redis: what self._redis holds decides, also after the ping, when
\* another thread may have set it.
Reads(w, from) ==
    \/ link[home[w]] = "up" /\ Pass(w, from, "incr") /\ UNCHANGED served
    \/ link[home[w]] = "down" /\ Unavailable(w, from)

Ask(w) ==
    /\ Redis
    /\ \/ Reads(w, "ask")
       \/ link[home[w]] = "untried" /\ Pass(w, "ask", "connect") /\ UNCHANGED served
    /\ UNCHANGED <<config, memoryVars, redisVars>>

\* self._redis is set, for all threads, before it is pinged ...
Connect(w) ==
    /\ Pass(w, "connect", "ping")
    /\ link' = [link EXCEPT ![home[w]] = "up"]
    /\ UNCHANGED <<config, memoryVars, count, ttl, lost, served>>

\* ... and False after a failed ping: never tried again, since False is not None.
Ping(w) ==
    /\ Pass(w, "ping", "return")
    /\ \/ UNCHANGED link
       \/ link' = [link EXCEPT ![home[w]] = "down"]
    /\ UNCHANGED <<config, memoryVars, count, ttl, lost, served>>

Return(w) ==
    /\ Reads(w, "return")
    /\ UNCHANGED <<config, memoryVars, redisVars>>

\* Counts above the limit are alike.
Incremented == IF count > Limit THEN count ELSE count + 1

Incr(w) ==
    /\ count' = Incremented
    /\ \/ Incremented = 1 /\ Pass(w, "incr", "expire") /\ UNCHANGED served
       \/ Incremented \in 2..Limit /\ Admit(w, "incr")
       \/ Incremented > Limit /\ Refuse(w, "incr")
    /\ UNCHANGED <<config, memoryVars, link, ttl, lost>>

\* The call fails; Redis may have executed it, and then nobody sets the expiry.
IncrFails(w) ==
    /\ \/ UNCHANGED <<count, lost>>
       \/ count' = Incremented /\ lost' = (lost \/ Incremented = 1)
    /\ Unavailable(w, "incr")
    /\ UNCHANGED <<config, memoryVars, link, ttl>>

\* Mutant of Expire: the expiry is not set.
ExpireForgets(w) ==
    /\ Admit(w, "expire")
    /\ UNCHANGED <<config, memoryVars, redisVars>>

Expire(w) ==
    /\ ttl' = Window
    /\ Admit(w, "expire")
    /\ UNCHANGED <<config, memoryVars, link, count, lost>>

\* EXPIRE fails, executed or not.
ExpireFails(w) ==
    /\ \/ ttl' = Window /\ UNCHANGED lost
       \/ lost' = TRUE /\ UNCHANGED ttl
    /\ Unavailable(w, "expire")
    /\ UNCHANGED <<config, memoryVars, link, count>>

-----------------------------------------------------------------------------
(* Leaving, dying, and time *)

\* The response is sent: a 429 or 503, or what the route answers.
Leave(w) ==
    /\ gate[w] \in {"in", "refused"}
    /\ gate' = [gate EXCEPT ![w] = "out"]
    /\ UNCHANGED <<config, memoryVars, redisVars, served>>

\* A gunicorn process is killed and started again, with what it has in memory.
Restart(p) ==
    /\ gate' = [w \in Workers |-> IF home[w] = p THEN "out" ELSE gate[w]]
    /\ seen' = [w \in Workers |-> IF home[w] = p THEN 0 ELSE seen[w]]
    /\ hits' = [hits EXCEPT ![p] = <<>>]
    /\ link' = [link EXCEPT ![p] = "untried"]
    /\ served' = IF Redis THEN served ELSE [served EXCEPT ![p] = NoneServed]
    /\ lost' = (lost \/ \E w \in Threads(p) : gate[w] = "expire")
    /\ UNCHANGED <<config, count, ttl>>

Aged(age) == IF age < Old THEN age + 1 ELSE age

\* A second passes.
PassSecond ==
    /\ \A w \in Workers : gate[w] \in Timed => seen[w] < Patience
    /\ hits' = [p \in Processes |-> [i \in DOMAIN hits[p] |-> Aged(hits[p][i])]]
    /\ seen' = [w \in Workers |-> IF gate[w] \in Timed THEN seen[w] + 1 ELSE 0]
    /\ count' = IF ttl = 1 THEN 0 ELSE count
    /\ ttl' = IF ttl > 0 THEN ttl - 1 ELSE ttl
    /\ served' = [p \in Processes |->
                    [age \in DOMAIN NoneServed |-> IF age = 0 THEN 0 ELSE served[p][age - 1]]]
    /\ UNCHANGED <<config, link, gate, lost>>

-----------------------------------------------------------------------------
InLimiter(w) ==
    \/ AllowLocked(w) \/ RefuseLocked(w)
    \/ ReadClock(w) \/ Peek(w) \/ LookAtHead(w) \/ Pop(w) \/ CountHits(w) \/ AppendHit(w)
    \/ Ask(w) \/ Connect(w) \/ Ping(w) \/ Return(w)
    \/ Incr(w) \/ IncrFails(w) \/ Expire(w) \/ ExpireFails(w)

LimitNext ==
    \/ \E w \in Workers : Arrive(w) \/ InLimiter(w) \/ Leave(w)
    \/ \E p \in Processes : Restart(p)
    \/ PassSecond

LimitSpec == LimitInit /\ [][LimitNext]_limitVars

-----------------------------------------------------------------------------
(* Properties *)

\* How many requests the processes of P have admitted in the last age seconds.
Admissions(s, P, age) == UNION {{p} \X {a} \X (1..s[p][a]) : p \in P, a \in 0..age}
Admitted(P, age) == Cardinality(Admissions(served, P, age))

\* Types; and the deque of a process outgrows the limit by no more than the threads
\* that can have counted it before any of them appended (RateLimiter.check).
LimitTypeOK ==
    /\ kind \in Kinds
    /\ home \in [Workers -> Processes]
    /\ hits \in [Processes -> Seq(0..Old)]
    /\ \A p \in Processes : Len(hits[p]) < Limit + Cardinality(Threads(p))
    /\ link \in [Processes -> {"untried", "up", "down"}]
    /\ count \in 0..Limit + 1
    /\ ttl \in 0..Window
    /\ gate \in [Workers -> Gates]
    /\ seen \in [Workers -> 0..Patience]
    /\ served \in [Processes -> [0..Window + Patience -> Nat]]
    /\ lost \in BOOLEAN

\* The quota.  FixedWindowLimiter admits at most the limit in any 60 seconds, both
\* ends included, but per process; the Redis one at most twice the limit (the
\* end of one window and the start of the next), over all processes, however
\* INCR and EXPIRE interleave, fail and are lost; besides, out of production,
\* whatever it lets through because Redis failed.
QuotaKept ==
    /\ kind = "locked" => \A p \in Processes : Admitted({p}, Window) <= Limit
    /\ Redis => Admitted(Processes, Window - 1) <= 2 * Limit

\* The Redis key expires, unless the EXPIRE after the INCR that made it is still to
\* come or was lost; then, and only then, its principal is refused for ever.
KeyExpires ==
    count > 0 /\ ttl = 0 => lost \/ \E w \in Workers : gate[w] = "expire"

RefusalStep ==
    kind \in {"locked", "unlocked"} =>
        \A w \in Workers :
            gate[w] # "refused" /\ gate'[w] = "refused" =>
                LET reach == IF kind = "locked" THEN Window ELSE Window + Patience
                IN  Admitted({home[w]}, reach) >= Limit

\* A limiter in memory refuses only a principal that did use up its quota: no
\* request that was itself refused counts against it, and none that left the
\* window (with the unlocked one, by more than a thread's longest preemption),
\* although that one trims and counts a deque that is not sorted and that other
\* threads change meanwhile.
RefusedOnlyOverQuota == [][RefusalStep]_limitVars

-----------------------------------------------------------------------------
(* The inductive invariant behind them *)

\* Where a thread is depends on its limiter.
GatesFit ==
    \A w \in Workers :
        /\ gate[w] \in Timed => kind = "unlocked"
        /\ gate[w] \in {"connect", "ping", "return", "incr", "expire"} => Redis

\* Who has counted the deque, and not appended yet, is one of its threads.
Appending(p) == {w \in Threads(p) : gate[w] = "append"}

DequeBounded ==
    \A p \in Processes : Len(hits[p]) + Cardinality(Appending(p)) < Limit + Cardinality(Threads(p))

\* Only who made the key has an EXPIRE to do, and a key goes with its expiry.
OneExpirer ==
    /\ \A v, w \in Workers : gate[v] = "expire" /\ gate[w] = "expire" => v = w
    /\ \A w \in Workers : gate[w] = "expire" => count > 0 /\ ttl = 0
    /\ ttl > 0 => count > 0

\* As many as the key can have let through; who has the EXPIRE to do is counted,
\* and not yet admitted.
Used ==
    (IF count < Limit THEN count ELSE Limit)
        - (IF \E w \in Workers : gate[w] = "expire" THEN 1 ELSE 0)

\* The last second of the window but one ends with the key that came before: what
\* was admitted since the expiry was set, this key has counted.
KeyCounts ==
    Redis =>
        /\ Admitted(Processes, Window - 1) <= Limit + Used
        /\ ttl > 0 => Admitted(Processes, Window - ttl - 1) <= Used

\* The entries of a deque that are no older than age.
Young(s, age) == {i \in DOMAIN s : s[i] <= age}

\* The lock makes the deque an exact account of the window.
LockedCounts ==
    kind = "locked" =>
        \A p \in Processes :
            /\ Admitted({p}, Window) <= Limit
            /\ \A age \in 0..Window : Admitted({p}, age) <= Cardinality(Young(hits[p], age))

\* g says when the requests that left the entries of p's deque were admitted:
\* after their clock was read, and in the order of the entries.  Who is about to
\* count looked at an entry in the window, by its reading.
Dates(p, g) ==
    /\ \A i \in DOMAIN hits[p] : g[i] <= hits[p][i]
    /\ \A i, j \in DOMAIN hits[p] : i <= j => g[j] <= g[i]
    /\ \A age \in 0..Window + Patience : Cardinality(Young(g, age)) <= Admitted({p}, age)
    /\ \A w \in Threads(p) : gate[w] = "count" /\ hits[p] # <<>> => g[1] <= Window + seen[w]

EntriesDated ==
    \A p \in Processes : \E g \in [DOMAIN hits[p] -> 0..Old] : Dates(p, g)

LimitInv ==
    /\ LimitTypeOK /\ GatesFit /\ DequeBounded
    /\ OneExpirer /\ KeyCounts
    /\ LockedCounts /\ EntriesDated

=============================================================================
