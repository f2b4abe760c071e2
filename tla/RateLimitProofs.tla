--------------------------- MODULE RateLimitProofs ---------------------------
(***************************************************************************)
(* Proofs about RateLimit, for all constants: the Redis key of a principal *)
(* expires, except in the one way that the code leaves open; the limiters  *)
(* keep their quota; and those in memory refuse only who used it up.       *)
(*                                                                         *)
(* LimitInv is shown part by part, and each part limiter by limiter: an    *)
(* admission adds one to every count of admissions, a second moves each    *)
(* count by one age, and a restart can only lower it.                      *)
(***************************************************************************)
EXTENDS RateLimit, FiniteSetTheorems, SequenceTheorems, TLAPS

\* Between INCR and EXPIRE the expiry hangs on one thread, and on its process.
ExpiryInv ==
    /\ gate \in [Workers -> Gates]
    /\ count \in Nat
    /\ ttl \in 0..Window
    /\ KeyExpires

\* A thread may go where it likes, if nobody has the expiry in hand by then who
\* had not, and it has not.
LEMMA GateMoves ==
    ASSUME ExpiryInv, NEW w \in Workers, NEW from \in Gates \ {"expire"}, NEW to \in Gates,
           Pass(w, from, to), UNCHANGED <<count, ttl, lost>>
    PROVE  ExpiryInv'
<1>1. gate' = [gate EXCEPT ![w] = to] /\ gate[w] # "expire"
  BY DEF Pass
<1>2. \A v \in Workers : gate[v] = "expire" => gate'[v] = "expire"
  BY <1>1 DEF ExpiryInv
<1> QED
  BY <1>1, <1>2 DEF ExpiryInv, KeyExpires

LEMMA MemorySteps ==
    ASSUME ExpiryInv, NEW w \in Workers,
           \/ Arrive(w) \/ AllowLocked(w) \/ RefuseLocked(w) \/ ReadClock(w) \/ Peek(w)
           \/ LookAtHead(w) \/ Pop(w) \/ CountHits(w) \/ AppendHit(w) \/ Leave(w)
    PROVE  ExpiryInv'
<1>1. /\ UNCHANGED <<count, ttl, lost>>
      /\ \E from \in Gates \ {"expire"}, to \in Gates : Pass(w, from, to)
  <2>1. CASE Arrive(w) \/ ReadClock(w) \/ Peek(w) \/ Pop(w)
    BY <2>1 DEF Arrive, ReadClock, Peek, Pop, Emptied, Gates, Timed, redisVars
  <2>2. CASE AllowLocked(w) \/ RefuseLocked(w) \/ CountHits(w) \/ AppendHit(w)
    BY <2>2 DEF AllowLocked, RefuseLocked, CountHits, AppendHit, Admit, Refuse, Gates, Timed,
       redisVars
  <2>3. CASE LookAtHead(w)
    BY <2>3 DEF LookAtHead, Emptied, Gates, Timed, redisVars
  <2>4. CASE Leave(w)
    BY <2>4 DEF Leave, Pass, Gates, Timed, redisVars
  <2> QED
    BY <2>1, <2>2, <2>3, <2>4
<1> QED
  BY <1>1, GateMoves

LEMMA LinkSteps ==
    ASSUME ExpiryInv, NEW w \in Workers, Ask(w) \/ Connect(w) \/ Ping(w) \/ Return(w)
    PROVE  ExpiryInv'
<1>1. UNCHANGED <<count, ttl, lost>>
  BY DEF Ask, Connect, Ping, Return, redisVars
<1>2. \E from \in Gates \ {"expire"}, to \in Gates : Pass(w, from, to)
  BY DEF Ask, Connect, Ping, Return, Reads, Unavailable, Gates, Timed
<1> QED
  BY <1>1, <1>2, GateMoves

\* The INCR that makes the key puts its thread before the EXPIRE, or fails and is
\* executed all the same, which loses the expiry.
LEMMA IncrSteps ==
    ASSUME ExpiryInv, NEW w \in Workers, Incr(w) \/ IncrFails(w)
    PROVE  ExpiryInv'
<1>0. gate \in [Workers -> Gates] /\ count \in Nat /\ Limit \in Nat \ {0}
  BY LimitAssumption DEF ExpiryInv
<1>1. /\ Incremented \in Nat /\ Incremented > 0
      /\ count > 0 => Incremented # 1
  BY <1>0 DEF Incremented
<1>2. CASE Incr(w)
  <2>1. /\ gate[w] = "incr" /\ count' = Incremented /\ ttl' = ttl /\ lost' = lost
        /\ \E to \in Gates :
              gate' = [gate EXCEPT ![w] = to] /\ (Incremented = 1 => to = "expire")
    BY <1>0, <1>1, <1>2 DEF Incr, Admit, Refuse, Pass, Gates, Timed
  <2>2. \A v \in Workers : gate[v] = "expire" => gate'[v] = "expire"
    BY <1>0, <2>1
  <2>3. Incremented = 1 => gate'[w] = "expire"
    BY <1>0, <2>1
  <2>4. count = 0 => Incremented = 1
    BY <1>0 DEF Incremented
  <2>5. KeyExpires'
    BY <1>0, <1>1, <2>1, <2>2, <2>3, <2>4 DEF ExpiryInv, KeyExpires
  <2> QED
    BY <1>0, <1>1, <2>1, <2>5 DEF ExpiryInv
<1>3. CASE IncrFails(w)
  <2>1. /\ gate[w] = "incr" /\ ttl' = ttl
        /\ \E to \in Gates : gate' = [gate EXCEPT ![w] = to]
        /\ \/ UNCHANGED <<count, lost>>
           \/ count' = Incremented /\ lost' = (lost \/ Incremented = 1)
    BY <1>3 DEF IncrFails, Unavailable, Pass, Gates, Timed
  <2>2. \A v \in Workers : gate[v] = "expire" => gate'[v] = "expire"
    BY <1>0, <2>1
  <2>3. count = 0 => Incremented = 1
    BY <1>0 DEF Incremented
  <2>4. CASE UNCHANGED <<count, lost>>
    BY <2>1, <2>2, <2>4 DEF ExpiryInv, KeyExpires
  <2>5. CASE count' = Incremented /\ lost' = (lost \/ Incremented = 1)
    <3>1. (lost => lost') /\ (Incremented = 1 => lost')
      BY <2>5
    <3>2. KeyExpires'
      BY <1>0, <1>1, <2>1, <2>2, <2>3, <3>1 DEF ExpiryInv, KeyExpires
    <3> QED
      BY <1>0, <1>1, <2>1, <2>5, <3>2 DEF ExpiryInv
  <2> QED
    BY <2>1, <2>4, <2>5
<1> QED
  BY <1>2, <1>3

\* The EXPIRE sets the expiry, or is lost.
LEMMA ExpireSteps ==
    ASSUME ExpiryInv, NEW w \in Workers, Expire(w) \/ ExpireFails(w)
    PROVE  ExpiryInv'
<1>1. /\ \E to \in Gates : gate' = [gate EXCEPT ![w] = to]
      /\ count' = count
      /\ \/ ttl' = Window
         \/ ttl' = ttl /\ lost' = TRUE
  <2>1. CASE Expire(w)
    BY <2>1 DEF Expire, Admit, Pass, Gates, Timed
  <2>2. CASE ExpireFails(w)
    <3>1. \E to \in Gates : gate' = [gate EXCEPT ![w] = to]
      BY <2>2 DEF ExpireFails, Unavailable, Pass, Gates, Timed
    <3>2. count' = count /\ (ttl' = Window \/ (ttl' = ttl /\ lost' = TRUE))
      BY <2>2 DEF ExpireFails
    <3> QED
      BY <3>1, <3>2
  <2> QED
    BY <2>1, <2>2
<1> QED
  BY <1>1, LimitAssumption DEF ExpiryInv, KeyExpires

LEMMA RestartStep ==
    ASSUME ExpiryInv, NEW p \in Processes, Restart(p)
    PROVE  ExpiryInv'
<1>1. /\ gate' = [w \in Workers |-> IF home[w] = p THEN "out" ELSE gate[w]]
      /\ lost' = (lost \/ \E w \in Threads(p) : gate[w] = "expire")
      /\ UNCHANGED <<count, ttl>>
  BY DEF Restart
<1>2. \A w \in Workers : gate[w] = "expire" => gate'[w] = "expire" \/ lost'
  BY <1>1 DEF Threads
<1>3. gate' \in [Workers -> Gates]
  BY <1>1 DEF ExpiryInv, Gates
<1>4. lost => lost'
  BY <1>1
<1>5. KeyExpires'
  BY <1>1, <1>2, <1>4 DEF ExpiryInv, KeyExpires
<1> QED
  BY <1>1, <1>3, <1>5 DEF ExpiryInv

LEMMA SecondStep ==
    ASSUME ExpiryInv, PassSecond
    PROVE  ExpiryInv'
<1>1. /\ count' = IF ttl = 1 THEN 0 ELSE count
      /\ ttl' = IF ttl > 0 THEN ttl - 1 ELSE ttl
      /\ UNCHANGED <<gate, lost>>
  BY DEF PassSecond, config
<1> QED
  BY <1>1, LimitAssumption DEF ExpiryInv, KeyExpires

LEMMA ExpiryStep == ExpiryInv /\ [LimitNext]_limitVars => ExpiryInv'
<1> SUFFICES ASSUME ExpiryInv, [LimitNext]_limitVars PROVE ExpiryInv'
  OBVIOUS
<1>1. ASSUME NEW w \in Workers, Arrive(w) \/ InLimiter(w) \/ Leave(w) PROVE ExpiryInv'
  BY <1>1, MemorySteps, LinkSteps, IncrSteps, ExpireSteps DEF InLimiter
<1>2. ASSUME NEW p \in Processes, Restart(p) PROVE ExpiryInv'
  BY <1>2, RestartStep
<1>3. CASE PassSecond
  BY <1>3, SecondStep
<1>4. CASE UNCHANGED limitVars
  BY <1>4 DEF limitVars, redisVars, ExpiryInv, KeyExpires
<1> QED
  BY <1>1, <1>2, <1>3, <1>4 DEF LimitNext

\* RedisRateLimiter's key expires unless the EXPIRE that the INCR owes is still to
\* come or was lost, for any number of threads and processes, any limit and any
\* window: no interleaving of INCR and EXPIRE alone leaves a key for ever.
THEOREM KeyExpiresCorrect == LimitSpec => []KeyExpires
<1>1. LimitInit => ExpiryInv
  BY LimitAssumption DEF LimitInit, ExpiryInv, KeyExpires, Gates
<1>2. ExpiryInv /\ [LimitNext]_limitVars => ExpiryInv'
  BY ExpiryStep
<1>3. ExpiryInv => KeyExpires
  BY DEF ExpiryInv
<1> QED
  BY <1>1, <1>2, <1>3, PTL DEF LimitSpec

-----------------------------------------------------------------------------
(* Counting admissions *)

ServedOK == served \in [Processes -> [0..Window + Patience -> Nat]]

\* An admission has a process, an age and a number.
LEMMA AdmissionIs ==
    ASSUME NEW s, NEW P, NEW age, NEW x
    PROVE  x \in Admissions(s, P, age)
              <=> \E p \in P, a \in 0..age : \E n \in 1..s[p][a] : x = <<p, a, n>>
<1> DEFINE Some(p, a) == {p} \X {a} \X (1..s[p][a])
           All == {Some(p, a) : p \in P, a \in 0..age}
<1>1. \A p, a : x \in Some(p, a) <=> \E n \in 1..s[p][a] : x = <<p, a, n>>
  OBVIOUS
<1>2. Admissions(s, P, age) = UNION All
  BY DEF Admissions
<1> HIDE DEF Some
<1>3. \A T : T \in All <=> \E p \in P, a \in 0..age : T = Some(p, a)
  OBVIOUS
<1> HIDE DEF All
<1>4. x \in Admissions(s, P, age) <=> \E T \in All : x \in T
  BY <1>2
<1>5. ASSUME x \in Admissions(s, P, age)
      PROVE  \E p \in P, a \in 0..age : \E n \in 1..s[p][a] : x = <<p, a, n>>
  BY <1>1, <1>3, <1>4, <1>5
<1>6. ASSUME NEW p \in P, NEW a \in 0..age, NEW n \in 1..s[p][a], x = <<p, a, n>>
      PROVE  x \in Admissions(s, P, age)
  BY <1>1, <1>3, <1>4, <1>6
<1> QED
  BY <1>5, <1>6

\* There are finitely many.
LEMMA FinitelyMany ==
    ASSUME NEW s \in [Processes -> [0..Window + Patience -> Nat]], NEW P \in SUBSET Processes, NEW age \in Int, age <= Window + Patience
    PROVE  /\ IsFiniteSet(Admissions(s, P, age))
           /\ Cardinality(Admissions(s, P, age)) \in Nat
<1> DEFINE Some(p, a) == {p} \X {a} \X (1..s[p][a])
           All == {Some(p, a) : p \in P, a \in 0..age}
           Pairs == P \X (0..age)
<1>1. IsFiniteSet(Pairs)
  <2>1. IsFiniteSet(P)
    BY FS_Subset, LimitAssumption
  <2>2. IsFiniteSet(0..age)
    BY FS_Interval
  <2> QED
    BY <2>1, <2>2, FS_Product
<1>2. ASSUME NEW p \in P, NEW a \in 0..age PROVE IsFiniteSet(Some(p, a))
  <2>1. PICK k \in Nat : k = s[p][a]
    BY LimitAssumption
  <2>2. IsFiniteSet(1..k)
    BY FS_Interval
  <2> DEFINE h == [n \in 1..k |-> <<p, a, n>>]
  <2>3. \A x : x \in Some(p, a) <=> \E n \in 1..k : x = <<p, a, n>>
    BY <2>1
  <2>4. h \in [1..k -> Some(p, a)] /\ \A x \in Some(p, a) : \E n \in 1..k : h[n] = x
    BY <2>3
  <2>5. h \in Surjection(1..k, Some(p, a))
    BY <2>4 DEF Surjection
  <2> QED
    BY <2>2, <2>5, FS_Surjection
<1> HIDE DEF Some
<1>3. \A T \in All : IsFiniteSet(T)
  BY <1>2
<1>4. IsFiniteSet(All)
  <2> DEFINE f == [x \in Pairs |-> Some(x[1], x[2])]
  <2>1. \A T : T \in All <=> \E p \in P, a \in 0..age : T = Some(p, a)
    OBVIOUS
  <2> HIDE DEF All
  <2>2. \A x \in Pairs : x[1] \in P /\ x[2] \in 0..age
    OBVIOUS
  <2>3. f \in [Pairs -> All]
    BY <2>1, <2>2
  <2>4. \A p \in P, a \in 0..age : <<p, a>> \in Pairs /\ f[<<p, a>>] = Some(p, a)
    OBVIOUS
  <2> HIDE DEF f, Pairs
  <2>5. ASSUME NEW T \in All PROVE \E x \in Pairs : f[x] = T
    <3>1. PICK p \in P, a \in 0..age : T = Some(p, a)
      BY <2>1
    <3>2. <<p, a>> \in Pairs /\ f[<<p, a>>] = T
      BY <2>4, <3>1
    <3> QED
      BY <3>2
  <2>6. f \in Surjection(Pairs, All)
    BY <2>3, <2>5 DEF Surjection
  <2> QED
    BY <1>1, <2>6, FS_Surjection
<1> HIDE DEF All
<1>5. IsFiniteSet(UNION All)
  BY <1>3, <1>4, FS_UNION
<1>6. Admissions(s, P, age) = UNION All
  BY DEF Admissions, All, Some
<1> QED
  BY <1>5, <1>6, FS_CardinalityType

LEMMA AdmissionsFinite ==
    ASSUME ServedOK, NEW P \in SUBSET Processes, NEW age \in Int, age <= Window + Patience
    PROVE  IsFiniteSet(Admissions(served, P, age)) /\ Admitted(P, age) \in Nat
BY FinitelyMany DEF ServedOK, Admitted

LEMMA AdmissionsFiniteThen ==
    ASSUME ServedOK', NEW P \in SUBSET Processes, NEW age \in Int, age <= Window + Patience
    PROVE  Admitted(P, age)' \in Nat
BY FinitelyMany DEF ServedOK, Admitted

\* More time, more admissions.
LEMMA AdmittedMonotone ==
    ASSUME ServedOK, NEW P \in SUBSET Processes, NEW age \in Int, NEW more \in Int,
           age <= more, more <= Window + Patience
    PROVE  Admitted(P, age) <= Admitted(P, more)
<1>1. IsFiniteSet(Admissions(served, P, more))
  BY AdmissionsFinite
<1>2. \A a \in 0..age : a \in 0..more
  OBVIOUS
<1>3. Admissions(served, P, age) \subseteq Admissions(served, P, more)
  <2>1. ASSUME NEW x \in Admissions(served, P, age) PROVE x \in Admissions(served, P, more)
    <3>1. \E p \in P, a \in 0..age : \E n \in 1..served[p][a] : x = <<p, a, n>>
      BY AdmissionIs
    <3>2. \E p \in P, a \in 0..more : \E n \in 1..served[p][a] : x = <<p, a, n>>
      BY <1>2, <3>1
    <3> QED
      BY <3>2, AdmissionIs
  <2> QED
    BY <2>1
<1> QED
  BY <1>1, <1>3, FS_Subset DEF Admitted

\* No time, none, now and after a step.
LEMMA AdmittedNever ==
    ASSUME NEW P, NEW age \in Int, age < 0
    PROVE  Admitted(P, age) = 0 /\ Admitted(P, age)' = 0
<1>1. 0..age = {}
  OBVIOUS
<1>2. Admissions(served, P, age) = {} /\ Admissions(served', P, age) = {}
  BY <1>1, AdmissionIs
<1> QED
  BY <1>2, FS_EmptySet DEF Admitted

\* Nobody, none.
LEMMA AdmittedNone ==
    ASSUME NEW s, NEW P, NEW age \in Int, age <= Window + Patience,
           \A p \in P : s[p] = NoneServed
    PROVE  Cardinality(Admissions(s, P, age)) = 0
<1>1. ASSUME NEW x \in Admissions(s, P, age) PROVE FALSE
  <2>1. \E p \in P, a \in 0..age : \E n \in 1..s[p][a] : TRUE
    BY AdmissionIs
  <2>2. \A p \in P, a \in 0..age : s[p][a] = 0
    BY LimitAssumption DEF NoneServed
  <2> QED
    BY <2>1, <2>2
<1>2. Admissions(s, P, age) = {}
  BY <1>1
<1> QED
  BY <1>2, FS_EmptySet

\* Processes that admit nobody.
LEMMA AdmittedSame ==
    ASSUME NEW P, NEW age, \A p \in P : served'[p] = served[p]
    PROVE  Admitted(P, age)' = Admitted(P, age)
<1>1. \A p \in P, a \in 0..age : served'[p][a] = served[p][a]
  OBVIOUS
<1>2. Admissions(served', P, age) = Admissions(served, P, age)
  BY <1>1 DEF Admissions
<1> QED
  BY <1>2 DEF Admitted

\* One more that was just admitted.
LEMMA OneMoreAdmission ==
    ASSUME NEW s, NEW t, NEW P, NEW age \in Nat, NEW p \in P,
           IsFiniteSet(Admissions(s, P, age)),
           s[p][0] \in Nat, t[p][0] = s[p][0] + 1,
           \A q \in P, a \in 0..age : q # p \/ a # 0 => t[q][a] = s[q][a]
    PROVE  Cardinality(Admissions(t, P, age)) = Cardinality(Admissions(s, P, age)) + 1
<1> DEFINE new == <<p, 0, s[p][0] + 1>>
<1>1. new \notin Admissions(s, P, age)
  <2>1. ASSUME new \in Admissions(s, P, age) PROVE FALSE
    <3>1. PICK q \in P, a \in 0..age : \E n \in 1..s[q][a] : new = <<q, a, n>>
      BY <2>1, AdmissionIs
    <3>2. s[p][0] + 1 \in 1..s[q][a] /\ q = p /\ a = 0
      BY <3>1
    <3> QED
      BY <3>2
  <2> QED
    BY <2>1
<1>2. ASSUME NEW x \in Admissions(t, P, age) PROVE x \in Admissions(s, P, age) \cup {new}
  <2>1. PICK q \in P, a \in 0..age : \E n \in 1..t[q][a] : x = <<q, a, n>>
    BY AdmissionIs
  <2>2. PICK n \in 1..t[q][a] : x = <<q, a, n>>
    BY <2>1
  <2>3. CASE q = p /\ a = 0
    <3>1. n \in 1..s[q][a] \/ x = new
      BY <2>2, <2>3
    <3> QED
      BY <2>2, <3>1, AdmissionIs
  <2>4. CASE q # p \/ a # 0
    <3>1. n \in 1..s[q][a]
      BY <2>2, <2>4
    <3> QED
      BY <2>2, <3>1, AdmissionIs
  <2> QED
    BY <2>3, <2>4
<1>3. new \in Admissions(t, P, age)
  <2>1. s[p][0] + 1 \in 1..t[p][0] /\ 0 \in 0..age
    OBVIOUS
  <2> QED
    BY <2>1, AdmissionIs
<1>4. ASSUME NEW x \in Admissions(s, P, age) PROVE x \in Admissions(t, P, age)
  <2>1. PICK q \in P, a \in 0..age : \E n \in 1..s[q][a] : x = <<q, a, n>>
    BY AdmissionIs
  <2>2. PICK n \in 1..s[q][a] : x = <<q, a, n>>
    BY <2>1
  <2>3. n \in 1..t[q][a]
    <3>1. CASE q = p /\ a = 0
      BY <2>2, <3>1
    <3>2. CASE q # p \/ a # 0
      BY <2>2, <3>2
    <3> QED
      BY <3>1, <3>2
  <2> QED
    BY <2>2, <2>3, AdmissionIs
<1>5. Admissions(t, P, age) = Admissions(s, P, age) \cup {new}
  BY <1>2, <1>3, <1>4
<1> HIDE DEF new
<1>6. Cardinality(Admissions(s, P, age) \cup {new})
        = IF new \in Admissions(s, P, age) THEN Cardinality(Admissions(s, P, age))
          ELSE Cardinality(Admissions(s, P, age)) + 1
  BY FS_AddElement
<1> QED
  BY <1>1, <1>5, <1>6

\* A process that admits a request.
LEMMA AdmittedMore ==
    ASSUME ServedOK, NEW P \in SUBSET Processes, NEW p \in P, NEW age \in 0..Window + Patience,
           served' = [served EXCEPT ![p][0] = @ + 1]
    PROVE  Admitted(P, age)' = Admitted(P, age) + 1
<1>1. IsFiniteSet(Admissions(served, P, age)) /\ served[p][0] \in Nat /\ age \in Nat
  BY AdmissionsFinite, LimitAssumption DEF ServedOK
<1>2. /\ served'[p][0] = served[p][0] + 1
      /\ \A q \in P, a \in 0..age : q # p \/ a # 0 => served'[q][a] = served[q][a]
  BY LimitAssumption DEF ServedOK
<1>3. PICK s, t : s = served /\ t = served'
  OBVIOUS
<1>4. /\ IsFiniteSet(Admissions(s, P, age)) /\ s[p][0] \in Nat /\ t[p][0] = s[p][0] + 1
      /\ \A q \in P, a \in 0..age : q # p \/ a # 0 => t[q][a] = s[q][a]
  BY <1>1, <1>2, <1>3
<1>5. Cardinality(Admissions(t, P, age)) = Cardinality(Admissions(s, P, age)) + 1
  BY <1>1, <1>4, OneMoreAdmission
<1> QED
  BY <1>3, <1>5 DEF Admitted

\* The admissions of a second ago.
LEMMA OlderAdmissions ==
    ASSUME NEW s, NEW t, NEW P, NEW age \in Nat,
           IsFiniteSet(Admissions(s, P, age - 1)),
           \A p \in P : t[p][0] = 0,
           \A p \in P, a \in 0..age - 1 : t[p][a + 1] = s[p][a]
    PROVE  Cardinality(Admissions(t, P, age)) = Cardinality(Admissions(s, P, age - 1))
<1> DEFINE S == Admissions(s, P, age - 1)
           T == Admissions(t, P, age)
           f == [x \in S |-> <<x[1], x[2] + 1, x[3]>>]
<1>1. ASSUME NEW x \in S
      PROVE  f[x] \in T /\ x[2] \in Int /\ x = <<x[1], x[2], x[3]>>
  <2>1. PICK p \in P, a \in 0..age - 1 : \E n \in 1..s[p][a] : x = <<p, a, n>>
    BY AdmissionIs
  <2>2. PICK n \in 1..s[p][a] : x = <<p, a, n>>
    BY <2>1
  <2>3. a + 1 \in 0..age /\ t[p][a + 1] = s[p][a]
    OBVIOUS
  <2>4. <<p, a + 1, n>> \in T
    BY <2>2, <2>3, AdmissionIs
  <2>5. f[x] = <<p, a + 1, n>>
    BY <2>2
  <2> QED
    BY <2>2, <2>4, <2>5
<1>2. ASSUME NEW y \in T PROVE \E x \in S : f[x] = y
  <2>1. PICK p \in P, a \in 0..age : \E n \in 1..t[p][a] : y = <<p, a, n>>
    BY AdmissionIs
  <2>2. PICK n \in 1..t[p][a] : y = <<p, a, n>>
    BY <2>1
  <2>3. a # 0
    BY <2>2
  <2>4. PICK b \in 0..age - 1 : a = b + 1
    BY <2>3
  <2>5. n \in 1..s[p][b]
    BY <2>2, <2>4
  <2>6. <<p, b, n>> \in S
    BY <2>5, AdmissionIs
  <2>7. f[<<p, b, n>>] = <<p, b + 1, n>>
    BY <2>6
  <2> QED
    BY <2>2, <2>4, <2>6, <2>7
<1>3. ASSUME NEW x \in S, NEW y \in S, f[x] = f[y] PROVE x = y
  <2>1. /\ x[2] \in Int /\ x = <<x[1], x[2], x[3]>>
        /\ y[2] \in Int /\ y = <<y[1], y[2], y[3]>>
    BY <1>1
  <2>2. <<x[1], x[2] + 1, x[3]>> = <<y[1], y[2] + 1, y[3]>>
    BY <1>3
  <2>3. x[1] = y[1] /\ x[2] = y[2] /\ x[3] = y[3]
    BY <2>1, <2>2
  <2> QED
    BY <2>1, <2>3
<1>4. f \in [S -> T]
  BY <1>1
<1> HIDE DEF S, T, f
<1>5. f \in Bijection(S, T)
  BY <1>2, <1>3, <1>4 DEF Bijection, Injection, Surjection, IsInjective
<1> QED
  BY <1>5, FS_Bijection DEF ExistsBijection, S, T

\* A second passes.
LEMMA AdmittedOlder ==
    ASSUME ServedOK, NEW P \in SUBSET Processes, NEW age \in 0..Window + Patience,
           served' = [p \in Processes |->
                        [a \in DOMAIN NoneServed |-> IF a = 0 THEN 0 ELSE served[p][a - 1]]]
    PROVE  Admitted(P, age)' = Admitted(P, age - 1)
<1>1. IsFiniteSet(Admissions(served, P, age - 1)) /\ age \in Nat
  BY AdmissionsFinite, LimitAssumption
<1>2. \A p \in P : /\ served'[p][0] = 0
                   /\ \A a \in 0..age - 1 : served'[p][a + 1] = served[p][a]
  BY LimitAssumption DEF NoneServed
<1>3. PICK s, t : s = served /\ t = served'
  OBVIOUS
<1>4. /\ IsFiniteSet(Admissions(s, P, age - 1)) /\ \A p \in P : t[p][0] = 0
      /\ \A p \in P, a \in 0..age - 1 : t[p][a + 1] = s[p][a]
  BY <1>1, <1>2, <1>3
<1>5. Cardinality(Admissions(t, P, age)) = Cardinality(Admissions(s, P, age - 1))
  BY <1>1, <1>4, OlderAdmissions
<1> QED
  BY <1>3, <1>5 DEF Admitted


-----------------------------------------------------------------------------
(* Sequences of ages *)

\* The entries of an age or less are finitely many.
LEMMA YoungFinite ==
    ASSUME NEW n \in Nat, NEW s, DOMAIN s = 1..n, NEW age
    PROVE  /\ IsFiniteSet(Young(s, age))
           /\ Cardinality(Young(s, age)) \in Nat /\ Cardinality(Young(s, age)) <= n
<1>1. IsFiniteSet(1..n) /\ Cardinality(1..n) = n
  BY FS_Interval
<1>2. Young(s, age) \in SUBSET (1..n)
  BY DEF Young
<1> QED
  BY <1>1, <1>2, FS_Subset, FS_CardinalityType

\* All of them, if none is older.
LEMMA AllYoung ==
    ASSUME NEW n \in Nat, NEW s, DOMAIN s = 1..n, NEW age, \A i \in 1..n : s[i] <= age
    PROVE  Cardinality(Young(s, age)) = n
<1>1. Young(s, age) = 1..n
  BY DEF Young
<1> QED
  BY <1>1, FS_Interval

\* Without its first c entries a sequence has no more of them, ...
LEMMA YoungDropped ==
    ASSUME NEW n \in Nat, NEW c \in 0..n, NEW s, DOMAIN s = 1..n, NEW t, DOMAIN t = 1..n - c,
           \A i \in 1..n - c : t[i] = s[i + c], NEW age
    PROVE  Cardinality(Young(t, age)) <= Cardinality(Young(s, age))
<1> DEFINE f == [i \in Young(t, age) |-> i + c]
<1>1. \A i \in Young(t, age) : i \in Int /\ i + c \in Young(s, age)
  BY DEF Young
<1>2. f \in Injection(Young(t, age), Young(s, age))
  BY <1>1 DEF Injection, IsInjective
<1>3. IsFiniteSet(Young(s, age))
  BY YoungFinite
<1> QED
  BY <1>2, <1>3, FS_Injection

\* ... and as many, if those were older.
LEMMA YoungKept ==
    ASSUME NEW n \in Nat, NEW c \in 0..n, NEW s, DOMAIN s = 1..n, NEW t, DOMAIN t = 1..n - c,
           \A i \in 1..n - c : t[i] = s[i + c], NEW age, \A i \in 1..c : ~(s[i] <= age)
    PROVE  Cardinality(Young(s, age)) <= Cardinality(Young(t, age))
<1> DEFINE f == [i \in Young(s, age) |-> i - c]
<1>1. ASSUME NEW i \in Young(s, age) PROVE i \in Int /\ i - c \in Young(t, age)
  <2>1. i \in 1..n /\ i \notin 1..c /\ s[i] <= age
    BY DEF Young
  <2>2. i - c \in 1..n - c /\ t[i - c] = s[i]
    BY <2>1
  <2> QED
    BY <2>1, <2>2 DEF Young
<1>2. f \in Injection(Young(s, age), Young(t, age))
  BY <1>1 DEF Injection, IsInjective
<1>3. IsFiniteSet(Young(t, age))
  BY YoungFinite
<1> QED
  BY <1>2, <1>3, FS_Injection

\* A new entry is one more.
LEMMA YoungAppended ==
    ASSUME NEW n \in Nat, NEW s, DOMAIN s = 1..n, NEW t, DOMAIN t = 1..n + 1,
           \A i \in 1..n : t[i] = s[i], NEW age \in Nat, t[n + 1] <= age
    PROVE  Cardinality(Young(t, age)) = Cardinality(Young(s, age)) + 1
<1>1. Young(t, age) = Young(s, age) \cup {n + 1} /\ n + 1 \notin Young(s, age)
  BY DEF Young
<1>2. IsFiniteSet(Young(s, age))
  BY YoungFinite
<1> QED
  BY <1>1, <1>2, FS_AddElement

\* A second later they are those of one second less.
LEMMA YoungOlder ==
    ASSUME NEW s, NEW t, DOMAIN t = DOMAIN s, \A i \in DOMAIN s : s[i] \in 0..Old /\ t[i] = Aged(s[i]),
           NEW age \in 0..Window + Patience
    PROVE  Young(t, age) = Young(s, age - 1)
BY LimitAssumption DEF Young, Aged, Old

\* What popleft leaves of a deque: entries of the window and younger ones.
LEMMA Trimmed ==
    ASSUME NEW s \in Seq(0..Old)
    PROVE  \E c \in 0..Len(s) :
              /\ Recent(s) = SubSeq(s, c + 1, Len(s))
              /\ Recent(s) \in Seq(0..Old) /\ Len(Recent(s)) = Len(s) - c
              /\ \A i \in 1..Len(s) - c : Recent(s)[i] = s[i + c]
              /\ \A i \in 1..c : s[i] > Window
              /\ c < Len(s) => s[c + 1] <= Window
<1> DEFINE c == Cardinality(Past(s))
           n == Len(s)
<1>1. n \in Nat /\ DOMAIN s = 1..n /\ \A i \in 1..n : s[i] \in 0..Old
  BY LenProperties, ElementOfSeq
<1>2. IsFiniteSet(1..n) /\ Cardinality(1..n) = n
  <2>1. \A j \in Nat : IsFiniteSet(1..j) /\ Cardinality(1..j) = IF 1 > j THEN 0 ELSE j - 1 + 1
    BY FS_Interval
  <2>2. \A j \in Nat : (IF 1 > j THEN 0 ELSE j - 1 + 1) = j
    OBVIOUS
  <2> QED
    BY <1>1, <2>1, <2>2
<1>3. Past(s) \in SUBSET (1..n)
  BY <1>1 DEF Past
<1>4. IsFiniteSet(Past(s)) /\ c \in 0..n
  BY <1>1, <1>2, <1>3, FS_Subset, FS_CardinalityType
<1> HIDE DEF c, n
<1>5. ASSUME NEW i \in Past(s) PROVE i \in 1..c
  <2>1. i \in 1..n /\ 1..i \in SUBSET Past(s)
    BY <1>1, <1>3 DEF Past
  <2>2. Cardinality(1..i) = i
    BY <1>1, <2>1, FS_Interval
  <2>3. i <= c
    BY <1>4, <2>1, <2>2, FS_Subset DEF c
  <2> QED
    BY <2>1, <2>3, <1>1, <1>4
<1>6. Past(s) = 1..c
  <2>1. IsFiniteSet(1..c) /\ Cardinality(1..c) = c
    BY <1>4, FS_Interval
  <2>2. Past(s) \in SUBSET (1..c)
    BY <1>5
  <2> QED
    BY <2>1, <2>2, FS_Subset DEF c
<1>7. ASSUME NEW i \in 1..c PROVE s[i] > Window
  <2>1. i \in Past(s) /\ i \in 1..i
    BY <1>4, <1>6
  <2> QED
    BY <2>1 DEF Past
<1>8. c < n => s[c + 1] <= Window
  <2> SUFFICES ASSUME c < n, ~(s[c + 1] <= Window) PROVE FALSE
    OBVIOUS
  <2>1. s[c + 1] > Window
    BY <1>1, <1>4, LimitAssumption DEF Old
  <2>2. c + 1 \in Past(s)
    BY <1>1, <1>4, <1>7, <2>1 DEF Past
  <2> QED
    BY <1>4, <1>6, <2>2
<1>9. Recent(s) = SubSeq(s, c + 1, n)
  BY DEF Recent, c, n
<1>10. /\ Recent(s) \in Seq(0..Old) /\ Len(Recent(s)) = n - c
       /\ \A i \in 1..n - c : Recent(s)[i] = s[i + c]
  BY <1>1, <1>4, <1>9, SubSeqProperties
<1> QED
  BY <1>4, <1>7, <1>8, <1>9, <1>10 DEF n

-----------------------------------------------------------------------------
(* Types *)

\* What LimitTypeOK says, but for the length of the deques, which DequeBounded bounds.
Typed ==
    /\ kind \in Kinds
    /\ home \in [Workers -> Processes]
    /\ hits \in [Processes -> Seq(0..Old)]
    /\ link \in [Processes -> {"untried", "up", "down"}]
    /\ count \in 0..Limit + 1
    /\ ttl \in 0..Window
    /\ gate \in [Workers -> Gates]
    /\ seen \in [Workers -> 0..Patience]
    /\ ServedOK
    /\ lost \in BOOLEAN

\* Workers and processes do not change.
Static == kind' = kind /\ home' = home

\* Where a thread may go next.
Onward(w) ==
    \E from, to \in Gates :
        /\ Pass(w, from, to)
        /\ to \in Timed => kind = "unlocked"
        /\ to \in {"connect", "ping", "return", "incr", "expire"} => Redis

\* It arrives at a gate of its limiter.
LEMMA OnwardFits ==
    ASSUME Typed, GatesFit, Static, NEW w \in Workers, Onward(w)
    PROVE  gate' \in [Workers -> Gates] /\ GatesFit'
BY DEF Typed, GatesFit, Static, Onward, Pass, Redis

\* A thread of a limiter in memory, at its gates, ...
LEMMA MemoryOnward ==
    ASSUME Typed, GatesFit, NEW w \in Workers,
           \/ Arrive(w) \/ AllowLocked(w) \/ RefuseLocked(w) \/ ReadClock(w) \/ Peek(w)
           \/ LookAtHead(w) \/ Pop(w) \/ CountHits(w) \/ AppendHit(w) \/ Leave(w)
    PROVE  Static /\ Onward(w)
<1>1. CASE Arrive(w) \/ AllowLocked(w) \/ RefuseLocked(w) \/ ReadClock(w)
  BY <1>1 DEF Arrive, AllowLocked, RefuseLocked, ReadClock, Admit, Refuse, Onward, Static, config,
              Gates, Timed
<1>2. CASE Peek(w) \/ LookAtHead(w) \/ Pop(w)
  <2>1. gate[w] \in Timed /\ Static
    BY <1>2 DEF Peek, LookAtHead, Pop, Emptied, Pass, Timed, Static, config
  <2>2. kind = "unlocked"
    BY <2>1 DEF GatesFit
  <2> QED
    BY <1>2, <2>1, <2>2 DEF Peek, LookAtHead, Pop, Emptied, Onward, Gates, Timed
<1>3. CASE CountHits(w) \/ AppendHit(w)
  <2>1. gate[w] \in Timed /\ Static
    BY <1>3 DEF CountHits, AppendHit, Admit, Refuse, Pass, Timed, Static, config
  <2>2. kind = "unlocked"
    BY <2>1 DEF GatesFit
  <2> QED
    BY <1>3, <2>1, <2>2 DEF CountHits, AppendHit, Admit, Refuse, Onward, Gates, Timed
<1>4. CASE Leave(w)
  <2>1. gate[w] \in Gates /\ Pass(w, gate[w], "out")
    BY <1>4 DEF Leave, Pass, Gates
  <2> QED
    BY <1>4, <2>1 DEF Leave, Onward, Static, config, Gates, Timed
<1> QED
  BY <1>1, <1>2, <1>3, <1>4

\* ... and one of the Redis limiter.
LEMMA RedisOnward ==
    ASSUME Typed, GatesFit, NEW w \in Workers,
           \/ Ask(w) \/ Connect(w) \/ Ping(w) \/ Return(w)
           \/ Incr(w) \/ IncrFails(w) \/ Expire(w) \/ ExpireFails(w)
    PROVE  Static /\ Onward(w) /\ Redis
<1>1. CASE Ask(w)
  BY <1>1 DEF Ask, Reads, Unavailable, Onward, Static, config, Gates, Timed
<1>2. CASE Connect(w) \/ Ping(w) \/ Return(w)
  <2>1. gate[w] \in {"connect", "ping", "return"} /\ Static
    BY <1>2 DEF Connect, Ping, Return, Reads, Unavailable, Pass, Static, config
  <2>2. Redis
    BY <2>1 DEF GatesFit
  <2> QED
    BY <1>2, <2>1, <2>2 DEF Connect, Ping, Return, Reads, Unavailable, Onward, Gates, Timed
<1>3. CASE Incr(w) \/ IncrFails(w) \/ Expire(w) \/ ExpireFails(w)
  <2>1. gate[w] \in {"incr", "expire"} /\ Static
    BY <1>3 DEF Incr, IncrFails, Expire, ExpireFails, Admit, Refuse, Unavailable, Pass, Static,
                config
  <2>2. Redis
    BY <2>1 DEF GatesFit
  <2> QED
    BY <1>3, <2>1, <2>2 DEF Incr, IncrFails, Expire, ExpireFails, Admit, Refuse, Unavailable,
                            Onward, Gates, Timed
<1> QED
  BY <1>1, <1>2, <1>3

\* Admitting a request.
LEMMA AdmitTyped ==
    ASSUME Typed, NEW w \in Workers, NEW from, Admit(w, from)
    PROVE  ServedOK' /\ served' = [served EXCEPT ![home[w]][0] = @ + 1]
<1>1. served' = [served EXCEPT ![home[w]][0] = @ + 1]
  BY DEF Admit
<1>2. home[w] \in Processes /\ served[home[w]] \in [0..Window + Patience -> Nat]
  BY DEF Typed, ServedOK
<1>3. served[home[w]][0] \in Nat
  BY <1>2, LimitAssumption
<1>4. [served[home[w]] EXCEPT ![0] = @ + 1] \in [0..Window + Patience -> Nat]
  <2>1. PICK n \in Nat : n = served[home[w]][0] + 1
    BY <1>3
  <2>2. [served[home[w]] EXCEPT ![0] = n] \in [0..Window + Patience -> Nat]
    BY <1>2
  <2> QED
    BY <2>1, <2>2
<1> QED
  BY <1>1, <1>2, <1>4 DEF Typed, ServedOK

\* The types in the steps of the limiters in memory, ...
LEMMA MemoryTyped ==
    ASSUME Typed, GatesFit, NEW w \in Workers,
           \/ Arrive(w) \/ AllowLocked(w) \/ RefuseLocked(w) \/ ReadClock(w) \/ Peek(w)
           \/ LookAtHead(w) \/ Pop(w) \/ CountHits(w) \/ AppendHit(w) \/ Leave(w)
    PROVE  Typed' /\ GatesFit'
<1>0. /\ Static /\ gate' \in [Workers -> Gates] /\ GatesFit'
      /\ home[w] \in Processes /\ hits[home[w]] \in Seq(0..Old)
  BY MemoryOnward, OnwardFits DEF Typed
<1>1. UNCHANGED redisVars
  BY DEF Arrive, AllowLocked, RefuseLocked, ReadClock, Peek, LookAtHead, Pop, CountHits, AppendHit,
         Leave
<1>2. hits' \in [Processes -> Seq(0..Old)]
  <2>1. CASE AllowLocked(w) \/ RefuseLocked(w)
    <3>1. Recent(hits[home[w]]) \in Seq(0..Old) /\ 0 \in 0..Old
      BY <1>0, Trimmed, LimitAssumption DEF Old
    <3>2. Append(Recent(hits[home[w]]), 0) \in Seq(0..Old)
      BY <3>1, AppendProperties
    <3>3. hits' = [hits EXCEPT ![home[w]] = Append(Recent(hits[home[w]]), 0)]
          \/ hits' = [hits EXCEPT ![home[w]] = Recent(hits[home[w]])]
      BY <2>1, <1>0 DEF AllowLocked, RefuseLocked, Typed
    <3> QED
      BY <3>1, <3>2, <3>3 DEF Typed
  <2>2. CASE Pop(w)
    <3>1. hits[home[w]] # <<>> => Tail(hits[home[w]]) \in Seq(0..Old)
      BY <1>0, HeadTailProperties
    <3> QED
      BY <2>2, <3>1 DEF Pop, Emptied, Typed
  <2>3. CASE AppendHit(w)
    <3>1. seen[w] \in 0..Old
      BY LimitAssumption DEF Typed, Old
    <3>2. Append(hits[home[w]], seen[w]) \in Seq(0..Old)
      BY <1>0, <3>1, AppendProperties
    <3> QED
      BY <2>3, <3>2 DEF AppendHit, Typed
  <2>4. CASE \/ Arrive(w) \/ ReadClock(w) \/ Peek(w) \/ LookAtHead(w) \/ CountHits(w) \/ Leave(w)
    BY <2>4 DEF Arrive, ReadClock, Peek, LookAtHead, Emptied, CountHits, Leave, memoryVars, Typed
  <2> QED
    BY <2>1, <2>2, <2>3, <2>4
<1>3. seen' \in [Workers -> 0..Patience]
  <2>1. seen' = seen \/ seen' = [seen EXCEPT ![w] = 0]
    BY DEF Arrive, AllowLocked, RefuseLocked, ReadClock, Peek, LookAtHead, Pop, CountHits,
           AppendHit, Leave, memoryVars
  <2>2. seen \in [Workers -> 0..Patience] /\ 0 \in 0..Patience
    BY LimitAssumption DEF Typed
  <2> QED
    BY <2>1, <2>2
<1>4. ServedOK'
  <2>1. CASE AllowLocked(w) \/ AppendHit(w)
    BY <2>1, AdmitTyped DEF AllowLocked, AppendHit
  <2>2. CASE \/ Arrive(w) \/ RefuseLocked(w) \/ ReadClock(w) \/ Peek(w) \/ LookAtHead(w)
             \/ Pop(w) \/ CountHits(w) \/ Leave(w)
    BY <2>2 DEF Arrive, RefuseLocked, ReadClock, Peek, LookAtHead, Pop, CountHits, Leave, Refuse,
                Typed, ServedOK
  <2> QED
    BY <2>1, <2>2
<1> QED
  BY <1>0, <1>1, <1>2, <1>3, <1>4 DEF Typed, Static, redisVars

\* ... and of the Redis limiter.
LEMMA RedisTyped ==
    ASSUME Typed, GatesFit, NEW w \in Workers,
           \/ Ask(w) \/ Connect(w) \/ Ping(w) \/ Return(w)
           \/ Incr(w) \/ IncrFails(w) \/ Expire(w) \/ ExpireFails(w)
    PROVE  Typed' /\ GatesFit' /\ UNCHANGED memoryVars
<1>0. Static /\ gate' \in [Workers -> Gates] /\ GatesFit' /\ home[w] \in Processes
  BY RedisOnward, OnwardFits DEF Typed
<1>1. UNCHANGED memoryVars
  BY DEF Ask, Connect, Ping, Return, Incr, IncrFails, Expire, ExpireFails
<1>2. link' \in [Processes -> {"untried", "up", "down"}]
  BY <1>0 DEF Ask, Connect, Ping, Return, Incr, IncrFails, Expire, ExpireFails, redisVars, Typed
<1>3. Incremented \in 0..Limit + 1
  BY LimitAssumption DEF Typed, Incremented
<1>4. count' \in 0..Limit + 1 /\ ttl' \in 0..Window /\ lost' \in BOOLEAN
  <2>1. CASE Ask(w) \/ Connect(w) \/ Ping(w) \/ Return(w)
    BY <2>1 DEF Ask, Connect, Ping, Return, redisVars, Typed
  <2>2. CASE Incr(w) \/ IncrFails(w)
    BY <1>3, <2>2 DEF Incr, IncrFails, Typed
  <2>3. CASE Expire(w) \/ ExpireFails(w)
    <3>1. count' = count /\ ttl' \in {ttl, Window} /\ lost' \in {lost, TRUE}
      BY <2>3 DEF Expire, ExpireFails
    <3>2. Window \in 0..Window /\ ttl \in 0..Window /\ count \in 0..Limit + 1 /\ lost \in BOOLEAN
      BY LimitAssumption DEF Typed
    <3> QED
      BY <3>1, <3>2
  <2> QED
    BY <2>1, <2>2, <2>3
<1>5. ServedOK'
  <2>1. CASE \E from \in Gates : Admit(w, from)
    BY <2>1, AdmitTyped
  <2>2. CASE UNCHANGED served
    BY <2>2 DEF Typed, ServedOK
  <2>3. (\E from \in Gates : Admit(w, from)) \/ UNCHANGED served
    BY DEF Ask, Connect, Ping, Return, Reads, Incr, IncrFails, Expire, ExpireFails, Unavailable,
           Refuse, Gates
  <2> QED
    BY <2>1, <2>2, <2>3
<1> QED
  BY <1>0, <1>1, <1>2, <1>4, <1>5 DEF Typed, Static, memoryVars

\* A restart, a second, and no step.
LEMMA OtherTyped ==
    ASSUME Typed, GatesFit, (\E p \in Processes : Restart(p)) \/ PassSecond \/ UNCHANGED limitVars
    PROVE  Typed' /\ GatesFit' /\ Static
<1>1. ASSUME NEW p \in Processes, Restart(p) PROVE Typed' /\ GatesFit' /\ Static
  <2>1. /\ Static /\ UNCHANGED <<count, ttl>>
        /\ gate' = [w \in Workers |-> IF home[w] = p THEN "out" ELSE gate[w]]
        /\ seen' = [w \in Workers |-> IF home[w] = p THEN 0 ELSE seen[w]]
        /\ hits' = [hits EXCEPT ![p] = <<>>]
        /\ link' = [link EXCEPT ![p] = "untried"]
        /\ served' = IF Redis THEN served ELSE [served EXCEPT ![p] = NoneServed]
        /\ lost' \in BOOLEAN
    BY <1>1 DEF Restart, Static, config
  <2>2. gate' \in [Workers -> Gates] /\ GatesFit'
    BY <2>1 DEF Typed, GatesFit, Static, Redis, Gates, Timed
  <2>3. NoneServed \in [0..Window + Patience -> Nat]
    BY DEF NoneServed
  <2>4. ServedOK'
    BY <2>1, <2>3 DEF Typed, ServedOK
  <2>5. seen' \in [Workers -> 0..Patience]
    BY <2>1, LimitAssumption DEF Typed
  <2> QED
    BY <2>1, <2>2, <2>4, <2>5, EmptySeq DEF Typed, Static
<1>2. CASE PassSecond
  <2>1. /\ Static /\ UNCHANGED <<link, gate, lost>>
        /\ \A w \in Workers : gate[w] \in Timed => seen[w] < Patience
        /\ hits' = [p \in Processes |-> [i \in DOMAIN hits[p] |-> Aged(hits[p][i])]]
        /\ seen' = [w \in Workers |-> IF gate[w] \in Timed THEN seen[w] + 1 ELSE 0]
        /\ count' = IF ttl = 1 THEN 0 ELSE count
        /\ ttl' = IF ttl > 0 THEN ttl - 1 ELSE ttl
    BY <1>2 DEF PassSecond, Static, config
  <2>2. GatesFit'
    BY <2>1 DEF GatesFit, Static, Redis
  <2>3. ASSUME NEW p \in Processes PROVE hits'[p] \in Seq(0..Old)
    <3>1. PICK s \in Seq(0..Old) : s = hits[p]
      BY DEF Typed
    <3>2. /\ hits'[p] = [i \in 1..Len(s) |-> Aged(s[i])] /\ Len(s) \in Nat
          /\ \A i \in 1..Len(s) : Aged(s[i]) \in 0..Old
      BY <2>1, <3>1, LenProperties, ElementOfSeq, LimitAssumption DEF Aged, Old
    <3> QED
      BY <3>2, IsASeq
  <2>4. ServedOK'
    BY <1>2, LimitAssumption DEF PassSecond, Typed, ServedOK, NoneServed
  <2>5. seen' \in [Workers -> 0..Patience]
    BY <2>1, LimitAssumption DEF Typed
  <2>6. count' \in 0..Limit + 1 /\ ttl' \in 0..Window
    <3>1. count' \in {0, count} /\ ttl' \in {ttl, ttl - 1} /\ (ttl' = ttl - 1 => ttl > 0)
      BY <2>1 DEF Typed
    <3>2. count \in 0..Limit + 1 /\ 0 \in 0..Limit + 1
      BY LimitAssumption DEF Typed
    <3>3. count' \in 0..Limit + 1
      BY <3>1, <3>2
    <3>4. ttl \in 0..Window /\ Window \in Int
      BY LimitAssumption DEF Typed
    <3>5. ttl' \in 0..Window
      BY <3>1, <3>4
    <3> QED
      BY <3>3, <3>5
  <2>7. hits' \in [Processes -> Seq(0..Old)]
    BY <2>1, <2>3
  <2> QED
    BY <2>1, <2>2, <2>4, <2>5, <2>6, <2>7 DEF Typed, Static
<1>3. CASE UNCHANGED limitVars
  BY <1>3 DEF limitVars, config, memoryVars, redisVars, Typed, ServedOK, GatesFit, Redis, Static
<1> QED
  BY <1>1, <1>2, <1>3

-----------------------------------------------------------------------------
(* What a step of one thread leaves alone *)

WorkerStep(w) == Arrive(w) \/ InLimiter(w) \/ Leave(w)

LEMMA WorkerTyped ==
    ASSUME Typed, GatesFit, NEW w \in Workers, WorkerStep(w)
    PROVE  Typed' /\ GatesFit' /\ Static /\ Onward(w)
<1>1. \/ \/ Arrive(w) \/ AllowLocked(w) \/ RefuseLocked(w) \/ ReadClock(w) \/ Peek(w)
         \/ LookAtHead(w) \/ Pop(w) \/ CountHits(w) \/ AppendHit(w) \/ Leave(w)
      \/ \/ Ask(w) \/ Connect(w) \/ Ping(w) \/ Return(w)
         \/ Incr(w) \/ IncrFails(w) \/ Expire(w) \/ ExpireFails(w)
  BY DEF WorkerStep, InLimiter
<1> QED
  BY <1>1, MemoryOnward, MemoryTyped, RedisOnward, RedisTyped

\* A step admits its own request, or none; ...
LEMMA AdmitsOrNot ==
    ASSUME NEW w \in Workers, WorkerStep(w)
    PROVE  UNCHANGED served \/ \E from \in Gates : Admit(w, from)
<1>1. CASE \/ Arrive(w) \/ AllowLocked(w) \/ RefuseLocked(w) \/ ReadClock(w) \/ Peek(w)
           \/ LookAtHead(w) \/ Pop(w) \/ CountHits(w) \/ AppendHit(w) \/ Leave(w)
  BY <1>1 DEF Arrive, AllowLocked, RefuseLocked, ReadClock, Peek, LookAtHead, Pop, CountHits,
              AppendHit, Leave, Refuse, Gates, Timed
<1>2. CASE \/ Ask(w) \/ Connect(w) \/ Ping(w) \/ Return(w)
           \/ Incr(w) \/ IncrFails(w) \/ Expire(w) \/ ExpireFails(w)
  BY <1>2 DEF Ask, Connect, Ping, Return, Reads, Incr, IncrFails, Expire, ExpireFails,
              Unavailable, Refuse, Gates
<1> QED
  BY <1>1, <1>2 DEF WorkerStep, InLimiter

\* ... it leaves alone the deques and the accounts of other processes, ...
LEMMA ElsewhereSame ==
    ASSUME Typed, GatesFit, NEW w \in Workers, WorkerStep(w),
           NEW q \in Processes, q # home[w]
    PROVE  hits'[q] = hits[q] /\ served'[q] = served[q]
<1>1. hits'[q] = hits[q]
  <2>1. CASE AllowLocked(w) \/ RefuseLocked(w) \/ Pop(w) \/ AppendHit(w)
    BY <2>1 DEF AllowLocked, RefuseLocked, Pop, Emptied, AppendHit, Typed
  <2>2. CASE \/ Arrive(w) \/ ReadClock(w) \/ Peek(w) \/ LookAtHead(w) \/ CountHits(w) \/ Leave(w)
    BY <2>2 DEF Arrive, ReadClock, Peek, LookAtHead, Emptied, CountHits, Leave, memoryVars
  <2>3. CASE \/ Ask(w) \/ Connect(w) \/ Ping(w) \/ Return(w)
             \/ Incr(w) \/ IncrFails(w) \/ Expire(w) \/ ExpireFails(w)
    BY <2>3 DEF Ask, Connect, Ping, Return, Incr, IncrFails, Expire, ExpireFails, memoryVars
  <2> QED
    BY <2>1, <2>2, <2>3 DEF WorkerStep, InLimiter
<1>2. UNCHANGED served \/ \E from \in Gates : Admit(w, from)
  BY AdmitsOrNot
<1>3. served'[q] = served[q]
  <2>1. CASE \E from \in Gates : Admit(w, from)
    BY <2>1 DEF Admit, Typed, ServedOK
  <2> QED
    BY <1>2, <2>1
<1> QED
  BY <1>1, <1>3

\* ... and the gates and the readings of the other threads.
LEMMA OthersSame ==
    ASSUME Typed, GatesFit, NEW w \in Workers, WorkerStep(w), NEW v \in Workers, v # w
    PROVE  gate'[v] = gate[v] /\ seen'[v] = seen[v]
<1>1. gate'[v] = gate[v]
  BY WorkerTyped DEF Onward, Pass, Typed
<1>2. seen' = seen \/ seen' = [seen EXCEPT ![w] = 0]
  <2>1. CASE \/ Arrive(w) \/ AllowLocked(w) \/ RefuseLocked(w) \/ ReadClock(w) \/ Peek(w)
             \/ LookAtHead(w) \/ Pop(w) \/ CountHits(w) \/ AppendHit(w) \/ Leave(w)
    BY <2>1 DEF Arrive, AllowLocked, RefuseLocked, ReadClock, Peek, LookAtHead, Pop, CountHits,
                AppendHit, Leave, memoryVars
  <2>2. CASE \/ Ask(w) \/ Connect(w) \/ Ping(w) \/ Return(w)
             \/ Incr(w) \/ IncrFails(w) \/ Expire(w) \/ ExpireFails(w)
    BY <2>2 DEF Ask, Connect, Ping, Return, Incr, IncrFails, Expire, ExpireFails, memoryVars
  <2> QED
    BY <2>1, <2>2 DEF WorkerStep, InLimiter
<1> QED
  BY <1>1, <1>2 DEF Typed

-----------------------------------------------------------------------------
(* The length of a deque *)

\* DequeBounded, of one process.
DequeFits(p) == Len(hits[p]) + Cardinality(Appending(p)) < Limit + Cardinality(Threads(p))

\* Of the threads, those about to append are some, and not those at another gate.
LEMMA AppendingBounded ==
    ASSUME NEW p \in Processes
    PROVE  /\ IsFiniteSet(Appending(p))
           /\ Cardinality(Threads(p)) \in Nat /\ Cardinality(Appending(p)) \in Nat
           /\ Cardinality(Appending(p)) <= Cardinality(Threads(p))
           /\ \A w \in Threads(p) :
                 gate[w] # "append" => Cardinality(Appending(p)) < Cardinality(Threads(p))
<1>1. Threads(p) \in SUBSET Workers /\ Appending(p) \in SUBSET Threads(p)
  BY DEF Threads, Appending
<1>2. IsFiniteSet(Threads(p)) /\ Cardinality(Threads(p)) \in Nat
  BY <1>1, FS_Subset, FS_CardinalityType, LimitAssumption
<1>3. /\ IsFiniteSet(Appending(p)) /\ Cardinality(Appending(p)) \in Nat
      /\ Cardinality(Appending(p)) <= Cardinality(Threads(p))
  BY <1>1, <1>2, FS_Subset, FS_CardinalityType
<1>4. ASSUME NEW w \in Threads(p), gate[w] # "append"
      PROVE  Cardinality(Appending(p)) < Cardinality(Threads(p))
  <2>1. Appending(p) # Threads(p)
    BY <1>4 DEF Appending
  <2>2. Cardinality(Appending(p)) # Cardinality(Threads(p))
    BY <1>1, <1>2, <2>1, FS_Subset
  <2> QED
    BY <1>2, <1>3, <2>2
<1> QED
  BY <1>2, <1>3, <1>4

\* A thread that does not go there, ...
LEMMA AppendingStays ==
    ASSUME Typed, Static, NEW w \in Workers, NEW from, NEW to, Pass(w, from, to),
           NEW p \in Processes, home[w] # p \/ (from # "append" /\ to # "append")
    PROVE  Appending(p)' = Appending(p) /\ Threads(p)' = Threads(p)
BY DEF Appending, Threads, Pass, Typed, Static

\* ... one that does, ...
LEMMA AppendingGrows ==
    ASSUME Typed, Static, NEW w \in Workers, NEW from, Pass(w, from, "append"), from # "append",
           NEW p \in Processes, p = home[w]
    PROVE  /\ Cardinality(Appending(p)') = Cardinality(Appending(p)) + 1
           /\ Threads(p)' = Threads(p)
<1>1. /\ Appending(p)' = Appending(p) \cup {w} /\ w \notin Appending(p)
      /\ Threads(p)' = Threads(p)
  BY DEF Appending, Threads, Pass, Typed, Static
<1>2. IsFiniteSet(Appending(p))
  BY AppendingBounded
<1>3. Cardinality(Appending(p) \cup {w}) = Cardinality(Appending(p)) + 1
  BY <1>1, <1>2, FS_AddElement
<1> QED
  BY <1>1, <1>3

\* ... and one that leaves.
LEMMA AppendingShrinks ==
    ASSUME Typed, Static, NEW w \in Workers, NEW to, Pass(w, "append", to), to # "append",
           NEW p \in Processes, p = home[w]
    PROVE  /\ Cardinality(Appending(p)') = Cardinality(Appending(p)) - 1
           /\ Threads(p)' = Threads(p)
<1>1. /\ Appending(p)' = Appending(p) \ {w} /\ w \in Appending(p)
      /\ Threads(p)' = Threads(p)
  BY DEF Appending, Threads, Pass, Typed, Static
<1>2. IsFiniteSet(Appending(p))
  BY AppendingBounded
<1>3. Cardinality(Appending(p) \ {w}) = Cardinality(Appending(p)) - 1
  BY <1>1, <1>2, FS_RemoveElement
<1> QED
  BY <1>1, <1>3

\* The steps of a thread keep the bound of its process, ...
LEMMA HomeDeque ==
    ASSUME Typed, GatesFit, DequeBounded, NEW w \in Workers, WorkerStep(w),
           NEW p \in Processes, p = home[w]
    PROVE  DequeFits(p)'
<1>0. Typed' /\ Static /\ w \in Threads(p)
  BY WorkerTyped DEF Typed, Threads
<1> DEFINE L == Len(hits[p])
           A == Cardinality(Appending(p))
           T == Cardinality(Threads(p))
<1>2. /\ L \in Nat /\ A \in Nat /\ T \in Nat /\ A <= T /\ Limit \in Nat /\ L + A < Limit + T
      /\ gate[w] # "append" => A < T
      /\ hits[p] \in Seq(0..Old)
  <2>1. hits[p] \in Seq(0..Old) /\ p \in Processes
    BY <1>0 DEF Typed
  <2>2. L \in Nat /\ L + A < Limit + T
    BY <2>1, LenProperties DEF DequeBounded
  <2> QED
    BY <1>0, <2>1, <2>2, AppendingBounded, LimitAssumption
<1>3. ASSUME NEW from \in Gates, NEW to \in Gates, Pass(w, from, to),
             from # "append", to # "append", Len(hits'[p]) \in Nat,
             Len(hits'[p]) <= L \/ Len(hits'[p]) <= Limit
      PROVE  DequeFits(p)'
  <2>1. Appending(p)' = Appending(p) /\ Threads(p)' = Threads(p) /\ gate[w] = from
    BY <1>0, <1>3, AppendingStays DEF Pass
  <2>2. PICK k \in Nat : k = Len(hits'[p])
    BY <1>3
  <2> HIDE DEF L, A, T
  <2>3. k + A < Limit + T
    BY <1>2, <1>3, <2>1, <2>2
  <2> QED
    BY <2>1, <2>2, <2>3 DEF DequeFits, A, T
<1>4. CASE AllowLocked(w) \/ RefuseLocked(w)
  <2>1. /\ Recent(hits[p]) \in Seq(0..Old) /\ Len(Recent(hits[p])) \in Nat
        /\ Len(Recent(hits[p])) <= L
    <3>1. PICK c \in 0..L : Recent(hits[p]) \in Seq(0..Old) /\ Len(Recent(hits[p])) = L - c
      BY <1>2, Trimmed
    <3> HIDE DEF L
    <3> QED
      BY <1>2, <3>1
  <2>2. /\ Append(Recent(hits[p]), 0) \in Seq(0..Old)
        /\ Len(Append(Recent(hits[p]), 0)) = Len(Recent(hits[p])) + 1
    BY <2>1, AppendProperties, LimitAssumption DEF Old
  <2>3. CASE AllowLocked(w)
    <3>1. Pass(w, "ask", "in") /\ hits'[p] = Append(Recent(hits[p]), 0) /\ Len(Recent(hits[p])) < Limit
      BY <1>0, <2>3 DEF AllowLocked, Admit, Typed
    <3>2. Len(hits'[p]) \in Nat /\ Len(hits'[p]) <= Limit
      BY <1>2, <2>1, <2>2, <3>1
    <3> QED
      BY <1>3, <3>1, <3>2 DEF Gates
  <2>4. CASE RefuseLocked(w)
    <3>1. Pass(w, "ask", "refused") /\ hits'[p] = Recent(hits[p])
      BY <1>0, <2>4 DEF RefuseLocked, Refuse, Typed
    <3> QED
      BY <1>3, <2>1, <3>1 DEF Gates
  <2> QED
    BY <1>4, <2>3, <2>4
<1>5. CASE CountHits(w)
  <2>1. hits'[p] = hits[p]
    BY <1>5 DEF CountHits, memoryVars
  <2>2. CASE Pass(w, "count", "refused")
    BY <1>2, <1>3, <2>1, <2>2 DEF Gates, Timed
  <2>3. CASE Pass(w, "count", "append") /\ L < Limit
    <3>1. Cardinality(Appending(p)') = A + 1 /\ Threads(p)' = Threads(p) /\ gate[w] # "append"
      BY <1>0, <2>3, AppendingGrows DEF Pass
    <3> HIDE DEF L, A, T
    <3>2. L + (A + 1) < Limit + T
      BY <1>2, <2>3, <3>1
    <3> QED
      BY <2>1, <3>1, <3>2 DEF DequeFits, L, A, T
  <2> QED
    BY <1>5, <2>2, <2>3 DEF CountHits, Refuse
<1>6. CASE AppendHit(w)
  <2>1. hits'[p] = Append(hits[p], seen[w]) /\ Pass(w, "append", "in")
    BY <1>0, <1>6 DEF AppendHit, Admit, Typed
  <2>2. Len(hits'[p]) = L + 1
    <3>1. seen[w] \in 0..Old
      BY LimitAssumption DEF Typed, Old
    <3> QED
      BY <1>2, <2>1, <3>1, AppendProperties
  <2>3. Cardinality(Appending(p)') = A - 1 /\ Threads(p)' = Threads(p)
    BY <1>0, <2>1, AppendingShrinks
  <2> HIDE DEF L, A, T
  <2>4. (L + 1) + (A - 1) < Limit + T
    BY <1>2
  <2> QED
    BY <2>2, <2>3, <2>4 DEF DequeFits, L, A, T
<1>7. CASE Peek(w) \/ LookAtHead(w) \/ Pop(w)
  <2>1. \E from \in Gates, to \in Gates : Pass(w, from, to) /\ from # "append" /\ to # "append"
    BY <1>7 DEF Peek, LookAtHead, Pop, Emptied, Gates, Timed
  <2>2. Len(hits'[p]) \in Nat /\ Len(hits'[p]) <= L
    <3>1. hits[p] # <<>> => Len(Tail(hits[p])) \in Nat /\ Len(Tail(hits[p])) <= L
      BY <1>2, HeadTailProperties, LenProperties
    <3>2. hits'[p] = hits[p] \/ (hits[p] # <<>> /\ hits'[p] = Tail(hits[p]))
      BY <1>0, <1>7 DEF Peek, LookAtHead, Pop, Emptied, memoryVars, Typed
    <3>3. Len(hits'[p]) = L \/ (hits[p] # <<>> /\ Len(hits'[p]) = Len(Tail(hits[p])))
      BY <3>2
    <3> HIDE DEF L
    <3>4. CASE Len(hits'[p]) = L
      BY <1>2, <3>4
    <3>5. CASE hits[p] # <<>> /\ Len(hits'[p]) = Len(Tail(hits[p]))
      BY <3>1, <3>5
    <3> QED
      BY <3>3, <3>4, <3>5
  <2> QED
    BY <1>3, <2>1, <2>2
<1>8. CASE Arrive(w) \/ ReadClock(w) \/ Leave(w)
  <2>1. \E from \in Gates, to \in Gates : Pass(w, from, to) /\ from # "append" /\ to # "append"
    BY <1>8 DEF Arrive, ReadClock, Leave, Pass, Gates, Timed
  <2>2. hits' = hits
    BY <1>8 DEF Arrive, ReadClock, Leave, memoryVars
  <2> QED
    BY <1>2, <1>3, <2>1, <2>2
<1>9. CASE \/ Ask(w) \/ Connect(w) \/ Ping(w) \/ Return(w)
           \/ Incr(w) \/ IncrFails(w) \/ Expire(w) \/ ExpireFails(w)
  <2>1. hits' = hits
    BY <1>9, RedisTyped DEF memoryVars
  <2>2. \E from \in Gates, to \in Gates : Pass(w, from, to) /\ from # "append" /\ to # "append"
    BY <1>9 DEF Ask, Connect, Ping, Return, Reads, Incr, IncrFails, Expire, ExpireFails, Admit,
                Refuse, Unavailable, Gates, Timed
  <2> QED
    BY <1>2, <1>3, <2>1, <2>2
<1> QED
  BY <1>4, <1>5, <1>6, <1>7, <1>8, <1>9 DEF WorkerStep, InLimiter

\* ... and that of the others.
LEMMA WorkerDeque ==
    ASSUME Typed, GatesFit, DequeBounded, NEW w \in Workers, WorkerStep(w)
    PROVE  DequeBounded'
<1>0. Typed' /\ Static /\ home[w] \in Processes
  BY WorkerTyped DEF Typed
<1>1. ASSUME NEW q \in Processes, q # home[w] PROVE DequeFits(q)'
  <2>1. PICK from, to \in Gates : Pass(w, from, to)
    BY WorkerTyped DEF Onward
  <2>2. Appending(q)' = Appending(q) /\ Threads(q)' = Threads(q) /\ hits'[q] = hits[q]
    BY <1>0, <1>1, <2>1, AppendingStays, ElsewhereSame
  <2> QED
    BY <2>2 DEF DequeFits, DequeBounded
<1>2. \A p \in Processes : p = home[w] => DequeFits(p)'
  BY HomeDeque
<1> QED
  BY <1>1, <1>2 DEF DequeBounded, DequeFits


\* So do a restart, which empties deque and gates, and a second.
LEMMA OtherDeque ==
    ASSUME Typed, GatesFit, DequeBounded,
           (\E p \in Processes : Restart(p)) \/ PassSecond \/ UNCHANGED limitVars
    PROVE  DequeBounded'
<1>0. Static
  BY OtherTyped
<1>1. ASSUME NEW p \in Processes, Restart(p), NEW q \in Processes PROVE DequeFits(q)'
  <2>1. /\ gate' = [w \in Workers |-> IF home[w] = p THEN "out" ELSE gate[w]]
        /\ hits' = [hits EXCEPT ![p] = <<>>]
    BY <1>1 DEF Restart
  <2>2. Threads(q)' = Threads(q) /\ Cardinality(Threads(q)) \in Nat
    BY <1>0, AppendingBounded DEF Threads, Static
  <2>3. CASE q = p
    <3>1. Appending(p)' = {}
      BY <2>1, <1>0 DEF Appending, Threads, Static
    <3>2. hits'[p] = <<>>
      BY <2>1 DEF Typed
    <3>3. Cardinality({}) = 0 /\ Len(<<>>) = 0
      BY FS_EmptySet
    <3>4. 0 + 0 < Limit + Cardinality(Threads(p))
      BY <2>2, <2>3, LimitAssumption
    <3> QED
      BY <2>2, <2>3, <3>1, <3>2, <3>3, <3>4 DEF DequeFits
  <2>4. CASE q # p
    <3>1. Appending(q)' = Appending(q) /\ hits'[q] = hits[q]
      BY <2>1, <2>4, <1>0 DEF Appending, Threads, Static, Typed
    <3> QED
      BY <2>2, <3>1 DEF DequeFits, DequeBounded
  <2> QED
    BY <2>3, <2>4
<1>2. ASSUME PassSecond, NEW p \in Processes PROVE DequeFits(p)'
  <2>1. Appending(p)' = Appending(p) /\ Threads(p)' = Threads(p)
    BY <1>2, <1>0 DEF PassSecond, Appending, Threads, Static
  <2>2. Len(hits'[p]) = Len(hits[p])
    <3>1. hits[p] \in Seq(0..Old) /\ hits'[p] = [i \in DOMAIN hits[p] |-> Aged(hits[p][i])]
      BY <1>2 DEF PassSecond, Typed
    <3>2. Typed'
      BY <1>2, OtherTyped
    <3>3. hits'[p] \in Seq(0..Old)
      BY <3>2 DEF Typed
    <3> QED
      BY <3>1, <3>3, LenProperties
  <2> QED
    BY <2>1, <2>2 DEF DequeFits, DequeBounded
<1>3. CASE UNCHANGED limitVars
  BY <1>3 DEF limitVars, config, memoryVars, DequeBounded, Appending, Threads
<1> QED
  BY <1>1, <1>2, <1>3 DEF DequeBounded, DequeFits

\* The bound gives what LimitTypeOK says of the deques.
LEMMA TypesAgree ==
    ASSUME LimitAssumption
    PROVE  (Typed /\ DequeBounded => LimitTypeOK) /\ (LimitTypeOK => Typed)
<1>1. ASSUME Typed, DequeBounded, NEW p \in Processes
      PROVE  Len(hits[p]) < Limit + Cardinality(Threads(p))
  <2>1. /\ Len(hits[p]) + Cardinality(Appending(p)) < Limit + Cardinality(Threads(p))
        /\ hits[p] \in Seq(0..Old)
    BY <1>1 DEF Typed, DequeBounded
  <2> QED
    BY <2>1, AppendingBounded, LenProperties, LimitAssumption
<1> QED
  BY <1>1 DEF Typed, LimitTypeOK, ServedOK

-----------------------------------------------------------------------------
(* The key and its expiry *)

\* Somebody has the EXPIRE to do.
Owed == \E w \in Workers : gate[w] = "expire"

\* A step that changes neither the key nor its expiry, and makes nobody owe an EXPIRE.
LEMMA KeyUntouched ==
    ASSUME Typed, NEW w \in Workers,
           \/ Arrive(w) \/ AllowLocked(w) \/ RefuseLocked(w) \/ ReadClock(w) \/ Peek(w)
           \/ LookAtHead(w) \/ Pop(w) \/ CountHits(w) \/ AppendHit(w) \/ Leave(w)
           \/ Ask(w) \/ Connect(w) \/ Ping(w) \/ Return(w)
    PROVE  /\ UNCHANGED <<count, ttl>>
           /\ \A v \in Workers : gate'[v] = "expire" => gate[v] = "expire"
<1>1. CASE \/ Arrive(w) \/ AllowLocked(w) \/ RefuseLocked(w) \/ ReadClock(w) \/ Peek(w)
           \/ LookAtHead(w) \/ Pop(w) \/ CountHits(w) \/ AppendHit(w) \/ Leave(w)
  <2>1. UNCHANGED <<count, ttl>>
    BY <1>1 DEF Arrive, AllowLocked, RefuseLocked, ReadClock, Peek, LookAtHead, Pop, CountHits,
                AppendHit, Leave, redisVars
  <2>2. \E to \in Gates \ {"expire"} : gate' = [gate EXCEPT ![w] = to]
    <3>1. CASE \/ Arrive(w) \/ AllowLocked(w) \/ RefuseLocked(w) \/ ReadClock(w) \/ Leave(w)
      BY <3>1 DEF Arrive, AllowLocked, RefuseLocked, ReadClock, Leave, Admit, Refuse, Pass, Gates,
                  Timed
    <3>2. CASE Peek(w) \/ LookAtHead(w) \/ Pop(w)
      BY <3>2 DEF Peek, LookAtHead, Pop, Emptied, Pass, Gates, Timed
    <3>3. CASE CountHits(w) \/ AppendHit(w)
      BY <3>3 DEF CountHits, AppendHit, Admit, Refuse, Pass, Gates, Timed
    <3> QED
      BY <1>1, <3>1, <3>2, <3>3
  <2> QED
    BY <2>1, <2>2 DEF Typed
<1>2. CASE Ask(w) \/ Connect(w) \/ Ping(w) \/ Return(w)
  <2>1. UNCHANGED <<count, ttl>>
    BY <1>2 DEF Ask, Connect, Ping, Return, redisVars
  <2>2. \E to \in Gates \ {"expire"} : gate' = [gate EXCEPT ![w] = to]
    BY <1>2 DEF Ask, Connect, Ping, Return, Reads, Unavailable, Pass, Gates, Timed
  <2> QED
    BY <2>1, <2>2 DEF Typed
<1> QED
  BY <1>1, <1>2

\* INCR: the thread that makes the key owes it the expiry, the next ones are
\* admitted up to the limit.
LEMMA IncrIs ==
    ASSUME Typed, GatesFit, OneExpirer, NEW w \in Workers, Incr(w)
    PROVE  /\ ttl' = ttl
           /\ \A v \in Workers : v # w => gate'[v] = gate[v]
           /\ gate[w] = "incr"
           /\ \/ /\ count = 0 /\ ttl = 0 /\ count' = 1 /\ UNCHANGED served
                 /\ ~ Owed /\ gate'[w] = "expire"
              \/ count > 0 /\ count' = count + 1 /\ count' <= Limit /\ Admit(w, "incr")
              \/ count' >= count /\ count' > Limit /\ Refuse(w, "incr")
<1>1. /\ count' = Incremented /\ ttl' = ttl
      /\ \/ Incremented = 1 /\ Pass(w, "incr", "expire") /\ UNCHANGED served
         \/ Incremented \in 2..Limit /\ Admit(w, "incr")
         \/ Incremented > Limit /\ Refuse(w, "incr")
  BY DEF Incr
<1>2. count \in 0..Limit + 1 /\ Limit \in Nat \ {0} /\ ttl \in 0..Window
  BY LimitAssumption DEF Typed
<1>3. /\ Incremented = 1 => count = 0
      /\ Incremented \in 2..Limit => count > 0 /\ Incremented = count + 1
      /\ Incremented >= count
  BY <1>2 DEF Incremented
<1>4. gate[w] = "incr" /\ \A v \in Workers : v # w => gate'[v] = gate[v]
  BY <1>1 DEF Admit, Refuse, Pass, Typed
<1>5. count = 0 => ~ Owed /\ ttl = 0
  BY <1>2 DEF OneExpirer, Owed
<1>6. Pass(w, "incr", "expire") => gate'[w] = "expire"
  BY DEF Pass, Typed
<1> QED
  BY <1>1, <1>2, <1>3, <1>4, <1>5, <1>6

\* A failed INCR may have been executed.
LEMMA IncrFailsIs ==
    ASSUME Typed, NEW w \in Workers, IncrFails(w)
    PROVE  /\ UNCHANGED <<ttl, served>> /\ count' >= count
           /\ \A v \in Workers : gate'[v] = "expire" => gate[v] = "expire"
<1>1. /\ ttl' = ttl /\ served' = served /\ count' \in {count, Incremented}
      /\ gate' = [gate EXCEPT ![w] = IF kind = "redis" THEN "refused" ELSE "in"]
  BY DEF IncrFails, Unavailable, Pass
<1>2. count \in Int /\ Incremented >= count
  BY LimitAssumption DEF Typed, Incremented
<1> QED
  BY <1>1, <1>2 DEF Typed

\* EXPIRE is done, or not, by the only thread that owes it.
LEMMA ExpireIs ==
    ASSUME Typed, OneExpirer, NEW w \in Workers, Expire(w) \/ ExpireFails(w)
    PROVE  /\ count' = count /\ count > 0 /\ ttl = 0 /\ ttl' \in {ttl, Window}
           /\ Owed /\ ~ Owed'
<1>1. /\ count' = count /\ ttl' \in {ttl, Window} /\ gate[w] = "expire"
      /\ \E to \in Gates \ {"expire"} : gate' = [gate EXCEPT ![w] = to]
  BY DEF Expire, ExpireFails, Admit, Unavailable, Pass, Gates
<1>2. \A v \in Workers : gate'[v] # "expire"
  BY <1>1 DEF OneExpirer, Typed
<1> QED
  BY <1>1, <1>2 DEF OneExpirer, Owed

LEMMA WorkerExpirer ==
    ASSUME Typed, GatesFit, OneExpirer, NEW w \in Workers, WorkerStep(w)
    PROVE  OneExpirer'
<1>0. count \in Nat /\ ttl \in Nat /\ Window \in Nat \ {0}
  BY LimitAssumption DEF Typed
<1>1. CASE \/ Arrive(w) \/ AllowLocked(w) \/ RefuseLocked(w) \/ ReadClock(w) \/ Peek(w)
           \/ LookAtHead(w) \/ Pop(w) \/ CountHits(w) \/ AppendHit(w) \/ Leave(w)
           \/ Ask(w) \/ Connect(w) \/ Ping(w) \/ Return(w)
  BY <1>1, KeyUntouched DEF OneExpirer
<1>2. CASE Incr(w)
  <2>1. CASE count = 0 /\ ttl' = 0 /\ count' = 1 /\ ~ Owed
    BY <1>2, <2>1, IncrIs DEF OneExpirer, Owed
  <2>2. CASE ttl' = ttl /\ count' >= count /\ count' \in Int /\ gate'[w] # "expire"
    BY <1>0, <1>2, <2>2, IncrIs DEF OneExpirer
  <2>3. Admit(w, "incr") \/ Refuse(w, "incr") => gate'[w] # "expire"
    BY DEF Admit, Refuse, Pass, Typed
  <2>4. count' \in Int
    BY <1>2, RedisTyped DEF Typed
  <2> QED
    BY <1>0, <1>2, <2>1, <2>2, <2>3, <2>4, IncrIs
<1>3. CASE IncrFails(w)
  <2>1. count' \in Int
    BY <1>3, RedisTyped DEF Typed
  <2> QED
    BY <1>0, <1>3, <2>1, IncrFailsIs DEF OneExpirer
<1>4. CASE Expire(w) \/ ExpireFails(w)
  BY <1>0, <1>4, ExpireIs DEF OneExpirer, Owed
<1> QED
  BY <1>1, <1>2, <1>3, <1>4 DEF WorkerStep, InLimiter

LEMMA OtherExpirer ==
    ASSUME Typed, GatesFit, OneExpirer,
           (\E p \in Processes : Restart(p)) \/ PassSecond \/ UNCHANGED limitVars
    PROVE  OneExpirer'
<1>1. ASSUME NEW p \in Processes, Restart(p) PROVE OneExpirer'
  <2>1. /\ UNCHANGED <<count, ttl>>
        /\ \A w \in Workers : gate'[w] = "expire" => gate[w] = "expire"
    BY <1>1 DEF Restart
  <2> QED
    BY <2>1 DEF OneExpirer
<1>2. CASE PassSecond
  <2>1. /\ gate' = gate
        /\ count' = IF ttl = 1 THEN 0 ELSE count
        /\ ttl' = IF ttl > 0 THEN ttl - 1 ELSE ttl
    BY <1>2 DEF PassSecond
  <2> QED
    BY <2>1 DEF OneExpirer, Typed
<1>3. CASE UNCHANGED limitVars
  BY <1>3 DEF limitVars, redisVars, OneExpirer
<1> QED
  BY <1>1, <1>2, <1>3

-----------------------------------------------------------------------------
(* What the key has counted *)

\* Used, by whether an EXPIRE is owed, before and after a step.
LEMMA UsedIs ==
    ASSUME Typed, Typed', OneExpirer, OneExpirer'
    PROVE  /\ Used \in 0..Limit /\ Used' \in 0..Limit
           /\ Owed => Used = (IF count < Limit THEN count ELSE Limit) - 1
           /\ ~ Owed => Used = (IF count < Limit THEN count ELSE Limit)
           /\ Owed' => Used' = (IF count' < Limit THEN count' ELSE Limit) - 1
           /\ ~ Owed' => Used' = (IF count' < Limit THEN count' ELSE Limit)
<1>1. /\ Used = (IF count < Limit THEN count ELSE Limit) - (IF Owed THEN 1 ELSE 0)
      /\ Used' = (IF count' < Limit THEN count' ELSE Limit) - (IF Owed' THEN 1 ELSE 0)
  BY Zenon DEF Used, Owed
<1>2. (Owed => count > 0) /\ (Owed' => count' > 0)
  BY DEF OneExpirer, Owed
<1>3. count \in 0..Limit + 1 /\ count' \in 0..Limit + 1 /\ Limit \in Nat \ {0}
  BY LimitAssumption DEF Typed
<1>4. PICK c, d \in 0..Limit : /\ c = (IF count < Limit THEN count ELSE Limit)
                               /\ d = (IF count' < Limit THEN count' ELSE Limit)
                               /\ (Owed => c > 0) /\ (Owed' => d > 0)
  BY <1>2, <1>3
<1>5. /\ Used = c - (IF Owed THEN 1 ELSE 0)
      /\ Used' = d - (IF Owed' THEN 1 ELSE 0)
  BY <1>1, <1>4, Zenon
<1>6. (Owed => Used = c - 1) /\ (~ Owed => Used = c - 0)
  BY <1>5, Zenon
<1>7. (Owed' => Used' = d - 1) /\ (~ Owed' => Used' = d - 0)
  BY <1>5, Zenon
<1>8. Used \in 0..Limit /\ (~ Owed => Used = c)
  BY <1>3, <1>4, <1>6
<1>9. Used' \in 0..Limit /\ (~ Owed' => Used' = d)
  BY <1>3, <1>4, <1>7
<1> QED
  BY <1>4, <1>6, <1>7, <1>8, <1>9

\* KeyCounts after a step, with the time left to the key.
LEMMA KeyCountsThen ==
    ASSUME NEW left, left = ttl',
           Redis' => /\ Admitted(Processes, Window - 1)' <= Limit + Used'
                     /\ left > 0 => Admitted(Processes, Window - left - 1)' <= Used'
    PROVE  KeyCounts'
BY DEF KeyCounts, Admitted

\* A key that let nobody through counts no less than before.
LEMMA NobodyThrough ==
    ASSUME Typed, Typed', OneExpirer, OneExpirer', Static, KeyCounts,
           UNCHANGED served, Used' >= Used,
           ttl' = ttl \/ ttl' = Window
    PROVE  KeyCounts'
<1>1. \A age : Admitted(Processes, age)' = Admitted(Processes, age)
  BY AdmittedSame
<1>2. Used \in Int /\ Used' \in Int /\ Used' >= 0 /\ Limit \in Int /\ Window \in Int /\ ttl \in Int
  BY UsedIs, LimitAssumption DEF Typed
<1>3. PICK u, v \in Int : u = Used /\ v = Used' /\ v >= 0 /\ u <= v
  BY <1>2
<1> SUFFICES ASSUME Redis' PROVE KeyCounts'
  BY DEF KeyCounts
<1>4. /\ Admitted(Processes, Window - 1) <= Limit + u
      /\ ttl > 0 => Admitted(Processes, Window - ttl - 1) <= u
  BY <1>3 DEF KeyCounts, Redis, Static
<1>5. Admitted(Processes, Window - 1) \in Nat
  BY AdmissionsFinite, LimitAssumption DEF Typed
<1>6. Admitted(Processes, Window - 1)' <= Limit + v
  BY <1>1, <1>2, <1>3, <1>4, <1>5
<1>7. PICK left \in Int : left = ttl'
  BY <1>2
<1>8. ASSUME left > 0 PROVE Admitted(Processes, Window - left - 1)' <= v
  <2>1. CASE left = ttl
    <3>1. Admitted(Processes, Window - left - 1) <= u
      BY <1>4, <1>8, <2>1
    <3>2. Admitted(Processes, Window - left - 1) \in Nat
      BY <1>2, <1>7, <1>8, AdmissionsFinite, LimitAssumption DEF Typed
    <3>3. Admitted(Processes, Window - left - 1)' = Admitted(Processes, Window - left - 1)
      BY <1>1
    <3> QED
      BY <1>3, <3>1, <3>2, <3>3
  <2>2. CASE left = Window
    <3>1. Admitted(Processes, Window - left - 1)' = 0
      BY <1>2, <2>2, AdmittedNever
    <3> QED
      BY <1>3, <3>1
  <2> QED
    BY <1>7, <2>1, <2>2
<1> QED
  BY <1>3, <1>6, <1>7, <1>8, KeyCountsThen


\* The key counts up, and an EXPIRE that is no longer owed counts too.
LEMMA UsedGrows ==
    ASSUME Typed, Typed', OneExpirer, OneExpirer', count' >= count, Owed' => Owed
    PROVE  Used' >= Used
<1>1. PICK c, d \in Int : /\ c = (IF count < Limit THEN count ELSE Limit)
                          /\ d = (IF count' < Limit THEN count' ELSE Limit)
                          /\ c <= d
  BY LimitAssumption DEF Typed
<1>2. (Owed => Used = c - 1) /\ (~ Owed => Used = c)
  BY <1>1, UsedIs
<1>3. (Owed' => Used' = d - 1) /\ (~ Owed' => Used' = d)
  BY <1>1, UsedIs
<1> QED
  BY <1>1, <1>2, <1>3

\* A request that passes is counted once.
LEMMA OneThrough ==
    ASSUME Typed, Typed', OneExpirer, OneExpirer', KeyCounts, Static, Redis,
           NEW w \in Workers, NEW from, Admit(w, from),
           NEW u \in Nat, Used = u, Used' = u + 1,
           NEW t \in Nat, ttl = t, NEW left \in Nat, ttl' = left, left = t \/ left = Window
    PROVE  KeyCounts'
<1>2. home[w] \in Processes /\ served' = [served EXCEPT ![home[w]][0] = @ + 1] /\ ServedOK
  BY AdmitTyped DEF Typed
<1>3. /\ Admitted(Processes, Window - 1) <= Limit + u
      /\ t > 0 => Admitted(Processes, Window - t - 1) <= u
      /\ Limit \in Nat /\ Window \in Nat \ {0} /\ Patience \in Nat
  BY LimitAssumption DEF KeyCounts
<1>4. ASSUME NEW age \in 0..Window - 1
      PROVE  /\ Admitted(Processes, age)' = Admitted(Processes, age) + 1
             /\ Admitted(Processes, age) \in Nat
  <2>1. age \in 0..Window + Patience /\ age \in Int /\ age <= Window + Patience
    BY <1>3
  <2>2. PICK p \in Processes : p = home[w]
    BY <1>2
  <2>3. Admitted(Processes, age)' = Admitted(Processes, age) + 1
    BY <1>2, <2>1, <2>2, AdmittedMore
  <2>4. Admitted(Processes, age) \in Nat
    BY <1>2, <2>1, AdmissionsFinite
  <2> QED
    BY <2>3, <2>4
<1>5. Admitted(Processes, Window - 1)' <= Limit + (u + 1)
  <2>1. Window - 1 \in 0..Window - 1
    BY <1>3
  <2>2. /\ Admitted(Processes, Window - 1)' = Admitted(Processes, Window - 1) + 1
        /\ Admitted(Processes, Window - 1) \in Nat
    BY <1>4, <2>1
  <2> QED
    BY <1>3, <2>2
<1>6. ASSUME left > 0 PROVE Admitted(Processes, Window - left - 1)' <= u + 1
  <2>1. PICK k \in Int : k = Window - left - 1
    BY LimitAssumption
  <2>2. CASE k < 0
    <3>1. Admitted(Processes, k)' = 0
      BY <2>2, AdmittedNever
    <3> QED
      BY <2>1, <3>1
  <2>3. CASE k >= 0
    <3>1. left = t /\ k \in 0..Window - 1
      BY <1>6, <2>1, <2>3, LimitAssumption
    <3>2. Admitted(Processes, k)' = Admitted(Processes, k) + 1 /\ Admitted(Processes, k) \in Nat
      BY <1>4, <3>1
    <3>3. Admitted(Processes, k) <= u
      BY <1>3, <1>6, <2>1, <3>1
    <3>4. Admitted(Processes, k)' <= u + 1
      BY <3>2, <3>3
    <3> QED
      BY <2>1, <3>4
  <2> QED
    BY <2>2, <2>3
<1> QED
  BY <1>5, <1>6, KeyCountsThen

LEMMA WorkerKey ==
    ASSUME Typed, GatesFit, OneExpirer, KeyCounts, NEW w \in Workers, WorkerStep(w)
    PROVE  KeyCounts'
<1>0. Typed' /\ GatesFit' /\ Static /\ OneExpirer'
  BY WorkerTyped, WorkerExpirer
<1> SUFFICES ASSUME Redis PROVE KeyCounts'
  BY <1>0 DEF KeyCounts, Redis, Static
<1>1. CASE \/ Arrive(w) \/ AllowLocked(w) \/ RefuseLocked(w) \/ ReadClock(w) \/ Peek(w)
           \/ LookAtHead(w) \/ Pop(w) \/ CountHits(w) \/ AppendHit(w) \/ Leave(w)
           \/ Ask(w) \/ Connect(w) \/ Ping(w) \/ Return(w)
  <2>1. UNCHANGED <<count, ttl>> /\ (Owed' => Owed)
    BY <1>1, KeyUntouched DEF Owed
  <2>2. Used' >= Used
    BY <1>0, <2>1, UsedGrows DEF Typed
  <2>3. UNCHANGED served
    <3>1. ~ AllowLocked(w) /\ ~ RefuseLocked(w) /\ ~ ReadClock(w)
      BY DEF AllowLocked, RefuseLocked, ReadClock, Redis
    <3>2. ~ AppendHit(w) /\ ~ CountHits(w)
      BY DEF AppendHit, CountHits, Admit, Refuse, Pass, GatesFit, Timed, Redis
    <3> QED
      BY <1>1, <3>1, <3>2 DEF Arrive, Peek, LookAtHead, Pop, Leave, Ask, Connect, Ping, Return, Reads,
                              Unavailable
  <2> QED
    BY <1>0, <2>1, <2>2, <2>3, NobodyThrough
<1>2. CASE Incr(w)
  <2>1. /\ ttl' = ttl
        /\ \A v \in Workers : v # w => gate'[v] = gate[v]
        /\ gate[w] = "incr"
        /\ \/ /\ count = 0 /\ ttl = 0 /\ count' = 1 /\ UNCHANGED served
              /\ ~ Owed /\ gate'[w] = "expire"
           \/ count > 0 /\ count' = count + 1 /\ count' <= Limit /\ Admit(w, "incr")
           \/ count' >= count /\ count' > Limit /\ Refuse(w, "incr")
    BY <1>2, IncrIs
  <2>2. CASE /\ count = 0 /\ ttl = 0 /\ count' = 1 /\ UNCHANGED served
             /\ ~ Owed /\ gate'[w] = "expire"
    <3>1. Owed'
      BY <2>2 DEF Owed
    <3>2. Used = 0 /\ Used' = 0
      BY <1>0, <2>2, <3>1, UsedIs, LimitAssumption
    <3> QED
      BY <1>0, <2>1, <2>2, <3>2, NobodyThrough
  <2>3. CASE count > 0 /\ count' = count + 1 /\ count' <= Limit /\ Admit(w, "incr")
    <3>1. gate'[w] = "in"
      BY <2>3 DEF Admit, Pass, Typed
    <3>2. Owed' <=> Owed
      BY <2>1, <3>1 DEF Owed
    <3>3. PICK c \in Int : c = count /\ count' = c + 1 /\ c + 1 <= Limit /\ Limit \in Int
      BY <2>3, LimitAssumption DEF Typed
    <3>4. (Owed => Used = c - 1) /\ (~ Owed => Used = c)
      BY <1>0, <3>3, UsedIs
    <3>5. (Owed' => Used' = c + 1 - 1) /\ (~ Owed' => Used' = c + 1)
      BY <1>0, <3>3, UsedIs
    <3>6. Used' = Used + 1
      BY <3>2, <3>3, <3>4, <3>5
    <3>7. PICK u, t \in Nat : u = Used /\ t = ttl
      BY <1>0, UsedIs DEF Typed
    <3> QED
      BY <1>0, <2>1, <2>3, <3>6, <3>7, OneThrough
  <2>4. CASE count' >= count /\ count' > Limit /\ Refuse(w, "incr")
    <3>1. gate'[w] = "refused" /\ UNCHANGED served
      BY <2>4 DEF Refuse, Pass, Typed
    <3>2. Owed' => Owed
      BY <2>1, <3>1 DEF Owed
    <3>3. Used' >= Used
      BY <1>0, <2>4, <3>2, UsedGrows
    <3> QED
      BY <1>0, <2>1, <3>1, <3>3, NobodyThrough
  <2> QED
    BY <2>1, <2>2, <2>3, <2>4
<1>3. CASE IncrFails(w)
  <2>1. UNCHANGED <<ttl, served>> /\ count' >= count /\ (Owed' => Owed)
    BY <1>3, IncrFailsIs DEF Owed
  <2>2. Used' >= Used
    BY <1>0, <2>1, UsedGrows
  <2> QED
    BY <1>0, <2>1, <2>2, NobodyThrough
<1>4. CASE Expire(w) \/ ExpireFails(w)
  <2>1. /\ count' = count /\ count > 0 /\ ttl = 0 /\ ttl' \in {ttl, Window}
        /\ Owed /\ ~ Owed'
    BY <1>4, ExpireIs
  <2>2. PICK c \in Int : c = (IF count < Limit THEN count ELSE Limit)
    BY LimitAssumption DEF Typed
  <2>3. Used = c - 1 /\ Used' = c
    BY <1>0, <2>1, <2>2, UsedIs
  <2>4. CASE Expire(w)
    <3>1. Admit(w, "expire") /\ Used' = Used + 1
      BY <2>2, <2>3, <2>4 DEF Expire
    <3>2. PICK u, t, left \in Nat : u = Used /\ t = ttl /\ left = ttl'
      BY <1>0, UsedIs DEF Typed
    <3> QED
      BY <1>0, <2>1, <3>1, <3>2, OneThrough
  <2>5. CASE ExpireFails(w)
    <3>1. UNCHANGED served /\ Used' >= Used
      BY <2>2, <2>3, <2>5 DEF ExpireFails, Unavailable
    <3> QED
      BY <1>0, <2>1, <3>1, NobodyThrough
  <2> QED
    BY <1>4, <2>4, <2>5
<1> QED
  BY <1>1, <1>2, <1>3, <1>4 DEF WorkerStep, InLimiter

LEMMA OtherKey ==
    ASSUME Typed, GatesFit, OneExpirer, KeyCounts,
           (\E p \in Processes : Restart(p)) \/ PassSecond \/ UNCHANGED limitVars
    PROVE  KeyCounts'
<1>0. Typed' /\ GatesFit' /\ Static /\ OneExpirer'
  BY OtherTyped, OtherExpirer
<1> SUFFICES ASSUME Redis PROVE KeyCounts'
  BY <1>0 DEF KeyCounts, Redis, Static
<1>1. ASSUME NEW p \in Processes, Restart(p) PROVE KeyCounts'
  <2>1. UNCHANGED <<count, ttl, served>> /\ (Owed' => Owed)
    BY <1>1 DEF Restart, Owed
  <2>2. Used' >= Used
    BY <1>0, <2>1, UsedGrows DEF Typed
  <2> QED
    BY <1>0, <2>1, <2>2, NobodyThrough
<1>2. CASE UNCHANGED limitVars
  BY <1>2 DEF limitVars, config, redisVars, KeyCounts, Redis, Admitted, Used
<1>3. CASE PassSecond
  <2>1. /\ gate' = gate
        /\ count' = IF ttl = 1 THEN 0 ELSE count
        /\ ttl' = IF ttl > 0 THEN ttl - 1 ELSE ttl
        /\ served' = [p \in Processes |->
                        [a \in DOMAIN NoneServed |-> IF a = 0 THEN 0 ELSE served[p][a - 1]]]
    BY <1>3 DEF PassSecond
  <2>2. PICK u, t, left \in Int :
           /\ u = Used /\ t = ttl /\ left = ttl' /\ 0 <= u /\ u <= Limit
           /\ 0 <= t /\ t <= Window /\ left = IF t > 0 THEN t - 1 ELSE t
    BY <1>0, <2>1, UsedIs, LimitAssumption DEF Typed
  <2>3. /\ Admitted(Processes, Window - 1) <= Limit + u
        /\ t > 0 => Admitted(Processes, Window - t - 1) <= u
        /\ Limit \in Nat /\ Window \in Nat \ {0} /\ Patience \in Nat
    BY <2>2, LimitAssumption DEF KeyCounts
  <2>4. ASSUME NEW age \in 0..Window - 1
        PROVE  /\ Admitted(Processes, age)' = Admitted(Processes, age - 1)
               /\ Admitted(Processes, age - 1) \in Nat
               /\ Admitted(Processes, age) \in Nat
               /\ Admitted(Processes, age - 1) <= Admitted(Processes, age)
    <3>1. /\ age \in 0..Window + Patience /\ age - 1 \in Int /\ age - 1 <= age
          /\ age - 1 <= Window + Patience /\ age \in Int /\ age <= Window + Patience
      BY <2>3
    <3>2. ServedOK /\ Processes \in SUBSET Processes
      BY DEF Typed
    <3>3. Admitted(Processes, age)' = Admitted(Processes, age - 1)
      BY <2>1, <3>1, <3>2, AdmittedOlder
    <3>4. Admitted(Processes, age - 1) \in Nat /\ Admitted(Processes, age) \in Nat
      BY <3>1, <3>2, AdmissionsFinite
    <3>5. Admitted(Processes, age - 1) <= Admitted(Processes, age)
      BY <3>1, <3>2, AdmittedMonotone
    <3> QED
      BY <3>3, <3>4, <3>5
  <2>5. Window - 1 \in 0..Window - 1
    BY <2>3
  <2>6. CASE t = 1
    <3>1. ~ Owed'
      BY <2>1, <2>2, <2>6 DEF OneExpirer, Owed
    <3>2. Used' = 0
      BY <1>0, <2>1, <2>2, <2>6, <3>1, UsedIs, LimitAssumption
    <3>3. Admitted(Processes, Window - 1)' <= Limit + 0
      <4>1. Window - t - 1 = Window - 1 - 1
        BY <2>3, <2>6
      <4> QED
        BY <2>2, <2>3, <2>4, <2>5, <2>6, <4>1
    <3> QED
      BY <2>2, <2>6, <3>2, <3>3, KeyCountsThen
  <2>7. CASE t # 1
    <3>1. Used' = u
      <4>1. count' = count
        BY <2>1, <2>2, <2>7
      <4> QED
        BY <2>1, <2>2, <4>1 DEF Used
    <3>2. Admitted(Processes, Window - 1)' <= Limit + u
      BY <2>2, <2>3, <2>4, <2>5
    <3>3. ASSUME left > 0 PROVE Admitted(Processes, Window - left - 1)' <= u
      <4>1. left = t - 1 /\ Window - left - 1 \in 0..Window - 1 /\ Window - left - 1 - 1 = Window - t - 1
        BY <2>2, <2>3, <3>3
      <4>2. Admitted(Processes, Window - left - 1)' = Admitted(Processes, Window - t - 1)
        BY <2>4, <4>1
      <4> QED
        BY <2>2, <2>3, <3>3, <4>1, <4>2
    <3> QED
      BY <2>2, <3>1, <3>2, <3>3, KeyCountsThen
  <2> QED
    BY <2>6, <2>7
<1> QED
  BY <1>1, <1>2, <1>3

-----------------------------------------------------------------------------
(* What the lock counts *)

\* LockedCounts, of one process.
AccountFits(p) ==
    /\ Admitted({p}, Window) <= Limit
    /\ \A age \in 0..Window : Admitted({p}, age) <= Cardinality(Young(hits[p], age))

\* A step that a process takes no part in.
LEMMA AccountSame ==
    ASSUME NEW p \in Processes, AccountFits(p), hits'[p] = hits[p], served'[p] = served[p]
    PROVE  AccountFits(p)'
<1>1. \A age : Admitted({p}, age)' = Admitted({p}, age)
  BY AdmittedSame
<1> QED
  BY <1>1 DEF AccountFits

\* The deque of a process, for the lemmas on sequences of ages.
LEMMA DequeIs ==
    ASSUME Typed, NEW p \in Processes
    PROVE  /\ Len(hits[p]) \in Nat /\ DOMAIN hits[p] = 1..Len(hits[p])
           /\ \A i \in 1..Len(hits[p]) : hits[p][i] \in 0..Old
           /\ \A age : Cardinality(Young(hits[p], age)) \in Nat
<1>1. PICK s \in Seq(0..Old) : s = hits[p]
  BY DEF Typed
<1>2. Len(s) \in Nat /\ DOMAIN s = 1..Len(s) /\ \A i \in 1..Len(s) : s[i] \in 0..Old
  BY LenProperties, ElementOfSeq
<1>3. \A age : Cardinality(Young(s, age)) \in Nat
  BY <1>2, YoungFinite
<1> QED
  BY <1>1, <1>2, <1>3

\* Trimming keeps the entries of the window.
LEMMA TrimmedYoung ==
    ASSUME NEW s \in Seq(0..Old), NEW age \in 0..Window
    PROVE  /\ Cardinality(Young(s, age)) <= Cardinality(Young(Recent(s), age))
           /\ Cardinality(Young(Recent(s), age)) <= Len(Recent(s))
           /\ Cardinality(Young(Append(Recent(s), 0), age)) = Cardinality(Young(Recent(s), age)) + 1
           /\ Cardinality(Young(s, age)) \in Nat
           /\ Cardinality(Young(Recent(s), age)) \in Nat
           /\ Len(Recent(s)) \in Nat
<1>1. PICK c \in 0..Len(s) :
         /\ Recent(s) \in Seq(0..Old) /\ Len(Recent(s)) = Len(s) - c
         /\ \A i \in 1..Len(s) - c : Recent(s)[i] = s[i + c]
         /\ \A i \in 1..c : s[i] > Window
  BY Trimmed
<1>2. Len(s) \in Nat /\ DOMAIN s = 1..Len(s) /\ \A i \in 1..Len(s) : s[i] \in 0..Old
  BY LenProperties, ElementOfSeq
<1>3. PICK n \in Nat, r \in Seq(0..Old) : n = Len(s) /\ r = Recent(s)
  BY <1>1, <1>2
<1>4. /\ c \in 0..n /\ DOMAIN s = 1..n /\ DOMAIN r = 1..n - c /\ Len(r) = n - c /\ n - c \in Nat
      /\ \A i \in 1..n - c : r[i] = s[i + c]
  BY <1>1, <1>2, <1>3, LenProperties
<1>5. \A i \in 1..c : ~(s[i] <= age)
  BY <1>1, <1>2, LimitAssumption DEF Old
<1>6. Cardinality(Young(s, age)) <= Cardinality(Young(r, age))
  BY <1>4, <1>5, YoungKept
<1>7. PICK t : t = Append(r, 0)
  OBVIOUS
<1>8. DOMAIN t = 1..(n - c) + 1 /\ (\A i \in 1..n - c : t[i] = r[i]) /\ t[(n - c) + 1] = 0
  <2>1. 0 \in 0..Old
    BY LimitAssumption DEF Old
  <2>2. t \in Seq(0..Old) /\ Len(t) = (n - c) + 1
    <3>1. t \in Seq(0..Old) /\ Len(t) = Len(r) + 1
      BY <1>7, <2>1, AppendProperties
    <3> QED
      BY <1>4, <3>1
  <2>3. \A i \in 1..n - c : t[i] = r[i]
    BY <1>4, <1>7, <2>1, AppendProperties
  <2>4. t[(n - c) + 1] = 0
    BY <1>4, <1>7, <2>1, AppendProperties
  <2> QED
    BY <2>2, <2>3, <2>4, LenProperties
<1>9. age \in Nat /\ 0 <= age
  BY LimitAssumption
<1>10. Cardinality(Young(t, age)) = Cardinality(Young(r, age)) + 1
  <2>1. PICK m \in Nat : m = n - c
    BY <1>4
  <2>2. /\ DOMAIN r = 1..m /\ DOMAIN t = 1..m + 1 /\ t[m + 1] <= age
        /\ \A i \in 1..m : t[i] = r[i]
    BY <1>4, <1>8, <1>9, <2>1
  <2> QED
    BY <1>9, <2>2, YoungAppended
<1>11. /\ Cardinality(Young(s, age)) \in Nat /\ Cardinality(Young(r, age)) \in Nat
       /\ Cardinality(Young(r, age)) <= n - c
  BY <1>4, YoungFinite
<1> QED
  BY <1>3, <1>4, <1>6, <1>7, <1>10, <1>11

LEMMA HomeLocked ==
    ASSUME Typed, GatesFit, kind = "locked", NEW w \in Workers, WorkerStep(w),
           NEW p \in Processes, p = home[w], AccountFits(p)
    PROVE  AccountFits(p)'
<1>1. PICK s \in Seq(0..Old) : s = hits[p]
  BY DEF Typed
<1>2. \A age \in 0..Window : Admitted({p}, age) <= Cardinality(Young(s, age))
  BY <1>1 DEF AccountFits
<1>3. \A age \in 0..Window : Admitted({p}, age) \in Nat
  BY AdmissionsFinite, LimitAssumption DEF Typed
<1>4. CASE AllowLocked(w)
  <2>1. /\ Admit(w, "ask") /\ hits'[p] = Append(Recent(s), 0) /\ Len(Recent(s)) < Limit
    BY <1>1, <1>4 DEF AllowLocked, Typed
  <2>2. \A age \in 0..Window : Admitted({p}, age)' = Admitted({p}, age) + 1
    <3>1. served' = [served EXCEPT ![p][0] = @ + 1] /\ ServedOK
      BY <2>1, AdmitTyped DEF Typed
    <3>2. \A age \in 0..Window : age \in 0..Window + Patience
      BY LimitAssumption
    <3> QED
      BY <3>1, <3>2, AdmittedMore
  <2>3. ASSUME NEW age \in 0..Window
        PROVE  /\ Admitted({p}, age)' <= Cardinality(Young(hits'[p], age))
               /\ Admitted({p}, age)' <= Limit
    <3>1. /\ Cardinality(Young(s, age)) <= Cardinality(Young(Recent(s), age))
          /\ Cardinality(Young(Recent(s), age)) <= Len(Recent(s))
          /\ Cardinality(Young(hits'[p], age)) = Cardinality(Young(Recent(s), age)) + 1
          /\ Cardinality(Young(s, age)) \in Nat
          /\ Cardinality(Young(Recent(s), age)) \in Nat
          /\ Len(Recent(s)) \in Nat
      BY <2>1, TrimmedYoung
    <3>2. Admitted({p}, age)' = Admitted({p}, age) + 1 /\ Admitted({p}, age) \in Nat
      BY <1>3, <2>2
    <3>3. Admitted({p}, age) <= Cardinality(Young(s, age))
      BY <1>2
    <3> QED
      BY <2>1, <3>1, <3>2, <3>3, LimitAssumption
  <2>4. Window \in 0..Window
    BY LimitAssumption
  <2> QED
    BY <2>3, <2>4 DEF AccountFits
<1>5. CASE RefuseLocked(w)
  <2>1. UNCHANGED served /\ hits'[p] = Recent(s)
    BY <1>1, <1>5 DEF RefuseLocked, Refuse, Typed
  <2>2. \A age : Admitted({p}, age)' = Admitted({p}, age)
    BY <2>1, AdmittedSame
  <2>3. ASSUME NEW age \in 0..Window
        PROVE  Admitted({p}, age)' <= Cardinality(Young(hits'[p], age))
    <3>1. /\ Cardinality(Young(s, age)) <= Cardinality(Young(hits'[p], age))
          /\ Cardinality(Young(s, age)) \in Nat
          /\ Cardinality(Young(hits'[p], age)) \in Nat
      BY <2>1, TrimmedYoung
    <3>2. Admitted({p}, age) <= Cardinality(Young(s, age)) /\ Admitted({p}, age) \in Nat
      BY <1>2, <1>3
    <3>3. Admitted({p}, age) <= Cardinality(Young(hits'[p], age))
      BY <3>1, <3>2
    <3> QED
      BY <2>2, <3>3
  <2> QED
    BY <2>2, <2>3 DEF AccountFits
<1>6. CASE Arrive(w) \/ Leave(w)
  BY <1>6, AccountSame DEF Arrive, Leave, memoryVars
<1>7. CASE \/ ReadClock(w) \/ Peek(w) \/ LookAtHead(w) \/ Pop(w) \/ CountHits(w) \/ AppendHit(w)
  <2>1. CASE ReadClock(w)
    BY <2>1 DEF ReadClock
  <2>2. CASE Peek(w) \/ LookAtHead(w) \/ Pop(w) \/ CountHits(w) \/ AppendHit(w)
    <3>1. gate[w] \in Timed
      BY <2>2 DEF Peek, LookAtHead, Pop, Emptied, CountHits, AppendHit, Admit, Refuse, Pass, Timed
    <3> QED
      BY <3>1 DEF GatesFit
  <2> QED
    BY <1>7, <2>1, <2>2
<1>8. CASE \/ Ask(w) \/ Connect(w) \/ Ping(w) \/ Return(w)
           \/ Incr(w) \/ IncrFails(w) \/ Expire(w) \/ ExpireFails(w)
  BY <1>8, RedisOnward DEF Redis
<1> QED
  BY <1>4, <1>5, <1>6, <1>7, <1>8 DEF WorkerStep, InLimiter

LEMMA WorkerLocked ==
    ASSUME Typed, GatesFit, LockedCounts, NEW w \in Workers, WorkerStep(w)
    PROVE  LockedCounts'
<1>0. Static
  BY WorkerTyped
<1> SUFFICES ASSUME kind = "locked", NEW p \in Processes PROVE AccountFits(p)'
  BY <1>0 DEF LockedCounts, AccountFits, Static
<1>1. AccountFits(p)
  BY DEF LockedCounts, AccountFits
<1>2. CASE p = home[w]
  BY <1>1, <1>2, HomeLocked
<1>3. CASE p # home[w]
  <2>1. hits'[p] = hits[p] /\ served'[p] = served[p]
    BY <1>3, ElsewhereSame
  <2> QED
    BY <1>1, <2>1, AccountSame
<1> QED
  BY <1>2, <1>3

LEMMA OtherLocked ==
    ASSUME Typed, GatesFit, LockedCounts,
           (\E p \in Processes : Restart(p)) \/ PassSecond \/ UNCHANGED limitVars
    PROVE  LockedCounts'
<1>0. Static /\ Typed'
  BY OtherTyped
<1> SUFFICES ASSUME kind = "locked", NEW p \in Processes PROVE AccountFits(p)'
  BY <1>0 DEF LockedCounts, AccountFits, Static
<1>1. AccountFits(p)
  BY DEF LockedCounts, AccountFits
<1>2. \A age : Cardinality(Young(hits'[p], age)) \in Nat
  <2>1. PICK s \in Seq(0..Old) : s = hits'[p]
    BY <1>0 DEF Typed
  <2>2. Len(s) \in Nat /\ DOMAIN s = 1..Len(s)
    BY LenProperties
  <2>3. \A age : Cardinality(Young(s, age)) \in Nat
    BY <2>2, YoungFinite
  <2> QED
    BY <2>1, <2>3
<1>3. ASSUME NEW q \in Processes, Restart(q) PROVE AccountFits(p)'
  <2>1. hits' = [hits EXCEPT ![q] = <<>>] /\ served' = [served EXCEPT ![q] = NoneServed]
    BY <1>3 DEF Restart, Redis
  <2>2. CASE p = q
    <3>1. served'[p] = NoneServed
      BY <2>1, <2>2 DEF Typed, ServedOK
    <3>2. \A age \in 0..Window : Admitted({p}, age)' = 0
      <4>1. \A r \in {p} : served'[r] = NoneServed
        BY <3>1
      <4>2. \A age \in 0..Window : age \in Int /\ age <= Window + Patience
        BY LimitAssumption
      <4> QED
        BY <4>1, <4>2, AdmittedNone DEF Admitted
    <3> QED
      BY <1>2, <3>2, LimitAssumption DEF AccountFits
  <2>3. CASE p # q
    BY <1>1, <2>1, <2>3, AccountSame DEF Typed, ServedOK
  <2> QED
    BY <2>2, <2>3
<1>4. CASE PassSecond
  <2>1. ASSUME NEW age \in 0..Window
        PROVE  /\ Admitted({p}, age)' = Admitted({p}, age - 1)
               /\ Young(hits'[p], age) = Young(hits[p], age - 1)
    <3>1. age \in 0..Window + Patience
      BY LimitAssumption
    <3>2. Admitted({p}, age)' = Admitted({p}, age - 1)
      BY <1>4, <3>1, AdmittedOlder DEF PassSecond, Typed
    <3>3. PICK s, t : s = hits[p] /\ t = hits'[p]
      OBVIOUS
    <3>4. DOMAIN t = DOMAIN s /\ \A i \in DOMAIN s : s[i] \in 0..Old /\ t[i] = Aged(s[i])
      <4>1. hits'[p] = [i \in DOMAIN hits[p] |-> Aged(hits[p][i])]
        BY <1>4 DEF PassSecond
      <4>2. DOMAIN hits'[p] = DOMAIN hits[p] /\ \A i \in DOMAIN hits[p] : hits'[p][i] = Aged(hits[p][i])
        BY <4>1
      <4>3. \A i \in DOMAIN hits[p] : hits[p][i] \in 0..Old
        BY DequeIs
      <4> QED
        BY <3>3, <4>2, <4>3
    <3>5. Young(t, age) = Young(s, age - 1)
      BY <3>1, <3>4, YoungOlder
    <3> QED
      BY <3>2, <3>3, <3>5
  <2>2. ASSUME NEW age \in 0..Window
        PROVE  Admitted({p}, age)' <= Cardinality(Young(hits'[p], age))
    <3>1. CASE age = 0
      <4>1. Admitted({p}, age - 1) = 0
        BY <3>1, AdmittedNever
      <4>2. Admitted({p}, age)' = 0
        BY <2>1, <4>1
      <4>3. Cardinality(Young(hits'[p], age)) \in Nat
        BY <1>2
      <4> QED
        BY <4>2, <4>3
    <3>2. CASE age # 0
      <4>1. age - 1 \in 0..Window
        BY <3>2, LimitAssumption
      <4> QED
        BY <1>1, <2>1, <4>1 DEF AccountFits
    <3> QED
      BY <3>1, <3>2
  <2>3. Admitted({p}, Window)' <= Limit
    <3>1. Window \in 0..Window /\ Window - 1 \in Int /\ Window \in Int /\ Window - 1 <= Window
          /\ Window <= Window + Patience /\ Window - 1 <= Window + Patience
      BY LimitAssumption
    <3>2. /\ Admitted({p}, Window - 1) <= Admitted({p}, Window)
          /\ Admitted({p}, Window - 1) \in Nat /\ Admitted({p}, Window) \in Nat
      BY <3>1, AdmittedMonotone, AdmissionsFinite DEF Typed
    <3> QED
      BY <1>1, <2>1, <3>1, <3>2, LimitAssumption DEF AccountFits
  <2> QED
    BY <2>2, <2>3 DEF AccountFits
<1>5. CASE UNCHANGED limitVars
  BY <1>1, <1>5, AccountSame DEF limitVars, memoryVars
<1> QED
  BY <1>3, <1>4, <1>5

-----------------------------------------------------------------------------
(* When the entries of a deque were admitted *)

\* EntriesDated, of one process.
DatedFits(p) == \E g \in [DOMAIN hits[p] -> 0..Old] : Dates(p, g)

\* The same deque, no fewer admissions, and who is about to count was so before or
\* has just looked at an entry in the window.
LEMMA DatesStay ==
    ASSUME Typed, Typed', Static, NEW p \in Processes, DatedFits(p), hits'[p] = hits[p],
           \A age \in 0..Window + Patience : Admitted({p}, age)' >= Admitted({p}, age),
           \A v \in Threads(p) : gate'[v] = "count" /\ hits[p] # <<>> =>
               (gate[v] = "count" /\ seen'[v] = seen[v]) \/ hits[p][1] <= Window + seen'[v]
    PROVE  DatedFits(p)'
<1>1. PICK g \in [DOMAIN hits[p] -> 0..Old] : Dates(p, g)
  BY DEF DatedFits
<1>2. PICK s \in Seq(0..Old) : s = hits[p]
  BY DEF Typed
<1>3. /\ Len(s) \in Nat /\ DOMAIN s = 1..Len(s) /\ (s # <<>> => 1 \in DOMAIN s)
      /\ \A i \in DOMAIN s : s[i] \in 0..Old
  <2>1. Len(s) \in Nat /\ DOMAIN s = 1..Len(s)
    BY LenProperties
  <2>2. s # <<>> => Len(s) # 0
    BY EmptySeq
  <2>3. \A i \in DOMAIN s : s[i] \in 0..Old
    BY <2>1, ElementOfSeq
  <2> QED
    BY <2>1, <2>2, <2>3
<1>4. /\ \A i \in DOMAIN s : g[i] <= s[i]
      /\ \A i, j \in DOMAIN s : i <= j => g[j] <= g[i]
      /\ \A age \in 0..Window + Patience : Cardinality(Young(g, age)) <= Admitted({p}, age)
      /\ \A v \in Threads(p) : gate[v] = "count" /\ s # <<>> => g[1] <= Window + seen[v]
      /\ g \in [DOMAIN s -> 0..Old]
  BY <1>1, <1>2 DEF Dates
<1>5. ASSUME NEW age \in 0..Window + Patience
      PROVE  Cardinality(Young(g, age)) <= Admitted({p}, age)'
  <2>1. Cardinality(Young(g, age)) \in Nat
    BY <1>3, <1>4, YoungFinite
  <2>2. Admitted({p}, age) \in Nat
    BY AdmissionsFinite, LimitAssumption DEF Typed
  <2>3. Admitted({p}, age)' \in Nat
    BY AdmissionsFiniteThen, LimitAssumption DEF Typed
  <2>4. Admitted({p}, age)' >= Admitted({p}, age)
    OBVIOUS
  <2> QED
    <3>1. PICK x, y, z \in Nat : /\ x = Cardinality(Young(g, age)) /\ y = Admitted({p}, age)
                                /\ z = Admitted({p}, age)'
      BY <2>1, <2>2, <2>3
    <3>2. x <= y /\ z >= y
      BY <1>4, <2>4, <3>1
    <3>3. x <= z
      BY <3>2
    <3> QED
      BY <3>1, <3>3
<1>6. ASSUME NEW v \in Threads(p), gate'[v] = "count", s # <<>> PROVE g[1] <= Window + seen'[v]
  <2>1. CASE gate[v] = "count" /\ seen'[v] = seen[v]
    BY <1>4, <1>6, <2>1
  <2>2. CASE s[1] <= Window + seen'[v]
    <3>0. 1 \in DOMAIN s
      BY <1>3, <1>6
    <3>1. g[1] \in Int /\ s[1] \in Int /\ g[1] <= s[1] /\ Window \in Int
      BY <1>3, <1>4, <3>0, LimitAssumption
    <3>2. seen'[v] \in Int
      BY DEF Typed, Threads
    <3> QED
      BY <2>2, <3>1, <3>2
  <2> QED
    BY <1>2, <1>6, <2>1, <2>2
<1>7. Threads(p)' = Threads(p) /\ hits'[p] = s
  BY <1>2 DEF Threads, Static
<1>8. Dates(p, g)'
  BY <1>4, <1>5, <1>6, <1>7 DEF Dates
<1>9. g \in [DOMAIN hits'[p] -> 0..Old]
  BY <1>4, <1>7
<1> QED
  BY <1>8, <1>9 DEF DatedFits

\* g dates the entries of s, as far as the deque alone tells.
Ordered(s, g) ==
    /\ \A i \in DOMAIN s : g[i] <= s[i]
    /\ \A i, j \in DOMAIN s : i <= j => g[j] <= g[i]

\* DatedFits after a step, from dates of the deque it leaves.
LEMMA DatesThen ==
    ASSUME Static, NEW p \in Processes, NEW t, hits'[p] = t,
           NEW k \in [DOMAIN t -> 0..Old], Ordered(t, k),
           \A age \in 0..Window + Patience : Cardinality(Young(k, age)) <= Admitted({p}, age)',
           \A v \in Threads(p) : gate'[v] = "count" /\ t # <<>> => k[1] <= Window + seen'[v]
    PROVE  DatedFits(p)'
<1>1. Threads(p)' = Threads(p)
  BY DEF Threads, Static
<1>2. Dates(p, k)'
  BY <1>1 DEF Dates, Ordered
<1> QED
  BY <1>2 DEF DatedFits

\* Entries that leave the head take their dates with them.
LEMMA DatesDropped ==
    ASSUME NEW n \in Nat, NEW c \in 0..n, NEW s, DOMAIN s = 1..n, NEW r, DOMAIN r = 1..n - c,
           \A i \in 1..n - c : r[i] = s[i + c],
           NEW g \in [1..n -> 0..Old], Ordered(s, g)
    PROVE  \E h \in [1..n - c -> 0..Old] :
              /\ Ordered(r, h)
              /\ \A age : /\ Cardinality(Young(h, age)) <= Cardinality(Young(g, age))
                          /\ Cardinality(Young(h, age)) \in Nat
                          /\ Cardinality(Young(g, age)) \in Nat
              /\ n - c > 0 => h[1] <= g[1]
<1> DEFINE h == [i \in 1..n - c |-> g[i + c]]
<1>1. \A i \in 1..n - c : i + c \in 1..n /\ i + c \in Int /\ i \in Int
  OBVIOUS
<1>2. h \in [1..n - c -> 0..Old] /\ \A i \in 1..n - c : h[i] = g[i + c]
  BY <1>1
<1> HIDE DEF h
<1>3. \A i \in 1..n - c : h[i] <= r[i]
  BY <1>1, <1>2 DEF Ordered
<1>4. ASSUME NEW i \in 1..n - c, NEW j \in 1..n - c, i <= j PROVE h[j] <= h[i]
  <2>1. i + c <= j + c
    BY <1>4
  <2>2. g[j + c] <= g[i + c]
    BY <1>1, <2>1 DEF Ordered
  <2> QED
    BY <1>2, <2>2
<1>5. Ordered(r, h)
  BY <1>3, <1>4 DEF Ordered
<1>6. DOMAIN g = 1..n /\ DOMAIN h = 1..n - c /\ n - c \in Nat
  BY <1>2
<1>7. ASSUME NEW age
      PROVE  /\ Cardinality(Young(h, age)) <= Cardinality(Young(g, age))
             /\ Cardinality(Young(h, age)) \in Nat
             /\ Cardinality(Young(g, age)) \in Nat
  BY <1>2, <1>6, YoungDropped, YoungFinite
<1>8. ASSUME n - c > 0 PROVE h[1] <= g[1]
  <2>1. 1 \in 1..n - c /\ 1 \in 1..n /\ 1 + c \in 1..n /\ 1 <= 1 + c
    BY <1>8
  <2>2. g[1 + c] <= g[1]
    BY <2>1 DEF Ordered
  <2> QED
    BY <1>2, <2>1, <2>2
<1> QED
  BY <1>2, <1>5, <1>7, <1>8

\* What a step of a thread does to the account of its process.
LEMMA HomeAdmitted ==
    ASSUME Typed, NEW w \in Workers, WorkerStep(w), NEW p \in Processes, p = home[w],
           NEW age \in 0..Window + Patience
    PROVE  /\ Admitted({p}, age) \in Nat
           /\ Admitted({p}, age)' >= Admitted({p}, age)
           /\ (\E from : Admit(w, from)) => Admitted({p}, age)' = Admitted({p}, age) + 1
<1>1. Admitted({p}, age) \in Nat
  BY AdmissionsFinite, LimitAssumption DEF Typed
<1>2. ASSUME NEW from, Admit(w, from) PROVE Admitted({p}, age)' = Admitted({p}, age) + 1
  <2>1. served' = [served EXCEPT ![p][0] = @ + 1] /\ ServedOK
    BY <1>2, AdmitTyped DEF Typed
  <2> QED
    BY <2>1, AdmittedMore
<1>3. ASSUME UNCHANGED served PROVE Admitted({p}, age)' = Admitted({p}, age)
  BY <1>3, AdmittedSame
<1>4. Admitted({p}, age)' >= Admitted({p}, age)
  <2>1. Admitted({p}, age)' \in {Admitted({p}, age), Admitted({p}, age) + 1}
    BY <1>2, <1>3, AdmitsOrNot
  <2>2. PICK n \in Nat : n = Admitted({p}, age)
    BY <1>1
  <2>3. Admitted({p}, age)' \in {n, n + 1}
    BY <2>1, <2>2
  <2>4. Admitted({p}, age)' >= n
    BY <2>3
  <2> QED
    BY <2>2, <2>4
<1> QED
  BY <1>1, <1>2, <1>4

\* The dates of a trimmed deque, ...
LEMMA TrimmedDates ==
    ASSUME NEW s \in Seq(0..Old), NEW g \in [DOMAIN s -> 0..Old], Ordered(s, g)
    PROVE  \E m \in Nat : \E h \in [1..m -> 0..Old] :
              /\ Recent(s) \in Seq(0..Old) /\ Len(Recent(s)) = m /\ DOMAIN Recent(s) = 1..m
              /\ Ordered(Recent(s), h)
              /\ \A age : /\ Cardinality(Young(h, age)) <= Cardinality(Young(g, age))
                          /\ Cardinality(Young(h, age)) \in Nat
                          /\ Cardinality(Young(g, age)) \in Nat
<1>1. PICK n \in Nat : Len(s) = n /\ DOMAIN s = 1..n
  BY LenProperties
<1>2. PICK c \in 0..n :
         /\ Recent(s) \in Seq(0..Old) /\ Len(Recent(s)) = n - c
         /\ \A i \in 1..n - c : Recent(s)[i] = s[i + c]
  BY <1>1, Trimmed
<1>3. PICK r : r = Recent(s)
  OBVIOUS
<1>4. r \in Seq(0..Old) /\ Len(r) = n - c /\ \A i \in 1..n - c : r[i] = s[i + c]
  BY <1>2, <1>3
<1>5. DOMAIN r = 1..n - c
  BY <1>4, LenProperties
<1>6. g \in [1..n -> 0..Old]
  BY <1>1
<1>7. PICK h \in [1..n - c -> 0..Old] :
         /\ Ordered(r, h)
         /\ \A age : /\ Cardinality(Young(h, age)) <= Cardinality(Young(g, age))
                     /\ Cardinality(Young(h, age)) \in Nat
                     /\ Cardinality(Young(g, age)) \in Nat
         /\ n - c > 0 => h[1] <= g[1]
  <2>1. DOMAIN s = 1..n /\ DOMAIN r = 1..n - c /\ \A i \in 1..n - c : r[i] = s[i + c]
    BY <1>1, <1>4, <1>5
  <2> QED
    BY <1>6, <2>1, DatesDropped, Zenon
<1>8. n - c \in Nat
  OBVIOUS
<1> QED
  BY <1>3, <1>4, <1>5, <1>7, <1>8

\* ... and of one with a new entry.
LEMMA AppendedDates ==
    ASSUME NEW m \in Nat, NEW r \in Seq(0..Old), DOMAIN r = 1..m, NEW e \in 0..Old,
           NEW h \in [1..m -> 0..Old], Ordered(r, h)
    PROVE  \E k \in [DOMAIN Append(r, e) -> 0..Old] :
              /\ Ordered(Append(r, e), k)
              /\ \A age \in Nat : Cardinality(Young(k, age)) = Cardinality(Young(h, age)) + 1
              /\ k[1] = IF m = 0 THEN 0 ELSE h[1]
<1>1. PICK t : t = Append(r, e)
  OBVIOUS
<1>2. Len(r) = m
  <2>1. Len(r) \in Nat /\ 1..Len(r) = 1..m
    BY LenProperties
  <2> QED
    BY <2>1
<1>3. t \in Seq(0..Old) /\ Len(t) = m + 1 /\ (\A i \in 1..m : t[i] = r[i]) /\ t[m + 1] = e
  BY <1>1, <1>2, AppendProperties
<1>4. DOMAIN t = 1..m + 1 /\ t[m + 1] \in Nat
  BY <1>3, LenProperties, LimitAssumption DEF Old
<1> DEFINE k == [i \in 1..m + 1 |-> IF i = m + 1 THEN 0 ELSE h[i]]
<1>5. \A i \in 1..m + 1 : i = m + 1 \/ i \in 1..m
  OBVIOUS
<1>6. /\ k \in [1..m + 1 -> 0..Old] /\ k[m + 1] = 0
      /\ \A i \in 1..m : k[i] = h[i]
  <2>1. 0 \in 0..Old /\ m + 1 \in 1..m + 1 /\ \A i \in 1..m : i # m + 1 /\ i \in 1..m + 1
    BY LimitAssumption DEF Old
  <2> QED
    BY <1>5, <2>1
<1>7. \A i \in 1..m + 1 : k[i] \in Nat
  BY <1>6, LimitAssumption DEF Old
<1> HIDE DEF k
<1>8. ASSUME NEW i \in 1..m + 1 PROVE k[i] <= t[i]
  <2>1. CASE i = m + 1
    BY <1>4, <1>6, <2>1
  <2>2. CASE i \in 1..m
    BY <1>3, <1>6, <2>2 DEF Ordered
  <2> QED
    BY <1>5, <2>1, <2>2
<1>9. ASSUME NEW i \in 1..m + 1, NEW j \in 1..m + 1, i <= j PROVE k[j] <= k[i]
  <2>1. CASE j = m + 1
    BY <1>6, <1>7, <2>1
  <2>2. CASE j \in 1..m
    <3>1. i \in 1..m
      BY <1>9, <2>2
    <3> QED
      BY <1>6, <1>9, <2>2, <3>1 DEF Ordered
  <2> QED
    BY <1>5, <2>1, <2>2
<1>10. Ordered(t, k)
  BY <1>4, <1>8, <1>9 DEF Ordered
<1>11. ASSUME NEW age \in Nat
      PROVE  Cardinality(Young(k, age)) = Cardinality(Young(h, age)) + 1
  <2>1. DOMAIN h = 1..m /\ DOMAIN k = 1..m + 1 /\ k[m + 1] <= age
    BY <1>6
  <2>2. \A i \in 1..m : k[i] = h[i]
    BY <1>6
  <2> QED
    BY <2>1, <2>2, YoungAppended
<1>12. k[1] = IF m = 0 THEN 0 ELSE h[1]
  <2>1. CASE m = 0
    <3>1. m + 1 = 1
      BY <2>1
    <3> QED
      BY <1>6, <2>1, <3>1
  <2>2. CASE m # 0
    <3>1. 1 \in 1..m
      BY <2>2
    <3> QED
      BY <1>6, <2>2, <3>1
  <2> QED
    BY <2>1, <2>2
<1>13. k \in [DOMAIN Append(r, e) -> 0..Old] /\ Ordered(Append(r, e), k)
  BY <1>1, <1>4, <1>6, <1>10
<1> QED
  BY <1>11, <1>12, <1>13

\* The same under the lock, where the reading is of the moment.
LEMMA AppendedNow ==
    ASSUME NEW m \in Nat, NEW r \in Seq(0..Old), DOMAIN r = 1..m,
           NEW h \in [1..m -> 0..Old], Ordered(r, h)
    PROVE  \E k \in [DOMAIN Append(r, 0) -> 0..Old] :
              /\ Ordered(Append(r, 0), k)
              /\ \A age \in Nat : Cardinality(Young(k, age)) = Cardinality(Young(h, age)) + 1
<1>1. PICK e \in 0..Old : e = 0
  BY LimitAssumption DEF Old
<1>2. \E k \in [DOMAIN Append(r, e) -> 0..Old] :
         /\ Ordered(Append(r, e), k)
         /\ \A age \in Nat : Cardinality(Young(k, age)) = Cardinality(Young(h, age)) + 1
         /\ k[1] = IF m = 0 THEN 0 ELSE h[1]
  BY AppendedDates
<1> QED
  BY <1>1, <1>2

\* A thread that trims, and then appends or not, at a gate of the lock.
LEMMA LockedDates ==
    ASSUME Typed, GatesFit, NEW w \in Workers, AllowLocked(w) \/ RefuseLocked(w),
           NEW p \in Processes, p = home[w], DatedFits(p)
    PROVE  DatedFits(p)'
<1>0. /\ Typed' /\ Static /\ GatesFit' /\ WorkerStep(w)
  BY WorkerTyped DEF WorkerStep, InLimiter
<1>1. PICK s \in Seq(0..Old) : s = hits[p]
  BY DEF Typed
<1>2. PICK g \in [DOMAIN s -> 0..Old] :
         /\ Ordered(s, g)
         /\ \A age \in 0..Window + Patience : Cardinality(Young(g, age)) <= Admitted({p}, age)
  BY <1>1 DEF DatedFits, Dates, Ordered
<1>01. PICK m \in Nat : \E h \in [1..m -> 0..Old] :
         /\ Recent(s) \in Seq(0..Old) /\ Len(Recent(s)) = m /\ DOMAIN Recent(s) = 1..m
         /\ Ordered(Recent(s), h)
         /\ \A age : /\ Cardinality(Young(h, age)) <= Cardinality(Young(g, age))
                     /\ Cardinality(Young(h, age)) \in Nat
                     /\ Cardinality(Young(g, age)) \in Nat
  BY <1>2, TrimmedDates
<1>3. PICK h \in [1..m -> 0..Old] :
         /\ Recent(s) \in Seq(0..Old) /\ Len(Recent(s)) = m /\ DOMAIN Recent(s) = 1..m
         /\ Ordered(Recent(s), h)
         /\ \A age : /\ Cardinality(Young(h, age)) <= Cardinality(Young(g, age))
                     /\ Cardinality(Young(h, age)) \in Nat
                     /\ Cardinality(Young(g, age)) \in Nat
  BY <1>01
<1>4. ASSUME NEW age \in 0..Window + Patience
      PROVE  /\ Cardinality(Young(h, age)) <= Admitted({p}, age)
             /\ Cardinality(Young(h, age)) \in Nat /\ Admitted({p}, age) \in Nat
  <2>1. Admitted({p}, age) \in Nat
    BY <1>0, HomeAdmitted
  <2>2. Cardinality(Young(g, age)) <= Admitted({p}, age)
    BY <1>2
  <2>3. /\ Cardinality(Young(h, age)) <= Cardinality(Young(g, age))
        /\ Cardinality(Young(h, age)) \in Nat
        /\ Cardinality(Young(g, age)) \in Nat
    BY <1>3
  <2> QED
    BY <2>1, <2>2, <2>3
<1>5. \A v \in Threads(p) : gate'[v] # "count"
  <2>1. kind' = "locked"
    BY <1>0 DEF AllowLocked, RefuseLocked, Static
  <2> QED
    BY <1>0, <2>1 DEF GatesFit, Threads, Timed
<1>6. CASE RefuseLocked(w)
  <2>1. hits'[p] = Recent(s) /\ UNCHANGED served
    BY <1>1, <1>6 DEF RefuseLocked, Refuse, Typed
  <2>2. ASSUME NEW age \in 0..Window + Patience
        PROVE  Cardinality(Young(h, age)) <= Admitted({p}, age)'
    <3>1. Admitted({p}, age)' = Admitted({p}, age)
      BY <2>1, AdmittedSame
    <3> QED
      BY <1>4, <3>1
  <2>3. h \in [DOMAIN Recent(s) -> 0..Old] /\ Ordered(Recent(s), h)
    BY <1>3
  <2> QED
    BY <1>0, <1>5, <2>1, <2>2, <2>3, DatesThen
<1>7. CASE AllowLocked(w)
  <2>1. hits'[p] = Append(Recent(s), 0) /\ Admit(w, "ask")
    BY <1>1, <1>7 DEF AllowLocked, Typed
  <2>2. 0 \in 0..Old
    BY LimitAssumption DEF Old
  <2>3. PICK k \in [DOMAIN Append(Recent(s), 0) -> 0..Old] :
           /\ Ordered(Append(Recent(s), 0), k)
           /\ \A age \in Nat : Cardinality(Young(k, age)) = Cardinality(Young(h, age)) + 1
    <3>1. PICK r \in Seq(0..Old) : r = Recent(s) /\ DOMAIN r = 1..m /\ Ordered(r, h)
      BY <1>3
    <3>2. \E k \in [DOMAIN Append(r, 0) -> 0..Old] :
             /\ Ordered(Append(r, 0), k)
             /\ \A age \in Nat : Cardinality(Young(k, age)) = Cardinality(Young(h, age)) + 1
      BY <3>1, AppendedNow
    <3> QED
      BY <3>1, <3>2
  <2>4. ASSUME NEW age \in 0..Window + Patience
        PROVE  Cardinality(Young(k, age)) <= Admitted({p}, age)'
    <3>1. Admitted({p}, age)' = Admitted({p}, age) + 1
      BY <1>0, <2>1, HomeAdmitted
    <3>2. age \in Nat
      BY LimitAssumption
    <3>3. Cardinality(Young(k, age)) = Cardinality(Young(h, age)) + 1
      BY <2>3, <3>2
    <3>4. PICK x, y \in Nat : /\ x = Cardinality(Young(h, age)) /\ y = Admitted({p}, age)
                             /\ x <= y
      BY <1>4
    <3>5. Cardinality(Young(k, age)) = x + 1 /\ Admitted({p}, age)' = y + 1 /\ x + 1 <= y + 1
      BY <3>1, <3>3, <3>4
    <3> QED
      BY <3>5
  <2> QED
    BY <1>0, <1>5, <2>1, <2>3, <2>4, DatesThen
<1> QED
  BY <1>6, <1>7

\* popleft, without a lock.
LEMMA PoppedDates ==
    ASSUME Typed, GatesFit, NEW w \in Workers, Pop(w), NEW p \in Processes, p = home[w],
           hits[p] # <<>>, DatedFits(p)
    PROVE  DatedFits(p)'
<1>0. /\ Typed' /\ Static /\ WorkerStep(w) /\ UNCHANGED served
      /\ Pass(w, "pop", "peek") \/ Pass(w, "pop", "out")
  BY WorkerTyped DEF WorkerStep, InLimiter, Pop, Emptied
<1>1. PICK s \in Seq(0..Old) : s = hits[p] /\ s # <<>>
  BY DEF Typed
<1>2. hits'[p] = Tail(s)
  BY <1>1 DEF Pop, Emptied, Typed
<1>3. PICK g \in [DOMAIN s -> 0..Old] :
         /\ Ordered(s, g)
         /\ \A age \in 0..Window + Patience : Cardinality(Young(g, age)) <= Admitted({p}, age)
         /\ \A v \in Threads(p) : gate[v] = "count" => g[1] <= Window + seen[v]
  BY <1>1 DEF DatedFits, Dates, Ordered
<1>4. PICK n \in Nat : n > 0 /\ DOMAIN s = 1..n /\ Len(s) = n
  <2>1. Len(s) \in Nat /\ DOMAIN s = 1..Len(s) /\ Len(s) # 0
    BY <1>1, LenProperties, EmptySeq
  <2>2. PICK n \in Nat : n = Len(s)
    BY <2>1
  <2>3. n > 0 /\ DOMAIN s = 1..n /\ Len(s) = n
    BY <2>1, <2>2
  <2> QED
    BY <2>3
<1>5. PICK r \in Seq(0..Old) : r = Tail(s)
  BY <1>1, HeadTailProperties
<1>6. DOMAIN r = 1..n - 1 /\ (\A i \in 1..n - 1 : r[i] = s[i + 1]) /\ (r # <<>> => n - 1 > 0)
  <2>1. Len(r) = n - 1 /\ \A i \in 1..Len(r) : r[i] = s[i + 1]
    BY <1>1, <1>4, <1>5, HeadTailProperties
  <2>2. r # <<>> => Len(r) # 0
    BY EmptySeq
  <2>3. DOMAIN r = 1..Len(r)
    BY LenProperties
  <2> QED
    BY <1>4, <2>1, <2>2, <2>3
<1>7. PICK h \in [1..n - 1 -> 0..Old] :
         /\ Ordered(r, h)
         /\ \A age : /\ Cardinality(Young(h, age)) <= Cardinality(Young(g, age))
                     /\ Cardinality(Young(h, age)) \in Nat
                     /\ Cardinality(Young(g, age)) \in Nat
         /\ n - 1 > 0 => h[1] <= g[1]
  <2>1. 1 \in 0..n /\ g \in [1..n -> 0..Old] /\ DOMAIN s = 1..n
    BY <1>4
  <2>2. Ordered(s, g) /\ DOMAIN r = 1..n - 1 /\ \A i \in 1..n - 1 : r[i] = s[i + 1]
    BY <1>3, <1>6
  <2> QED
    BY <2>1, <2>2, DatesDropped, Zenon
<1>8. ASSUME NEW age \in 0..Window + Patience
      PROVE  Cardinality(Young(h, age)) <= Admitted({p}, age)'
  <2>1. Admitted({p}, age) \in Nat
    BY <1>0, HomeAdmitted
  <2>2. Admitted({p}, age)' = Admitted({p}, age)
    BY <1>0, AdmittedSame
  <2>3. Cardinality(Young(g, age)) <= Admitted({p}, age)
    BY <1>3
  <2>4. /\ Cardinality(Young(h, age)) <= Cardinality(Young(g, age))
        /\ Cardinality(Young(h, age)) \in Nat
        /\ Cardinality(Young(g, age)) \in Nat
    BY <1>7
  <2>5. Cardinality(Young(h, age)) <= Admitted({p}, age)
    BY <2>1, <2>3, <2>4
  <2> QED
    BY <2>2, <2>5
<1>9. ASSUME NEW v \in Threads(p), gate'[v] = "count", r # <<>> PROVE h[1] <= Window + seen'[v]
  <2>1. gate'[w] # "count"
    BY <1>0 DEF Pass, Typed
  <2>2. v \in Workers /\ v # w
    BY <1>9, <2>1 DEF Threads
  <2>3. gate[v] = "count" /\ seen'[v] = seen[v]
    BY <1>0, <1>9, <2>2, OthersSame
  <2>4. g[1] <= Window + seen[v] /\ h[1] <= g[1]
    BY <1>3, <1>6, <1>7, <1>9, <2>3
  <2>5. h[1] \in Int /\ g[1] \in Int /\ seen[v] \in Int /\ Window \in Int
    <3>1. 1 \in 1..n - 1 /\ 1 \in 1..n
      BY <1>4, <1>6, <1>9
    <3> QED
      BY <1>4, <2>2, <3>1, LimitAssumption DEF Typed
  <2> QED
    BY <2>3, <2>4, <2>5
<1>10. h \in [DOMAIN r -> 0..Old]
  BY <1>6
<1>11. hits'[p] = r
  BY <1>2, <1>5
<1> QED
  BY <1>0, <1>7, <1>8, <1>9, <1>10, <1>11, DatesThen

\* append, without a lock.
LEMMA AppendHitDates ==
    ASSUME Typed, GatesFit, NEW w \in Workers, AppendHit(w), NEW p \in Processes, p = home[w],
           DatedFits(p)
    PROVE  DatedFits(p)'
<1>0. Typed' /\ Static /\ WorkerStep(w)
  BY WorkerTyped DEF WorkerStep, InLimiter
<1>1. PICK s \in Seq(0..Old) : s = hits[p]
  BY DEF Typed
<1>2. hits'[p] = Append(s, seen[w]) /\ Admit(w, "append")
  BY <1>1 DEF AppendHit, Typed
<1>3. PICK g \in [DOMAIN s -> 0..Old] :
         /\ Ordered(s, g)
         /\ \A age \in 0..Window + Patience : Cardinality(Young(g, age)) <= Admitted({p}, age)
         /\ \A v \in Threads(p) : gate[v] = "count" /\ s # <<>> => g[1] <= Window + seen[v]
  BY <1>1 DEF DatedFits, Dates, Ordered
<1>4. PICK n \in Nat : DOMAIN s = 1..n /\ (s # <<>> <=> n # 0)
  <2>1. Len(s) \in Nat /\ DOMAIN s = 1..Len(s) /\ (s # <<>> <=> Len(s) # 0)
    BY LenProperties, EmptySeq
  <2> QED
    BY <2>1
<1>5. PICK e \in 0..Old : e = seen[w]
  BY LimitAssumption DEF Typed, Old
<1>6. PICK k \in [DOMAIN Append(s, e) -> 0..Old] :
         /\ Ordered(Append(s, e), k)
         /\ \A age \in Nat : Cardinality(Young(k, age)) = Cardinality(Young(g, age)) + 1
         /\ k[1] = IF n = 0 THEN 0 ELSE g[1]
  <2>1. DOMAIN s = 1..n /\ g \in [1..n -> 0..Old] /\ Ordered(s, g)
    BY <1>3, <1>4
  <2> QED
    BY <2>1, AppendedDates, Zenon
<1>7. ASSUME NEW age \in 0..Window + Patience
      PROVE  Cardinality(Young(k, age)) <= Admitted({p}, age)'
  <2>1. Admitted({p}, age)' = Admitted({p}, age) + 1 /\ Admitted({p}, age) \in Nat
    BY <1>0, <1>2, HomeAdmitted
  <2>2. age \in Nat
    BY LimitAssumption
  <2>3. Cardinality(Young(k, age)) = Cardinality(Young(g, age)) + 1
    BY <1>6, <2>2
  <2>4. Cardinality(Young(g, age)) \in Nat
    BY <1>3, <1>4, YoungFinite
  <2>5. PICK x, y \in Nat : /\ x = Cardinality(Young(g, age)) /\ y = Admitted({p}, age)
                           /\ x <= y
    BY <1>3, <2>1, <2>4
  <2>6. Cardinality(Young(k, age)) = x + 1 /\ Admitted({p}, age)' = y + 1 /\ x + 1 <= y + 1
    BY <2>1, <2>3, <2>5
  <2> QED
    BY <2>6
<1>8. ASSUME NEW v \in Threads(p), gate'[v] = "count" PROVE k[1] <= Window + seen'[v]
  <2>1. gate'[w] # "count"
    BY <1>2 DEF Admit, Pass, Typed
  <2>2. v \in Workers /\ v # w
    BY <1>8, <2>1 DEF Threads
  <2>3. gate[v] = "count" /\ seen'[v] = seen[v] /\ seen[v] \in Nat /\ Window \in Nat
    <3>1. gate'[v] = gate[v] /\ seen'[v] = seen[v]
      BY <1>0, <2>2, OthersSame
    <3>2. seen[v] \in Nat /\ Window \in Nat
      BY <2>2, LimitAssumption DEF Typed
    <3> QED
      BY <1>8, <3>1, <3>2
  <2>4. CASE n = 0
    BY <1>6, <2>3, <2>4
  <2>5. CASE n # 0
    <3>1. g[1] <= Window + seen[v]
      BY <1>3, <1>4, <2>3, <2>5
    <3> QED
      BY <1>6, <2>3, <2>5, <3>1
  <2> QED
    BY <2>4, <2>5
<1>9. hits'[p] = Append(s, e)
  BY <1>2, <1>5
<1> QED
  BY <1>0, <1>6, <1>7, <1>8, <1>9, DatesThen

\* The steps of a thread, for the deque of its process ...
LEMMA HomeDated ==
    ASSUME Typed, GatesFit, NEW w \in Workers, WorkerStep(w),
           NEW p \in Processes, p = home[w], DatedFits(p)
    PROVE  DatedFits(p)'
<1>0. /\ Typed' /\ Static
      /\ \A age \in 0..Window + Patience : Admitted({p}, age)' >= Admitted({p}, age)
  BY WorkerTyped, HomeAdmitted
<1>1. ASSUME hits'[p] = hits[p],
             gate'[w] = "count" /\ hits[p] # <<>> => hits[p][1] <= Window + seen'[w]
      PROVE  DatedFits(p)'
  <2>1. ASSUME NEW v \in Threads(p), gate'[v] = "count" /\ hits[p] # <<>>
        PROVE  (gate[v] = "count" /\ seen'[v] = seen[v]) \/ hits[p][1] <= Window + seen'[v]
    <3>1. CASE v = w
      BY <1>1, <2>1, <3>1
    <3>2. CASE v # w
      BY <2>1, <3>2, OthersSame DEF Threads
    <3> QED
      BY <3>1, <3>2
  <2> QED
    BY <1>0, <1>1, <2>1, DatesStay
<1>2. CASE AllowLocked(w) \/ RefuseLocked(w)
  BY <1>2, LockedDates
<1>3. CASE Pop(w)
  <2>1. CASE hits[p] # <<>>
    BY <1>3, <2>1, PoppedDates
  <2>2. CASE hits[p] = <<>>
    <3>1. hits'[p] = hits[p]
      BY <1>3, <2>2 DEF Pop, Emptied
    <3> QED
      BY <1>1, <2>2, <3>1
  <2> QED
    BY <2>1, <2>2
<1>4. CASE AppendHit(w)
  BY <1>4, AppendHitDates
<1>5. CASE Peek(w)
  <2>1. hits'[p] = hits[p] /\ (hits[p] # <<>> => gate'[w] = "head")
    BY <1>5 DEF Peek, Pass, memoryVars, Typed
  <2> QED
    BY <1>1, <2>1
<1>6. CASE LookAtHead(w)
  <2>1. hits'[p] = hits[p] /\ seen'[w] = seen[w]
    BY <1>6 DEF LookAtHead, Emptied
  <2>2. ASSUME gate'[w] = "count", hits[p] # <<>> PROVE hits[p][1] <= Window + seen[w]
    <3>1. gate' = [gate EXCEPT ![w] = IF OldestPast(w) THEN "pop" ELSE "count"]
      BY <1>6, <2>2 DEF LookAtHead, Emptied, Pass
    <3>2. ~ OldestPast(w)
      BY <2>2, <3>1 DEF Typed
    <3>3. PICK s \in Seq(0..Old) : s = hits[p] /\ s # <<>>
      BY <2>2 DEF Typed
    <3>4. ~ (s[1] - seen[w] > Window)
      BY <3>2, <3>3 DEF OldestPast
    <3>5. s[1] \in 0..Old
      <4>1. Len(s) \in Nat /\ Len(s) # 0
        BY <3>3, LenProperties, EmptySeq
      <4>2. 1 \in 1..Len(s)
        BY <4>1
      <4> QED
        BY <4>2, ElementOfSeq
    <3>6. PICK a, b \in Nat : a = s[1] /\ b = seen[w]
      BY <3>5, LimitAssumption DEF Typed, Old
    <3>7. a <= Window + b
      BY <3>4, <3>6, LimitAssumption
    <3> QED
      BY <3>3, <3>6, <3>7
  <2> QED
    BY <1>1, <2>1, <2>2
<1>7. CASE Arrive(w) \/ ReadClock(w) \/ CountHits(w) \/ Leave(w)
  <2>1. hits'[p] = hits[p]
    BY <1>7 DEF Arrive, ReadClock, CountHits, Leave, memoryVars
  <2>2. gate'[w] # "count"
    BY <1>7 DEF Arrive, ReadClock, CountHits, Leave, Refuse, Pass, Typed
  <2> QED
    BY <1>1, <2>1, <2>2
<1>8. CASE \/ Ask(w) \/ Connect(w) \/ Ping(w) \/ Return(w)
           \/ Incr(w) \/ IncrFails(w) \/ Expire(w) \/ ExpireFails(w)
  <2>1. hits'[p] = hits[p]
    BY <1>8, RedisTyped DEF memoryVars
  <2>2. gate'[w] # "count"
    <3>1. GatesFit' /\ Redis'
      BY <1>8, RedisOnward, RedisTyped DEF Redis, Static
    <3> QED
      BY <3>1 DEF GatesFit, Redis, Timed
  <2> QED
    BY <1>1, <2>1, <2>2
<1> QED
  BY <1>2, <1>3, <1>4, <1>5, <1>6, <1>7, <1>8 DEF WorkerStep, InLimiter

\* ... and for the others.
LEMMA WorkerDated ==
    ASSUME Typed, GatesFit, EntriesDated, NEW w \in Workers, WorkerStep(w)
    PROVE  EntriesDated'
<1>0. Typed' /\ Static
  BY WorkerTyped
<1>1. ASSUME NEW p \in Processes PROVE DatedFits(p)'
  <2>1. DatedFits(p)
    BY DEF EntriesDated, DatedFits
  <2>2. CASE p = home[w]
    BY <2>1, <2>2, HomeDated
  <2>3. CASE p # home[w]
    <3>1. hits'[p] = hits[p] /\ served'[p] = served[p]
      BY <2>3, ElsewhereSame
    <3>2. \A age : Admitted({p}, age)' = Admitted({p}, age)
      BY <3>1, AdmittedSame
    <3>3. ASSUME NEW age \in 0..Window + Patience PROVE Admitted({p}, age)' >= Admitted({p}, age)
      <4>1. Admitted({p}, age) \in Nat
        BY AdmissionsFinite, LimitAssumption DEF Typed
      <4> QED
        BY <3>2, <4>1
    <3>4. \A v \in Threads(p) : gate'[v] = gate[v] /\ seen'[v] = seen[v]
      BY <2>3, OthersSame DEF Threads
    <3> QED
      BY <1>0, <2>1, <3>1, <3>3, <3>4, DatesStay
  <2> QED
    BY <2>2, <2>3
<1> QED
  BY <1>1 DEF EntriesDated, DatedFits

\* A second later the dates are a second older, like the entries.
LEMMA OlderDates ==
    ASSUME Typed, GatesFit, PassSecond, NEW p \in Processes, DatedFits(p)
    PROVE  DatedFits(p)'
<1>0. Static /\ Typed'
  BY OtherTyped
<1>1. PICK s \in Seq(0..Old) : s = hits[p]
  BY DEF Typed
<1>2. PICK n \in Nat : DOMAIN s = 1..n /\ (s # <<>> => n # 0)
  <2>1. Len(s) \in Nat /\ DOMAIN s = 1..Len(s) /\ (s # <<>> => Len(s) # 0)
    BY LenProperties, EmptySeq
  <2> QED
    BY <2>1
<1>3. \A i \in 1..n : s[i] \in 0..Old
  <2>1. Len(s) \in Nat /\ 1..Len(s) = 1..n
    BY <1>2, LenProperties
  <2> QED
    BY <2>1, ElementOfSeq
<1>4. PICK g \in [1..n -> 0..Old] :
         /\ Ordered(s, g)
         /\ \A age \in 0..Window + Patience : Cardinality(Young(g, age)) <= Admitted({p}, age)
         /\ \A v \in Threads(p) : gate[v] = "count" /\ s # <<>> => g[1] <= Window + seen[v]
  BY <1>1, <1>2 DEF DatedFits, Dates, Ordered
<1>5. PICK t : t = [i \in 1..n |-> Aged(s[i])]
  OBVIOUS
<1>6. PICK k : k = [i \in 1..n |-> Aged(g[i])]
  OBVIOUS
<1>7. hits'[p] = t
  BY <1>1, <1>2, <1>5 DEF PassSecond
<1>8. \A a, b \in 0..Old : Aged(a) \in 0..Old /\ Aged(a) <= a + 1 /\ (a <= b => Aged(a) <= Aged(b))
  BY LimitAssumption DEF Aged, Old
<1>9. k \in [DOMAIN t -> 0..Old] /\ DOMAIN t = 1..n
  BY <1>5, <1>6, <1>8
<1>10. Ordered(t, k)
  <2>1. \A i \in 1..n : k[i] = Aged(g[i]) /\ t[i] = Aged(s[i]) /\ g[i] \in 0..Old /\ s[i] \in 0..Old
    BY <1>3, <1>5, <1>6
  <2>2. \A i \in 1..n : k[i] <= t[i]
    BY <1>2, <1>4, <1>8, <2>1 DEF Ordered
  <2>3. \A i, j \in 1..n : i <= j => k[j] <= k[i]
    BY <1>2, <1>4, <1>8, <2>1 DEF Ordered
  <2> QED
    BY <1>9, <2>2, <2>3 DEF Ordered
<1>11. ASSUME NEW age \in 0..Window + Patience
       PROVE  Cardinality(Young(k, age)) <= Admitted({p}, age)'
  <2>1. Admitted({p}, age)' = Admitted({p}, age - 1)
    BY AdmittedOlder DEF PassSecond, Typed
  <2>2. Young(k, age) = Young(g, age - 1)
    <3>1. DOMAIN k = DOMAIN g /\ \A i \in DOMAIN g : g[i] \in 0..Old /\ k[i] = Aged(g[i])
      BY <1>6
    <3> QED
      BY <3>1, YoungOlder
  <2>3. CASE age = 0
    <3>1. Young(g, age - 1) = {}
      BY <2>3, LimitAssumption DEF Young, Old
    <3>2. Cardinality(Young(g, age - 1)) = 0
      BY <3>1, FS_EmptySet
    <3>3. Admitted({p}, age - 1) = 0
      BY <2>3, AdmittedNever
    <3> QED
      BY <2>1, <2>2, <3>2, <3>3
  <2>4. CASE age # 0
    <3>1. age - 1 \in 0..Window + Patience
      BY <2>4, LimitAssumption
    <3>2. Cardinality(Young(g, age - 1)) <= Admitted({p}, age - 1)
      BY <1>4, <3>1
    <3> QED
      BY <2>1, <2>2, <3>2
  <2> QED
    BY <2>3, <2>4
<1>12. ASSUME NEW v \in Threads(p), gate'[v] = "count" /\ t # <<>>
       PROVE  k[1] <= Window + seen'[v]
  <2>1. gate[v] = "count" /\ seen'[v] = seen[v] + 1 /\ seen[v] \in Nat /\ Window \in Nat
    BY <1>12, LimitAssumption DEF PassSecond, Threads, Timed, Typed
  <2>2. n # 0
    <3>1. CASE n = 0
      <4>1. 1..n = {}
        BY <3>1
      <4>2. DOMAIN t = {}
        BY <1>9, <4>1
      <4>3. t \in Seq(0..Old)
        BY <1>0, <1>7 DEF Typed
      <4>4. Len(t) \in Nat /\ DOMAIN t = 1..Len(t) /\ (Len(t) = 0 <=> t = <<>>)
        BY <4>3, LenProperties, EmptySeq
      <4>5. Len(t) = 0
        BY <4>2, <4>4
      <4> QED
        BY <1>12, <4>4, <4>5
    <3> QED
      BY <3>1
  <2>3. s # <<>>
    BY <1>2, <2>2, EmptySeq
  <2>4. g[1] <= Window + seen[v]
    BY <1>4, <2>1, <2>3
  <2>5. PICK a \in 0..Old : a = g[1] /\ k[1] = Aged(a)
    <3>1. 1 \in 1..n
      BY <2>2
    <3> QED
      BY <1>6, <3>1
  <2>6. PICK b \in Int : b = Aged(a) /\ b <= a + 1 /\ a \in Int
    BY <1>8, LimitAssumption DEF Old
  <2> QED
    BY <2>1, <2>4, <2>5, <2>6
<1> QED
  BY <1>0, <1>7, <1>9, <1>10, <1>11, <1>12, DatesThen

LEMMA OtherDated ==
    ASSUME Typed, GatesFit, EntriesDated,
           (\E p \in Processes : Restart(p)) \/ PassSecond \/ UNCHANGED limitVars
    PROVE  EntriesDated'
<1>0. Typed' /\ Static
  BY OtherTyped
<1> SUFFICES ASSUME NEW p \in Processes PROVE DatedFits(p)'
  BY DEF EntriesDated, DatedFits
<1>1. DatedFits(p)
  BY DEF EntriesDated, DatedFits
<1>2. ASSUME hits'[p] = hits[p], served'[p] = served[p],
             \A v \in Threads(p) : gate'[v] = gate[v] /\ seen'[v] = seen[v]
      PROVE  DatedFits(p)'
  <2>1. \A age : Admitted({p}, age)' = Admitted({p}, age)
    BY <1>2, AdmittedSame
  <2>2. ASSUME NEW age \in 0..Window + Patience PROVE Admitted({p}, age)' >= Admitted({p}, age)
    <3>1. Admitted({p}, age) \in Nat
      BY AdmissionsFinite, LimitAssumption DEF Typed
    <3> QED
      BY <2>1, <3>1
  <2> QED
    BY <1>0, <1>1, <1>2, <2>2, DatesStay
<1>3. ASSUME NEW q \in Processes, Restart(q) PROVE DatedFits(p)'
  <2>1. CASE p # q
    <3>1. hits'[p] = hits[p] /\ served'[p] = served[p]
      BY <1>3, <2>1 DEF Restart, Typed, ServedOK
    <3>2. \A v \in Threads(p) : gate'[v] = gate[v] /\ seen'[v] = seen[v]
      BY <1>3, <2>1 DEF Restart, Threads
    <3> QED
      BY <1>2, <3>1, <3>2
  <2>2. CASE p = q
    <3>1. hits'[p] = <<>>
      BY <1>3, <2>2 DEF Restart, Typed
    <3>2. PICK k : k = [i \in {} |-> 0]
      OBVIOUS
    <3>3. Len(<<>>) = 0 /\ DOMAIN <<>> = 1..Len(<<>>)
      BY EmptySeq, LenProperties
    <3>4. DOMAIN <<>> = {} /\ k \in [DOMAIN <<>> -> 0..Old] /\ Ordered(<<>>, k)
      BY <3>2, <3>3 DEF Ordered
    <3>5. ASSUME NEW age \in 0..Window + Patience
          PROVE  Cardinality(Young(k, age)) <= Admitted({p}, age)'
      <4>1. Young(k, age) = {}
        BY <3>2 DEF Young
      <4>2. Cardinality(Young(k, age)) = 0
        BY <4>1, FS_EmptySet
      <4>3. Admitted({p}, age)' \in Nat
        BY <1>0, AdmissionsFiniteThen, LimitAssumption DEF Typed
      <4> QED
        BY <4>2, <4>3
    <3> QED
      BY <1>0, <3>1, <3>4, <3>5, DatesThen
  <2> QED
    BY <2>1, <2>2
<1>4. CASE PassSecond
  BY <1>1, <1>4, OlderDates
<1>5. CASE UNCHANGED limitVars
  BY <1>2, <1>5 DEF limitVars, memoryVars
<1> QED
  BY <1>3, <1>4, <1>5

-----------------------------------------------------------------------------
(* The invariant *)

\* At the start nobody has been admitted, and every account is right.
LEMMA StartCounts ==
    ASSUME LimitInit
    PROVE  KeyCounts /\ LockedCounts /\ EntriesDated
<1>1. ASSUME NEW P \in SUBSET Processes, NEW age \in Int, age <= Window + Patience
      PROVE  Admitted(P, age) = 0
  <2>1. \A p \in P : served[p] = NoneServed
    BY DEF LimitInit
  <2> QED
    BY <1>1, <2>1, AdmittedNone DEF Admitted
<1>2. Limit \in Nat \ {0} /\ Window \in Nat \ {0} /\ Patience \in Nat
  BY LimitAssumption
<1>3. KeyCounts
  <2>1. Used = 0
    <3>1. count = 0 /\ ~ \E w \in Workers : gate[w] = "expire"
      BY DEF LimitInit
    <3> QED
      BY <1>2, <3>1 DEF Used
  <2>2. Admitted(Processes, Window - 1) = 0 /\ ~ (ttl > 0)
    BY <1>1, <1>2 DEF LimitInit
  <2> QED
    BY <1>2, <2>1, <2>2 DEF KeyCounts
<1>4. ASSUME NEW p \in Processes
      PROVE  hits[p] = <<>> /\ \A age \in 0..Window + Patience : Admitted({p}, age) = 0
  BY <1>1, <1>2 DEF LimitInit
<1>5. Len(<<>>) = 0 /\ DOMAIN <<>> = 1..Len(<<>>)
  BY EmptySeq, LenProperties
<1>6. DOMAIN <<>> = {}
  BY <1>5
<1>7. \A age : Young(<<>>, age) = {}
  BY <1>6 DEF Young
<1>8. LockedCounts
  <2>1. \A age \in 0..Window : age \in 0..Window + Patience
    BY <1>2
  <2>2. Window \in 0..Window
    BY <1>2
  <2>3. ASSUME NEW p \in Processes, NEW age \in 0..Window
        PROVE  Admitted({p}, age) = 0 /\ Cardinality(Young(hits[p], age)) = 0
    <3>1. Young(hits[p], age) = {}
      BY <1>4, <1>7
    <3> QED
      BY <1>4, <2>1, <3>1, FS_EmptySet
  <2> QED
    BY <1>2, <2>2, <2>3 DEF LockedCounts
<1>9. EntriesDated
  <2>1. ASSUME NEW p \in Processes
        PROVE  \E g \in [DOMAIN hits[p] -> 0..Old] : Dates(p, g)
    <3>1. PICK k : k = [i \in {} |-> 0]
      OBVIOUS
    <3>2. \A age : Young(k, age) = {}
      BY <3>1 DEF Young
    <3>3. \A age : Cardinality(Young(k, age)) = 0
      BY <3>2, FS_EmptySet
    <3>4. hits[p] = <<>> /\ DOMAIN hits[p] = {}
      BY <1>4, <1>6
    <3>5. k \in [DOMAIN hits[p] -> 0..Old]
      BY <3>1, <3>4
    <3>6. \A age \in 0..Window + Patience : Cardinality(Young(k, age)) <= Admitted({p}, age)
      <4> SUFFICES ASSUME NEW age \in 0..Window + Patience
                   PROVE  Cardinality(Young(k, age)) <= Admitted({p}, age)
        OBVIOUS
      <4>1. Admitted({p}, age) = 0
        BY <1>4
      <4>2. Cardinality(Young(k, age)) = 0
        BY <3>3
      <4> QED
        BY <4>1, <4>2
    <3>7. Dates(p, k)
      BY <3>4, <3>6 DEF Dates
    <3> QED
      BY <3>5, <3>7
  <2> QED
    BY <2>1 DEF EntriesDated
<1> QED
  BY <1>3, <1>8, <1>9

LEMMA StartTypes ==
    ASSUME LimitInit
    PROVE  Typed /\ GatesFit /\ DequeBounded /\ OneExpirer
<1>1. Limit \in Nat \ {0} /\ Window \in Nat \ {0} /\ Patience \in Nat
  BY LimitAssumption
<1>2. NoneServed \in [0..Window + Patience -> Nat] /\ ServedOK
  BY DEF NoneServed, LimitInit, ServedOK
<1>3. <<>> \in Seq(0..Old) /\ Len(<<>>) = 0
  BY EmptySeq
<1>4. Typed
  <2>1. hits \in [Processes -> Seq(0..Old)]
    BY <1>3 DEF LimitInit
  <2>2. /\ link \in [Processes -> {"untried", "up", "down"}]
        /\ gate \in [Workers -> Gates] /\ seen \in [Workers -> 0..Patience]
    <3>1. 0 \in 0..Patience /\ "out" \in Gates
      BY <1>1 DEF Gates
    <3>2. link \in [Processes -> {"untried", "up", "down"}]
      BY DEF LimitInit
    <3>3. gate \in [Workers -> Gates]
      BY <3>1 DEF LimitInit
    <3>4. seen \in [Workers -> 0..Patience]
      BY <3>1 DEF LimitInit
    <3> QED
      BY <3>2, <3>3, <3>4
  <2>3. count \in 0..Limit + 1 /\ ttl \in 0..Window /\ lost \in BOOLEAN
    <3>1. 0 \in 0..Limit + 1 /\ 0 \in 0..Window
      BY <1>1
    <3>2. count = 0 /\ ttl = 0 /\ lost = FALSE
      BY DEF LimitInit
    <3> QED
      BY <3>1, <3>2
  <2> QED
    BY <1>2, <2>1, <2>2, <2>3 DEF LimitInit, Typed
<1>5. GatesFit
  BY DEF LimitInit, GatesFit, Timed
<1>6. OneExpirer
  BY DEF LimitInit, OneExpirer
<1>7. ASSUME NEW p \in Processes
      PROVE  Len(hits[p]) + Cardinality(Appending(p)) < Limit + Cardinality(Threads(p))
  <2>1. hits[p] = <<>> /\ Appending(p) = {}
    BY DEF LimitInit, Appending, Threads
  <2>2. Len(hits[p]) = 0 /\ Cardinality(Appending(p)) = 0
    BY <1>3, <2>1, FS_EmptySet
  <2> QED
    BY <1>1, <2>2, AppendingBounded
<1> QED
  BY <1>4, <1>5, <1>6, <1>7 DEF DequeBounded

LEMMA LimitStep == LimitInv /\ [LimitNext]_limitVars => LimitInv'
<1> SUFFICES ASSUME LimitInv, [LimitNext]_limitVars PROVE LimitInv'
  OBVIOUS
<1>1. /\ Typed /\ GatesFit /\ DequeBounded /\ OneExpirer /\ KeyCounts /\ LockedCounts
      /\ EntriesDated
  BY TypesAgree, LimitAssumption DEF LimitInv
<1>2. /\ Typed' /\ GatesFit' /\ DequeBounded' /\ OneExpirer' /\ KeyCounts' /\ LockedCounts'
      /\ EntriesDated'
  <2>1. ASSUME NEW w \in Workers, WorkerStep(w)
        PROVE  /\ Typed' /\ GatesFit' /\ DequeBounded' /\ OneExpirer' /\ KeyCounts'
               /\ LockedCounts' /\ EntriesDated'
    BY <1>1, <2>1, WorkerTyped, WorkerDeque, WorkerExpirer, WorkerKey, WorkerLocked, WorkerDated
  <2>2. ASSUME (\E p \in Processes : Restart(p)) \/ PassSecond \/ UNCHANGED limitVars
        PROVE  /\ Typed' /\ GatesFit' /\ DequeBounded' /\ OneExpirer' /\ KeyCounts'
               /\ LockedCounts' /\ EntriesDated'
    BY <1>1, <2>2, OtherTyped, OtherDeque, OtherExpirer, OtherKey, OtherLocked, OtherDated
  <2> QED
    BY <2>1, <2>2 DEF LimitNext, WorkerStep
<1>3. LimitTypeOK'
  <2>1. ASSUME NEW p \in Processes PROVE (Len(hits[p]) < Limit + Cardinality(Threads(p)))'
    <3>1. /\ (Len(hits[p]) + Cardinality(Appending(p)) < Limit + Cardinality(Threads(p)))'
          /\ hits'[p] \in Seq(0..Old)
      BY <1>2 DEF DequeBounded, Typed
    <3>2. (Cardinality(Threads(p)) \in Nat /\ Cardinality(Appending(p)) \in Nat)'
      <4>1. Threads(p)' \in SUBSET Workers /\ Appending(p)' \in SUBSET Workers
        BY DEF Threads, Appending
      <4> QED
        BY <4>1, FS_Subset, FS_CardinalityType, LimitAssumption
    <3>3. Len(hits'[p]) \in Nat
      BY <3>1, LenProperties
    <3> QED
      BY <3>1, <3>2, <3>3, LimitAssumption
  <2> QED
    BY <1>2, <2>1 DEF Typed, LimitTypeOK, ServedOK
<1> QED
  BY <1>2, <1>3 DEF LimitInv

\* What the limiters keep true at every step, and together: who is where, how long a
\* deque can get, what the key and the lock have counted, and when the requests
\* behind the entries of a deque were admitted.
THEOREM LimitInvariant == LimitSpec => []LimitInv
<1>1. LimitInit => LimitInv
  BY StartTypes, StartCounts, TypesAgree, LimitAssumption DEF LimitInv
<1>2. LimitInv /\ [LimitNext]_limitVars => LimitInv'
  BY LimitStep
<1> QED
  BY <1>1, <1>2, PTL DEF LimitSpec

\* The types; and no deque of RateLimiter outgrows the limit by as many entries as
\* its process has threads, though they count and append without a lock.
THEOREM LimitTypeCorrect == LimitSpec => []LimitTypeOK
<1>1. LimitInv => LimitTypeOK
  BY DEF LimitInv
<1> QED
  BY <1>1, LimitInvariant, PTL

\* FixedWindowLimiter.allow admits at most the limit per process and window,
\* RedisRateLimiter at most twice the limit over all processes, for any limit, any
\* window, any workers and any processes.
THEOREM QuotaCorrect == LimitSpec => []QuotaKept
<1>1. ASSUME LimitInv PROVE QuotaKept
  <2>1. Typed /\ OneExpirer /\ KeyCounts /\ LockedCounts
    BY <1>1, TypesAgree, LimitAssumption DEF LimitInv
  <2>2. ASSUME Redis PROVE Admitted(Processes, Window - 1) <= 2 * Limit
    <3>1. PICK a \in Nat : a = Admitted(Processes, Window - 1)
      BY <2>1, AdmissionsFinite, LimitAssumption DEF Typed
    <3>2. PICK c \in 0..Limit : Used = c \/ Used = c - 1
      <4>1. PICK c \in 0..Limit : c = (IF count < Limit THEN count ELSE Limit)
        BY <2>1, LimitAssumption DEF Typed
      <4>2. Used = c - (IF \E w \in Workers : gate[w] = "expire" THEN 1 ELSE 0)
        BY <4>1 DEF Used
      <4>3. Used = c - 0 \/ Used = c - 1
        BY <4>2
      <4> QED
        BY <4>3
    <3>3. a <= Limit + Used
      BY <2>1, <2>2, <3>1 DEF KeyCounts
    <3>4. a <= 2 * Limit
      BY <3>2, <3>3, LimitAssumption
    <3> QED
      BY <3>1, <3>4
  <2> QED
    BY <2>1, <2>2 DEF QuotaKept, LockedCounts
<1> QED
  BY <1>1, LimitInvariant, PTL

\* Who is refused by the lock: the entries that are left were all admitted in the window.
LEMMA RefusedByLock ==
    ASSUME Typed, GatesFit, NEW w \in Workers, RefuseLocked(w),
           NEW p \in Processes, p = home[w], DatedFits(p)
    PROVE  Admitted({p}, Window) >= Limit
<1>1. PICK s \in Seq(0..Old) : s = hits[p]
  BY DEF Typed
<1>2. PICK g \in [DOMAIN s -> 0..Old] :
         /\ Ordered(s, g)
         /\ \A age \in 0..Window + Patience : Cardinality(Young(g, age)) <= Admitted({p}, age)
  BY <1>1 DEF DatedFits, Dates, Ordered
<1>3. PICK m \in Nat : \E h \in [1..m -> 0..Old] :
         /\ Recent(s) \in Seq(0..Old) /\ Len(Recent(s)) = m /\ DOMAIN Recent(s) = 1..m
         /\ Ordered(Recent(s), h)
         /\ \A age : /\ Cardinality(Young(h, age)) <= Cardinality(Young(g, age))
                     /\ Cardinality(Young(h, age)) \in Nat
                     /\ Cardinality(Young(g, age)) \in Nat
  BY <1>2, TrimmedDates
<1>4. PICK h \in [1..m -> 0..Old] :
         /\ Len(Recent(s)) = m /\ DOMAIN Recent(s) = 1..m /\ Ordered(Recent(s), h)
         /\ \A age : /\ Cardinality(Young(h, age)) <= Cardinality(Young(g, age))
                     /\ Cardinality(Young(h, age)) \in Nat
                     /\ Cardinality(Young(g, age)) \in Nat
  BY <1>3
<1>5. m >= Limit /\ 1 \in 1..m /\ Limit \in Nat /\ Window \in Nat /\ Window \in 0..Window + Patience
  <2>1. Len(Recent(s)) >= Limit
    BY <1>1 DEF RefuseLocked
  <2> QED
    BY <1>4, <2>1, LimitAssumption
<1>6. Recent(s)[1] <= Window /\ Recent(s)[1] \in 0..Old
  <2>1. PICK c \in 0..Len(s) :
           /\ Recent(s) \in Seq(0..Old) /\ Len(Recent(s)) = Len(s) - c
           /\ \A i \in 1..Len(s) - c : Recent(s)[i] = s[i + c]
           /\ c < Len(s) => s[c + 1] <= Window
    BY Trimmed
  <2>2. PICK n \in Nat : n = Len(s)
    BY LenProperties
  <2>3. n - c = m
    BY <1>4, <2>1, <2>2
  <2>4. 1 \in 1..n - c /\ c < n
    BY <1>5, <2>2, <2>3
  <2>5. Recent(s)[1] = s[1 + c] /\ s[c + 1] <= Window
    BY <2>1, <2>2, <2>4
  <2>6. 1 + c = c + 1
    OBVIOUS
  <2>7. Recent(s)[1] \in 0..Old
    BY <1>4, <1>5, <2>1, ElementOfSeq
  <2> QED
    BY <2>5, <2>6, <2>7
<1>7. \A i \in 1..m : h[i] <= Window
  <2>1. h[1] <= Recent(s)[1] /\ \A i \in 1..m : h[i] <= h[1]
    <3>1. h[1] <= Recent(s)[1]
      BY <1>4, <1>5 DEF Ordered
    <3>2. ASSUME NEW i \in 1..m PROVE h[i] <= h[1]
      <4>1. 1 <= i /\ 1 \in 1..m
        BY <1>5
      <4> QED
        BY <1>4, <4>1 DEF Ordered
    <3> QED
      BY <3>1, <3>2
  <2>2. h[1] \in Int /\ Recent(s)[1] \in Int /\ \A i \in 1..m : h[i] \in Int
    BY <1>5, <1>6
  <2> QED
    BY <1>5, <1>6, <2>1, <2>2
<1>8. Cardinality(Young(h, Window)) = m
  <2>1. DOMAIN h = 1..m
    OBVIOUS
  <2> QED
    BY <1>7, <2>1, AllYoung
<1>9. Cardinality(Young(g, Window)) <= Admitted({p}, Window)
  BY <1>2, <1>5
<1>10. m <= Cardinality(Young(g, Window)) /\ Cardinality(Young(g, Window)) \in Nat
  BY <1>4, <1>8
<1>11. Admitted({p}, Window) \in Nat
  BY <1>5, AdmissionsFinite, LimitAssumption DEF Typed
<1> QED
  BY <1>5, <1>9, <1>10, <1>11

\* Who is refused without: the entry that stopped the trimming was in the window by
\* the reading, and the others, though other threads have changed the deque since,
\* were admitted no earlier.
LEMMA RefusedByCount ==
    ASSUME Typed, NEW w \in Workers, CountHits(w), gate'[w] = "refused",
           NEW p \in Processes, p = home[w], DatedFits(p)
    PROVE  Admitted({p}, Window + Patience) >= Limit
<1>1. PICK s \in Seq(0..Old) : s = hits[p]
  BY DEF Typed
<1>2. PICK g \in [DOMAIN s -> 0..Old] :
         /\ Ordered(s, g)
         /\ \A age \in 0..Window + Patience : Cardinality(Young(g, age)) <= Admitted({p}, age)
         /\ \A v \in Threads(p) : gate[v] = "count" /\ s # <<>> => g[1] <= Window + seen[v]
  BY <1>1 DEF DatedFits, Dates, Ordered
<1>3. gate[w] = "count" /\ Len(s) >= Limit /\ w \in Threads(p)
  BY <1>1 DEF CountHits, Refuse, Pass, Typed, Threads
<1>4. PICK n \in Nat : DOMAIN s = 1..n /\ n >= Limit /\ s # <<>> /\ 1 \in 1..n
  <2>1. Len(s) \in Nat /\ DOMAIN s = 1..Len(s) /\ (s = <<>> => Len(s) = 0)
    BY LenProperties, EmptySeq
  <2> QED
    BY <1>3, <2>1, LimitAssumption
<1>5. PICK reach \in Nat : reach = Window + Patience /\ reach \in 0..Window + Patience
  BY LimitAssumption
<1>6. \A i \in 1..n : g[i] <= reach
  <2>1. g[1] <= Window + seen[w]
    BY <1>2, <1>3, <1>4
  <2>0. seen[w] \in 0..Patience
    BY DEF Typed
  <2>2. g[1] \in Int /\ g[1] <= reach
    <3>1. g[1] \in 0..Old
      BY <1>4
    <3>2. PICK a, b \in Int : a = g[1] /\ b = seen[w]
      BY <2>0, <3>1, LimitAssumption DEF Old
    <3>3. a <= Window + b /\ b <= Patience
      BY <2>0, <2>1, <3>2, LimitAssumption
    <3> QED
      BY <1>5, <3>2, <3>3, LimitAssumption
  <2>3. ASSUME NEW i \in 1..n PROVE g[i] <= g[1] /\ g[i] \in Int
    <3>1. 1 <= i /\ i \in DOMAIN s /\ 1 \in DOMAIN s
      BY <1>4
    <3>2. g[i] \in 0..Old
      BY <3>1
    <3>3. g[i] <= g[1]
      BY <1>2, <3>1 DEF Ordered
    <3> QED
      BY <3>2, <3>3, LimitAssumption DEF Old
  <2> QED
    BY <2>2, <2>3
<1>7. Cardinality(Young(g, reach)) = n
  <2>1. DOMAIN g = 1..n
    BY <1>4
  <2> QED
    BY <1>6, <2>1, AllYoung
<1>8. Cardinality(Young(g, reach)) <= Admitted({p}, reach) /\ Admitted({p}, reach) \in Nat
  <2>1. Cardinality(Young(g, reach)) <= Admitted({p}, reach)
    BY <1>2, <1>5
  <2>2. Admitted({p}, reach) \in Nat
    <3>1. reach \in Int /\ reach <= Window + Patience /\ {p} \subseteq Processes
      BY <1>5, LimitAssumption
    <3> QED
      BY <3>1, AdmissionsFinite DEF Typed
  <2> QED
    BY <2>1, <2>2
<1>9. Admitted({p}, reach) >= Limit
  BY <1>4, <1>7, <1>8, LimitAssumption
<1> QED
  BY <1>5, <1>9

\* Neither limiter in memory refuses a principal that did not use up its quota, for
\* any number of threads that trim and count the same deque.
THEOREM RefusedRightly == LimitSpec => RefusedOnlyOverQuota
<1>1. ASSUME LimitInv, [LimitNext]_limitVars PROVE RefusalStep
  <2>1. Typed /\ GatesFit /\ EntriesDated
    BY <1>1, TypesAgree, LimitAssumption DEF LimitInv
  <2> SUFFICES ASSUME kind \in {"locked", "unlocked"}, NEW w \in Workers,
                      gate[w] # "refused", gate'[w] = "refused"
               PROVE  Admitted({home[w]}, IF kind = "locked" THEN Window ELSE Window + Patience)
                         >= Limit
    BY DEF RefusalStep
  <2>2. PICK p \in Processes : p = home[w] /\ DatedFits(p)
    BY <2>1 DEF EntriesDated, DatedFits, Typed
  <2>3. WorkerStep(w)
    <3>1. \/ \E v \in Workers : WorkerStep(v)
          \/ \E q \in Processes : Restart(q)
          \/ PassSecond
          \/ UNCHANGED limitVars
      BY <1>1 DEF LimitNext, WorkerStep
    <3>2. ASSUME NEW v \in Workers, WorkerStep(v) PROVE v = w
      BY <2>1, <3>2, OthersSame
    <3>3. ~ PassSecond /\ ~ UNCHANGED limitVars /\ \A q \in Processes : ~ Restart(q)
      BY DEF PassSecond, limitVars, Restart
    <3> QED
      BY <3>1, <3>2, <3>3
  <2>4. RefuseLocked(w) \/ CountHits(w)
    <3>1. \/ \/ Arrive(w) \/ AllowLocked(w) \/ RefuseLocked(w) \/ ReadClock(w) \/ Peek(w)
             \/ LookAtHead(w) \/ Pop(w) \/ CountHits(w) \/ AppendHit(w) \/ Leave(w)
          \/ \/ Ask(w) \/ Connect(w) \/ Ping(w) \/ Return(w)
             \/ Incr(w) \/ IncrFails(w) \/ Expire(w) \/ ExpireFails(w)
      BY <2>3 DEF WorkerStep, InLimiter
    <3>2. ~ Redis
      BY DEF Redis
    <3>3. ~ (\/ Ask(w) \/ Connect(w) \/ Ping(w) \/ Return(w)
             \/ Incr(w) \/ IncrFails(w) \/ Expire(w) \/ ExpireFails(w))
      BY <2>1, <3>2, RedisOnward
    <3>4. ~ (Arrive(w) \/ AllowLocked(w) \/ ReadClock(w) \/ AppendHit(w) \/ Leave(w))
      BY <2>1 DEF Arrive, AllowLocked, ReadClock, AppendHit, Leave, Admit, Pass, Typed
    <3>5. ~ (Peek(w) \/ LookAtHead(w) \/ Pop(w))
      BY <2>1 DEF Peek, LookAtHead, Pop, Emptied, Pass, Typed
    <3> QED
      BY <3>1, <3>3, <3>4, <3>5
  <2>5. CASE RefuseLocked(w)
    <3>1. kind = "locked" /\ Admitted({p}, Window) >= Limit
      BY <2>1, <2>2, <2>5, RefusedByLock DEF RefuseLocked
    <3> QED
      BY <2>2, <3>1
  <2>6. CASE CountHits(w)
    <3>1. gate[w] = "count"
      BY <2>6 DEF CountHits, Refuse, Pass
    <3>2. kind = "unlocked"
      BY <2>1, <3>1 DEF GatesFit, Timed
    <3>3. Admitted({p}, Window + Patience) >= Limit
      BY <2>1, <2>2, <2>6, RefusedByCount
    <3> QED
      BY <2>2, <3>2, <3>3
  <2> QED
    BY <2>4, <2>5, <2>6
<1>2. LimitInv /\ [LimitNext]_limitVars => [RefusalStep]_limitVars
  BY <1>1
<1> QED
  BY <1>2, LimitInvariant, PTL DEF LimitSpec, RefusedOnlyOverQuota

=============================================================================
