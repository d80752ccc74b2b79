--------------------------- MODULE LimiterProofs ---------------------------
(***************************************************************************)
(* Theorems about Limiter.  What an address has spent since a moment is    *)
(* bounded by what its bucket could have given out since then: the tokens  *)
(* it lacks plus the time its clock has moved.  The bound survives a       *)
(* refill, an early or late clock and the brim; it survives the janitor    *)
(* because a bucket it forgets would have been full again.                 *)
(***************************************************************************)
EXTENDS Limiter, TLAPS

\* Types of the variables, and the clock against what is stamped with it.
Stamped(r) == r # Idle => r.at <= now /\ now <= r.at + Delay

Waits == \A h \in Handlers : Stamped(req[h])

\* What the address has spent since s.
Since(k, s) == spent[k] - before[k][s]

\* The bucket b of an address that has spent n since the moment s.
Covered(b, n, s) ==
  n = 0 \/ n <= Capacity + (b.last - s) + Delay - b.tokens

\* An address without a bucket has spent no more than it would have regained.
Regained(n, s) == n = 0 \/ n <= now - s

\* A bucket is short of no more than the longest wait, and is not short now.
Sound(b) ==
  /\ b.tokens <= Capacity
  /\ b.last <= now
  /\ 0 <= b.tokens + Delay
  /\ 0 <= b.tokens + (now - b.last)

Account(k) ==
  /\ Known(k) => Sound(buckets[k])
  /\ \A s \in 0 .. now :
       /\ before[k][s] <= spent[k]
       /\ IF Known(k) THEN Covered(buckets[k], Since(k, s), s)
                      ELSE Regained(Since(k, s), s)

Cautious == cutoff <= now - IdleTime

Inv ==
  /\ TypeOK
  /\ Waits
  /\ Cautious
  /\ \A k \in Keys : Account(k)

-----------------------------------------------------------------------------
LEMMA RefillType ==
  ASSUME TypeOK, NEW k \in Keys, Known(k), NEW at \in Times
  PROVE  Refilled(k, at) \in Int
<1>1. buckets[k] \in Bucket
  BY DEF TypeOK, Known
<1>2. buckets[k].tokens \in Int /\ buckets[k].last \in Int
  BY <1>1 DEF Bucket, Times
<1> QED
  BY <1>2, CostAssumption DEF Refilled, Least, Times

LEMMA ServedRequest ==
  ASSUME TypeOK, NEW h \in Handlers, req[h].key # NoKey
  PROVE  req[h].key \in Keys /\ req[h].at \in Times /\ req[h] # Idle
BY KeyAssumption DEF TypeOK, Request, Idle

LEMMA PutType ==
  ASSUME TypeOK, NEW k \in Keys, NEW at \in Times, NEW tokens \in Int,
         Put(k, tokens, at)
  PROVE  buckets' \in [Keys -> Bucket \cup {NoBucket}]
<1>1. [tokens |-> tokens, last |-> at] \in Bucket
  BY DEF Bucket
<1> QED
  BY <1>1 DEF Put, TypeOK

LEMMA AdmittedType ==
  ASSUME TypeOK, NEW h \in Handlers, NEW k \in Keys, Admitted(h, k)
  PROVE  /\ spent' \in [Keys -> Nat]
         /\ req' \in [Handlers -> Request \cup {Idle}]
BY CostAssumption DEF Admitted, TypeOK

\* Type correctness is inductive.
LEMMA TypeStep ==
  ASSUME TypeOK, [Next]_vars
  PROVE  TypeOK'
<1> USE DEF TypeOK
<1>1. ASSUME NEW h \in Handlers, NEW k \in Keys, Arrive(h, k) PROVE TypeOK'
  <2>1. [key |-> k, at |-> now] \in Request
    BY DEF Request
  <2> QED BY <1>1, <2>1 DEF Arrive
<1>2. ASSUME NEW h \in Handlers, AllowNew(h) PROVE TypeOK'
  <2>1. req[h].key \in Keys /\ req[h].at \in Times
    BY <1>2, ServedRequest DEF AllowNew
  <2>2. Capacity - Cost \in Int
    BY CostAssumption
  <2>3. buckets' \in [Keys -> Bucket \cup {NoBucket}]
    BY <1>2, <2>1, <2>2, PutType DEF AllowNew
  <2>4. Admitted(h, req[h].key)
    BY <1>2 DEF AllowNew
  <2> QED BY <2>1, <2>3, <2>4, AdmittedType DEF Admitted
<1>3. ASSUME NEW h \in Handlers, Allow(h) PROVE TypeOK'
  <2>1. req[h].key \in Keys /\ req[h].at \in Times
    BY <1>3, ServedRequest DEF Allow
  <2>2. Refilled(req[h].key, req[h].at) \in Int
    BY <1>3, <2>1, RefillType DEF Allow
  <2>3. Refilled(req[h].key, req[h].at) - Cost \in Int
    BY <2>2, CostAssumption
  <2>4. buckets' \in [Keys -> Bucket \cup {NoBucket}]
    BY <1>3, <2>1, <2>3, PutType DEF Allow
  <2>5. Admitted(h, req[h].key)
    BY <1>3 DEF Allow
  <2> QED BY <2>1, <2>4, <2>5, AdmittedType DEF Admitted
<1>4. ASSUME NEW h \in Handlers, Refuse(h) PROVE TypeOK'
  <2>1. req[h].key \in Keys /\ req[h].at \in Times
    BY <1>4, ServedRequest DEF Refuse
  <2>2. Refilled(req[h].key, req[h].at) \in Int
    BY <1>4, <2>1, RefillType DEF Refuse
  <2>3. buckets' \in [Keys -> Bucket \cup {NoBucket}]
    BY <1>4, <2>1, <2>2, PutType DEF Refuse
  <2> QED BY <1>4, <2>3 DEF Refuse, Refused
<1>5. CASE Wake
  BY <1>5, IdleAssumption DEF Wake, Times
<1>6. CASE Sweep
  <2>1. cutoff' \in Int
    BY <1>6, IdleAssumption DEF Sweep, Never
  <2>2. buckets' \in [Keys -> Bucket \cup {NoBucket}]
    BY <1>6 DEF Sweep
  <2> QED BY <1>6, <2>1, <2>2 DEF Sweep
<1>7. CASE Tick
  <2>1. now' \in Times
    BY <1>7, TimeAssumption DEF Tick, Times
  <2>2. \A k \in Keys : [before[k] EXCEPT ![now + 1] = spent[k]] \in [Times -> Nat]
    OBVIOUS
  <2>3. before' \in [Keys -> [Times -> Nat]]
    BY <1>7, <2>2 DEF Tick
  <2> QED BY <1>7, <2>1, <2>3 DEF Tick
<1>8. CASE UNCHANGED vars
  BY <1>8 DEF vars
<1> QED BY <1>1, <1>2, <1>3, <1>4, <1>5, <1>6, <1>7, <1>8 DEF Next

LEMMA TypeInit == Init => TypeOK
<1> SUFFICES ASSUME Init PROVE TypeOK
  OBVIOUS
<1>1. now \in Times
  BY TimeAssumption DEF Init, Times
<1>2. cutoff \in Int
  BY IdleAssumption DEF Init, Never
<1> QED BY <1>1, <1>2 DEF Init, TypeOK

\* The type theorem: the variables keep their types.
THEOREM TypeCorrect == Spec => []TypeOK
<1> QED BY TypeInit, TypeStep, PTL DEF Spec

-----------------------------------------------------------------------------
\* A refill with a stamp that is at most Delay old keeps a bucket sound and what
\* has been spent covered, however the stamp compares with the bucket's clock.
LEMMA BucketKeeps ==
  ASSUME NEW k \in Keys, TypeOK, Known(k), Sound(buckets[k]),
         NEW at \in Times, at <= now, now <= at + Delay,
         NEW n \in Int, NEW s \in 0 .. now, Covered(buckets[k], n, s)
  PROVE  LET c == Refilled(k, at) IN
         /\ c \in Int
         /\ c <= Capacity
         /\ 0 <= c + Delay
         /\ 0 <= c + (now - at)
         /\ n = 0 \/ n <= Capacity + (at - s) + Delay - c
         /\ n + Cost <= Capacity + (at - s) + Delay - (c - Cost)
<1>1. buckets[k].tokens \in Int /\ buckets[k].last \in Int
  BY DEF TypeOK, Known, Bucket, Times
<1>2. now \in Int /\ at \in Int /\ s \in Int /\ s <= now
  BY TimeAssumption DEF TypeOK, Times
<1>3. Refilled(k, at) \in Int
  BY RefillType
<1> DEFINE t == buckets[k].tokens
           l == buckets[k].last
           c == Refilled(k, at)
<1>4. /\ t <= Capacity /\ l <= now /\ 0 <= t + (now - l)
      /\ n = 0 \/ n <= Capacity + (l - s) + Delay - t
  BY DEF Sound, Covered
<1>5. c = Least(Capacity, t + (at - l))
  BY DEF Refilled
<1>6. t \in Int /\ l \in Int /\ c \in Int
  BY <1>1, <1>3
<1> HIDE DEF t, l, c
<1>7. /\ c <= Capacity
      /\ 0 <= c + Delay
      /\ 0 <= c + (now - at)
      /\ n = 0 \/ n <= Capacity + (at - s) + Delay - c
      /\ n + Cost <= Capacity + (at - s) + Delay - (c - Cost)
  BY <1>2, <1>4, <1>5, <1>6, CostAssumption, TimeAssumption DEF Least
<1> QED
  BY <1>6, <1>7 DEF c

\* What Put leaves.
LEMMA PutBucket ==
  ASSUME TypeOK, NEW k \in Keys, NEW at \in Times, NEW tokens \in Int,
         Put(k, tokens, at)
  PROVE  /\ buckets'[k] = [tokens |-> tokens, last |-> at]
         /\ buckets'[k] # NoBucket
         /\ \A j \in Keys : j # k => buckets'[j] = buckets[j]
<1>1. buckets'[k] = [tokens |-> tokens, last |-> at]
  BY DEF Put, TypeOK
<1>2. at # Horizon + 1
  BY TimeAssumption DEF Times
<1>3. buckets'[k].last # NoBucket.last
  BY <1>1, <1>2 DEF NoBucket
<1>4. ASSUME NEW j \in Keys, j # k PROVE buckets'[j] = buckets[j]
  BY <1>4 DEF Put, TypeOK
<1> QED BY <1>1, <1>3, <1>4

\* The requests in flight stay within Delay of the clock when one leaves.
LEMMA LeaveWaits ==
  ASSUME TypeOK, Waits, NEW h \in Handlers,
         req' = [req EXCEPT ![h] = Idle], UNCHANGED now
  PROVE  Waits'
BY DEF TypeOK, Waits, Stamped

\* An account nothing has changed.
LEMMA SameAccount ==
  ASSUME NEW k \in Keys, Account(k), UNCHANGED <<now, before>>,
         buckets'[k] = buckets[k], spent'[k] = spent[k]
  PROVE  Account(k)'
BY DEF Account, Known, Since, Sound, Covered, Regained

\* The account of an address after a request leaves its bucket with the tokens
\* given and its spending with m.
LEMMA NewAccount ==
  ASSUME TypeOK, NEW k \in Keys, NEW at \in Times, NEW tokens \in Int,
         Put(k, tokens, at), UNCHANGED <<now, before>>,
         at <= now, tokens <= Capacity, 0 <= tokens + Delay,
         0 <= tokens + (now - at),
         \A s \in 0 .. now :
           /\ before[k][s] <= spent'[k]
           /\ \/ spent'[k] - before[k][s] = 0
              \/ spent'[k] - before[k][s] <= Capacity + (at - s) + Delay - tokens
  PROVE  Account(k)'
<1>1. /\ buckets'[k] = [tokens |-> tokens, last |-> at]
      /\ buckets'[k] # NoBucket
  BY PutBucket
<1>2. buckets'[k].tokens = tokens /\ buckets'[k].last = at
  BY <1>1
<1> QED
  BY <1>1, <1>2 DEF Account, Known, Since, Sound, Covered, Regained

-----------------------------------------------------------------------------
\* One request that leaves the bucket of its address with the tokens given, and
\* every other bucket alone.
LEMMA ServeKeeps ==
  ASSUME Inv, TypeOK', NEW h \in Handlers, NEW k \in Keys, NEW at \in Times,
         NEW tokens \in Int, Put(k, tokens, at),
         req' = [req EXCEPT ![h] = Idle], UNCHANGED <<now, before, cutoff>>,
         \A j \in Keys : j # k => spent'[j] = spent[j],
         at <= now, now <= at + Delay,
         tokens <= Capacity, 0 <= tokens + Delay, 0 <= tokens + (now - at),
         \A s \in 0 .. now :
           /\ before[k][s] <= spent'[k]
           /\ \/ spent'[k] - before[k][s] = 0
              \/ spent'[k] - before[k][s] <= Capacity + (at - s) + Delay - tokens
  PROVE  Inv'
<1>1. Waits'
  BY LeaveWaits DEF Inv
<1>2. Cautious'
  BY DEF Inv, Cautious
<1>3. Account(k)'
  BY NewAccount DEF Inv
<1>4. ASSUME NEW j \in Keys, j # k PROVE Account(j)'
  <2>1. buckets'[j] = buckets[j]
    BY <1>4, PutBucket DEF Inv
  <2>2. Account(j)
    BY DEF Inv
  <2> QED BY <1>4, <2>1, <2>2, SameAccount
<1> QED BY <1>1, <1>2, <1>3, <1>4 DEF Inv

\* A request in flight: its address, its stamp, and what has been spent before.
LEMMA InFlight ==
  ASSUME Inv, NEW h \in Handlers, req[h].key # NoKey
  PROVE  \E k \in Keys, at \in Times :
           /\ req[h].key = k /\ req[h].at = at
           /\ at <= now /\ now <= at + Delay
<1>1. req[h].key \in Keys /\ req[h].at \in Times /\ req[h] # Idle
  BY ServedRequest DEF Inv
<1>2. req[h].at <= now /\ now <= req[h].at + Delay
  BY <1>1 DEF Inv, Waits, Stamped
<1> QED BY <1>1, <1>2

\* The moments and the amounts are numbers.
LEMMA Numbers ==
  ASSUME TypeOK, NEW k \in Keys
  PROVE  /\ now \in Nat /\ spent[k] \in Nat
         /\ \A s \in 0 .. now : s \in Times /\ s \in Nat /\ before[k][s] \in Nat
BY TimeAssumption DEF TypeOK, Times

LEMMA AllowNewKeeps ==
  ASSUME Inv, NEW h \in Handlers, AllowNew(h), TypeOK'
  PROVE  Inv'
<1>1. PICK k \in Keys, at \in Times :
        /\ req[h].key = k /\ req[h].at = at
        /\ at <= now /\ now <= at + Delay
  BY InFlight DEF AllowNew
<1>2. /\ Put(k, Capacity - Cost, at) /\ UNCHANGED <<now, before, cutoff>>
      /\ req' = [req EXCEPT ![h] = Idle]
      /\ spent' = [spent EXCEPT ![k] = @ + Cost]
      /\ ~Known(k)
  BY <1>1 DEF AllowNew, Admitted
<1>3. /\ spent'[k] = spent[k] + Cost
      /\ \A j \in Keys : j # k => spent'[j] = spent[j]
  BY <1>2 DEF Inv, TypeOK
<1>4. /\ Capacity - Cost \in Int /\ Capacity - Cost <= Capacity
      /\ 0 <= (Capacity - Cost) + Delay
      /\ 0 <= (Capacity - Cost) + (now - at)
  <2>1. now \in Int /\ at \in Int
    BY TimeAssumption DEF Inv, TypeOK, Times
  <2> QED BY <1>1, <2>1, CostAssumption, TimeAssumption
<1>5. ASSUME NEW s \in 0 .. now
      PROVE  /\ before[k][s] <= spent'[k]
             /\ \/ spent'[k] - before[k][s] = 0
                \/ spent'[k] - before[k][s]
                     <= Capacity + (at - s) + Delay - (Capacity - Cost)
  <2>1. before[k][s] <= spent[k] /\ Regained(Since(k, s), s)
    BY <1>2 DEF Inv, Account
  <2>2. /\ before[k][s] \in Nat /\ s \in Nat /\ s <= now
        /\ now \in Nat /\ spent[k] \in Nat /\ at \in Nat
    BY Numbers, TimeAssumption DEF Inv, Times
  <2> QED
    BY <1>1, <1>3, <2>1, <2>2, CostAssumption, TimeAssumption
       DEF Regained, Since
<1> QED BY <1>1, <1>2, <1>3, <1>4, <1>5, ServeKeeps

\* What a known bucket is refilled to, and what that covers.
LEMMA Refill ==
  ASSUME Inv, NEW k \in Keys, NEW at \in Times, Known(k),
         at <= now, now <= at + Delay, NEW s \in 0 .. now
  PROVE  LET c == Refilled(k, at)
             n == Since(k, s)
         IN
         /\ c \in Int
         /\ c <= Capacity
         /\ 0 <= c + Delay
         /\ 0 <= c + (now - at)
         /\ before[k][s] \in Nat /\ spent[k] \in Nat /\ before[k][s] <= spent[k]
         /\ n = 0 \/ n <= Capacity + (at - s) + Delay - c
         /\ n + Cost <= Capacity + (at - s) + Delay - (c - Cost)
<1>1. /\ Sound(buckets[k]) /\ Covered(buckets[k], Since(k, s), s)
      /\ before[k][s] <= spent[k]
  BY DEF Inv, Account
<1>2. before[k][s] \in Nat /\ spent[k] \in Nat
  BY Numbers DEF Inv
<1>3. Since(k, s) \in Int
  BY <1>2 DEF Since
<1>4. TypeOK
  BY DEF Inv
<1> QED BY <1>1, <1>2, <1>3, <1>4, BucketKeeps

LEMMA AllowKeeps ==
  ASSUME Inv, NEW h \in Handlers, Allow(h), TypeOK'
  PROVE  Inv'
<1>1. PICK k \in Keys, at \in Times :
        /\ req[h].key = k /\ req[h].at = at
        /\ at <= now /\ now <= at + Delay
  BY InFlight DEF Allow
<1> DEFINE c == Refilled(k, at)
<1>2. /\ Put(k, c - Cost, at) /\ UNCHANGED <<now, before, cutoff>>
      /\ req' = [req EXCEPT ![h] = Idle]
      /\ spent' = [spent EXCEPT ![k] = @ + Cost]
      /\ Known(k) /\ c >= Cost
  BY <1>1 DEF Allow, Admitted
<1>3. /\ spent'[k] = spent[k] + Cost
      /\ \A j \in Keys : j # k => spent'[j] = spent[j]
  BY <1>2 DEF Inv, TypeOK
<1>4. c \in Int /\ c <= Capacity
  <2>1. 0 \in 0 .. now
    BY Numbers DEF Inv
  <2> QED BY <1>1, <1>2, <2>1, Refill
<1>5. ASSUME NEW s \in 0 .. now
      PROVE  /\ before[k][s] <= spent'[k]
             /\ \/ spent'[k] - before[k][s] = 0
                \/ spent'[k] - before[k][s]
                     <= Capacity + (at - s) + Delay - (c - Cost)
  <2>1. /\ before[k][s] \in Nat /\ spent[k] \in Nat /\ before[k][s] <= spent[k]
        /\ Since(k, s) + Cost <= Capacity + (at - s) + Delay - (c - Cost)
    BY <1>1, <1>2, Refill
  <2>2. spent'[k] - before[k][s] = Since(k, s) + Cost
    BY <1>3, <2>1, CostAssumption DEF Since
  <2>3. before[k][s] <= spent'[k]
    BY <1>3, <2>1, CostAssumption
  <2> QED BY <2>1, <2>2, <2>3
<1> HIDE DEF c
<1>6. /\ c - Cost \in Int /\ c - Cost <= Capacity
      /\ 0 <= (c - Cost) + Delay
      /\ 0 <= (c - Cost) + (now - at)
  <2>1. now \in Int /\ at \in Int
    BY TimeAssumption DEF Inv, TypeOK, Times
  <2> QED BY <1>1, <1>2, <1>4, <2>1, CostAssumption, TimeAssumption
<1> QED BY <1>1, <1>2, <1>3, <1>5, <1>6, ServeKeeps

LEMMA RefuseKeeps ==
  ASSUME Inv, NEW h \in Handlers, Refuse(h), TypeOK'
  PROVE  Inv'
<1>1. PICK k \in Keys, at \in Times :
        /\ req[h].key = k /\ req[h].at = at
        /\ at <= now /\ now <= at + Delay
  BY InFlight DEF Refuse
<1> DEFINE c == Refilled(k, at)
<1>2. /\ Put(k, c, at) /\ UNCHANGED <<now, before, cutoff, spent>>
      /\ req' = [req EXCEPT ![h] = Idle]
      /\ Known(k)
  BY <1>1 DEF Refuse, Refused
<1>3. /\ c \in Int /\ c <= Capacity
      /\ 0 <= c + Delay
      /\ 0 <= c + (now - at)
  <2>1. 0 \in 0 .. now
    BY Numbers DEF Inv
  <2> QED BY <1>1, <1>2, <2>1, Refill
<1>4. ASSUME NEW s \in 0 .. now
      PROVE  /\ before[k][s] <= spent'[k]
             /\ \/ spent'[k] - before[k][s] = 0
                \/ spent'[k] - before[k][s] <= Capacity + (at - s) + Delay - c
  BY <1>1, <1>2, Refill DEF Since
<1> QED BY <1>1, <1>2, <1>3, <1>4, ServeKeeps

-----------------------------------------------------------------------------
LEMMA ArriveKeeps ==
  ASSUME Inv, NEW h \in Handlers, NEW k \in Keys, Arrive(h, k), TypeOK'
  PROVE  Inv'
<1>1. now \in Int /\ now <= now + Delay
  BY TimeAssumption DEF Inv, TypeOK, Times
<1>2. Waits'
  <2>1. ASSUME NEW g \in Handlers PROVE Stamped(req[g])'
    <3>1. CASE g = h
      BY <1>1, <3>1 DEF Arrive, Inv, TypeOK, Stamped
    <3>2. CASE g # h
      BY <3>2 DEF Arrive, Inv, TypeOK, Waits, Stamped
    <3> QED BY <3>1, <3>2
  <2> QED BY <2>1 DEF Waits
<1>3. Cautious'
  BY DEF Inv, Arrive, Cautious
<1>4. \A j \in Keys : Account(j)'
  BY SameAccount DEF Inv, Arrive
<1> QED BY <1>2, <1>3, <1>4 DEF Inv

LEMMA WakeKeeps ==
  ASSUME Inv, Wake, TypeOK'
  PROVE  Inv'
<1>1. Waits'
  BY DEF Inv, Wake, Waits, Stamped
<1>2. Cautious'
  BY IdleAssumption, TimeAssumption DEF Wake, Cautious, Inv, TypeOK, Times
<1>3. \A j \in Keys : Account(j)'
  BY SameAccount DEF Inv, Wake
<1> QED BY <1>1, <1>2, <1>3 DEF Inv

\* A bucket the janitor forgets has been left alone for longer than it takes to
\* fill, so what its address has spent is no more than it would have regained.
LEMMA ForgottenRegained ==
  ASSUME Inv, NEW k \in Keys, Known(k), buckets[k].last < cutoff,
         NEW s \in 0 .. now
  PROVE  Regained(Since(k, s), s)
<1> DEFINE t == buckets[k].tokens
           l == buckets[k].last
           n == Since(k, s)
<1>1. Sound(buckets[k]) /\ Covered(buckets[k], n, s) /\ Cautious
  BY DEF Inv, Account
<1>2. /\ 0 <= t + Delay /\ l < cutoff /\ cutoff <= now - IdleTime
      /\ n = 0 \/ n <= Capacity + (l - s) + Delay - t
  BY <1>1 DEF Sound, Covered, Cautious
<1>3. t \in Int /\ l \in Int
  BY DEF Inv, TypeOK, Known, Bucket, Times
<1>4. n \in Int
  BY Numbers DEF Inv, Since
<1>5. now \in Int /\ s \in Int /\ cutoff \in Int
  BY Numbers DEF Inv, TypeOK
<1> HIDE DEF t, l, n
<1>6. n = 0 \/ n <= now - s
  BY <1>2, <1>3, <1>4, <1>5, IdleAssumption, TimeAssumption, CostAssumption
<1> QED BY <1>6 DEF n, Regained

LEMMA SweepKeeps ==
  ASSUME Inv, Sweep, TypeOK'
  PROVE  Inv'
<1>1. Waits'
  BY DEF Inv, Sweep, Waits, Stamped
<1>2. Cautious'
  BY IdleAssumption, TimeAssumption
     DEF Sweep, Never, Cautious, Inv, TypeOK, Times
<1>3. ASSUME NEW j \in Keys PROVE Account(j)'
  <2>1. CASE Known(j) /\ buckets[j].last < cutoff
    <3>1. buckets'[j] = NoBucket /\ UNCHANGED <<now, before, spent>>
      BY <2>1 DEF Sweep
    <3>2. \A s \in 0 .. now : Regained(Since(j, s), s) /\ before[j][s] <= spent[j]
      BY <2>1, ForgottenRegained DEF Inv, Account
    <3> QED BY <3>1, <3>2 DEF Account, Known, Since, Regained
  <2>2. CASE ~(Known(j) /\ buckets[j].last < cutoff)
    <3>1. buckets'[j] = buckets[j] /\ UNCHANGED <<now, before, spent>>
      BY <2>2 DEF Sweep
    <3> QED BY <3>1, SameAccount DEF Inv
  <2> QED BY <2>1, <2>2
<1> QED BY <1>1, <1>2, <1>3 DEF Inv

LEMMA TickKeeps ==
  ASSUME Inv, Tick, TypeOK'
  PROVE  Inv'
<1>1. /\ now \in Nat /\ now' = now + 1
      /\ UNCHANGED <<buckets, req, cutoff, spent>>
  BY TimeAssumption DEF Inv, TypeOK, Tick, Times
<1>2. Waits'
  <2>1. ASSUME NEW h \in Handlers, req[h] # Idle
        PROVE  req[h].at <= now + 1 /\ now + 1 <= req[h].at + Delay
    <3>1. req[h].at \in Nat
      BY <2>1 DEF Inv, TypeOK, Request, Idle, Times
    <3>2. req[h].at <= now /\ now < req[h].at + Delay
      BY <2>1 DEF Inv, Waits, Stamped, Tick
    <3> QED BY <1>1, <3>1, <3>2, TimeAssumption
  <2> QED BY <1>1, <2>1 DEF Waits, Stamped
<1>3. Cautious'
  BY <1>1, IdleAssumption DEF Inv, TypeOK, Cautious
<1>4. ASSUME NEW k \in Keys PROVE Account(k)'
  <2>1. /\ Account(k) /\ spent[k] \in Nat
    BY Numbers DEF Inv
  <2>2. now + 1 \in Times
    BY <1>1, TimeAssumption DEF Inv, TypeOK, Tick, Times
  <2>3. /\ before'[k][now + 1] = spent[k]
        /\ \A s \in 0 .. now : before'[k][s] = before[k][s] /\ before[k][s] \in Nat
    <3>1. before'[k] = [before[k] EXCEPT ![now + 1] = spent[k]]
      BY DEF Tick
    <3>2. before[k] \in [Times -> Nat]
      BY DEF Inv, TypeOK
    <3>3. \A s \in 0 .. now : s \in Times /\ s # now + 1 /\ before[k][s] \in Nat
      BY <1>1, Numbers DEF Inv
    <3> QED BY <2>2, <3>1, <3>2, <3>3
  <2>4. Known(k) => Sound(buckets[k])'
    <3>1. SUFFICES ASSUME Known(k) PROVE Sound(buckets[k])'
      OBVIOUS
    <3>2. buckets[k].tokens \in Int /\ buckets[k].last \in Int
      BY <3>1 DEF Inv, TypeOK, Known, Bucket, Times
    <3> QED BY <1>1, <2>1, <3>1, <3>2 DEF Account, Sound
  <2>5. ASSUME NEW s \in 0 .. now + 1
        PROVE  LET n == spent[k] - before'[k][s] IN
               /\ before'[k][s] <= spent[k]
               /\ n = 0 \/ IF Known(k)
                             THEN n <= Capacity + (buckets[k].last - s) + Delay
                                         - buckets[k].tokens
                             ELSE n <= (now + 1) - s
    <3>1. CASE s = now + 1
      BY <2>1, <2>3, <3>1
    <3>2. CASE s \in 0 .. now
      <4>1. /\ before'[k][s] = before[k][s] /\ before[k][s] \in Nat
            /\ before[k][s] <= spent[k]
        BY <2>1, <2>3, <3>2 DEF Account
      <4>2. CASE Known(k)
        BY <2>1, <3>2, <4>1, <4>2 DEF Account, Covered, Since
      <4>3. CASE ~Known(k)
        <5>1. Regained(Since(k, s), s)
          BY <2>1, <3>2, <4>3 DEF Account
        <5> QED BY <1>1, <2>1, <3>2, <4>1, <4>3, <5>1 DEF Regained, Since
      <4> QED BY <4>2, <4>3
    <3>3. s = now + 1 \/ s \in 0 .. now
      BY <1>1
    <3> QED BY <3>1, <3>2, <3>3
  <2>6. Known(k)' <=> Known(k)
    BY <1>1 DEF Known
  <2>7. ASSUME NEW s \in 0 .. now'
        PROVE  /\ before'[k][s] <= spent'[k]
               /\ IF Known(k)' THEN Covered(buckets[k], Since(k, s), s)'
                               ELSE Regained(Since(k, s), s)'
    <3>1. s \in 0 .. now + 1
      BY <1>1
    <3> QED BY <1>1, <2>5, <2>6, <3>1 DEF Covered, Regained, Since
  <2> QED
    BY <2>4, <2>6, <2>7 DEF Account
<1> QED BY <1>2, <1>3, <1>4 DEF Inv

-----------------------------------------------------------------------------
LEMMA InvInit == Init => Inv
<1> SUFFICES ASSUME Init PROVE Inv
  OBVIOUS
<1>1. TypeOK
  BY TypeInit
<1>2. Waits
  BY DEF Init, Waits, Stamped
<1>3. Cautious
  BY IdleAssumption DEF Init, Never, Cautious
<1>4. ASSUME NEW k \in Keys PROVE Account(k)
  <2>1. ~Known(k) /\ now = 0 /\ spent[k] = 0
    BY DEF Init, Known
  <2>2. \A s \in 0 .. now : before[k][s] = 0
    BY <2>1, TimeAssumption DEF Init, Times
  <2> QED BY <2>1, <2>2 DEF Account, Regained, Since
<1> QED BY <1>1, <1>2, <1>3, <1>4 DEF Inv

LEMMA InvStep ==
  ASSUME Inv, [Next]_vars
  PROVE  Inv'
<1>1. TypeOK'
  BY TypeStep DEF Inv
<1>2. ASSUME NEW h \in Handlers, NEW k \in Keys, Arrive(h, k) PROVE Inv'
  BY <1>1, <1>2, ArriveKeeps
<1>3. ASSUME NEW h \in Handlers, AllowNew(h) PROVE Inv'
  BY <1>1, <1>3, AllowNewKeeps
<1>4. ASSUME NEW h \in Handlers, Allow(h) PROVE Inv'
  BY <1>1, <1>4, AllowKeeps
<1>5. ASSUME NEW h \in Handlers, Refuse(h) PROVE Inv'
  BY <1>1, <1>5, RefuseKeeps
<1>6. CASE UNCHANGED vars
  <2>1. Waits' /\ Cautious'
    BY <1>6 DEF vars, Inv, Waits, Stamped, Cautious
  <2>2. \A j \in Keys : Account(j)'
    BY <1>6, SameAccount DEF vars, Inv
  <2> QED BY <1>1, <2>1, <2>2 DEF Inv
<1> QED
  BY <1>1, <1>2, <1>3, <1>4, <1>5, <1>6, WakeKeeps, SweepKeeps, TickKeeps
     DEF Next

\* What an invariant says of the budget.
LEMMA InvBudget == Inv => BudgetKept
<1> SUFFICES ASSUME Inv, NEW k \in Keys, NEW s \in 0 .. now
             PROVE  spent[k] - before[k][s] <= Capacity + (now - s) + Delay
  BY DEF BudgetKept
<1>1. /\ now \in Nat /\ spent[k] \in Nat /\ s \in Nat /\ before[k][s] \in Nat
      /\ s <= now
  BY Numbers DEF Inv
<1>2. Account(k)
  BY DEF Inv
<1>3. CASE Known(k)
  <2> DEFINE t == buckets[k].tokens
             l == buckets[k].last
  <2>1. t \in Int /\ l \in Int
    BY <1>3 DEF Inv, TypeOK, Known, Bucket, Times
  <2>2. Sound(buckets[k]) /\ Covered(buckets[k], Since(k, s), s)
    BY <1>2, <1>3 DEF Account
  <2>3. /\ 0 <= t + (now - l)
        /\ \/ spent[k] - before[k][s] = 0
           \/ spent[k] - before[k][s] <= Capacity + (l - s) + Delay - t
    BY <2>2 DEF Sound, Covered, Since
  <2> HIDE DEF t, l
  <2> QED BY <1>1, <2>1, <2>3, CostAssumption, TimeAssumption
<1>4. CASE ~Known(k)
  BY <1>1, <1>2, <1>4, CostAssumption, TimeAssumption
     DEF Account, Regained, Since
<1> QED BY <1>3, <1>4

\* Over every stretch of time, for every capacity, price, clock and number of
\* addresses: no address spends more than a full bucket and what that bucket
\* gains (the token buckets of middleware.go:84-140).
THEOREM BudgetAlwaysKept == Spec => []BudgetKept
<1>1. Spec => []Inv
  BY InvInit, InvStep, PTL DEF Spec
<1> QED BY <1>1, InvBudget, PTL

=============================================================================
