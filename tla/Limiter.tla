------------------------------ MODULE Limiter ------------------------------
(***************************************************************************)
(* The token buckets in front of creating and joining a room.  A request   *)
(* reads the clock before it takes the lock, so a bucket may be refilled   *)
(* with a time older than that of its last refill; a janitor forgets the   *)
(* buckets nobody has used for a while, with a cutoff it has computed      *)
(* before the lock too.                                                    *)
(*                                                                         *)
(* A unit of tokens is what a bucket gains in a unit of time, so a request *)
(* costs Cost units: 1 unit when time is counted in seconds and a bucket   *)
(* gains 60 tokens a minute, more when it is counted in parts of a second. *)
(***************************************************************************)
EXTENDS Integers

CONSTANTS
  Keys,      \* client addresses
  Handlers,  \* goroutines serving requests at the same time
  Capacity,  \* what a full bucket holds
  Cost,      \* one token
  IdleTime,  \* a bucket not used for this long is forgotten, 30 minutes
  Delay,     \* the longest wait for the lock
  Horizon,   \* the clock stops here (bounds an instance)
  NoKey

ASSUME CostAssumption == Cost \in Nat \ {0} /\ Capacity \in Nat /\ Cost <= Capacity
ASSUME TimeAssumption == Delay \in Nat /\ Horizon \in Nat
\* 30 minutes are longer than a bucket takes to fill: 20 seconds.
ASSUME IdleAssumption == IdleTime \in Nat /\ IdleTime >= Capacity + 2 * Delay
ASSUME KeyAssumption == NoKey \notin Keys

Times == 0 .. Horizon

VARIABLES
  now,      \* the clock
  buckets,  \* the bucket of each address, or NoBucket
  req,      \* the requests between reading the clock and taking the lock
  cutoff,   \* what the janitor is about to forget, or Never
  spent,    \* units spent by each address so far
  before    \* what it had spent before each moment

vars == <<now, buckets, req, cutoff, spent, before>>

-----------------------------------------------------------------------------
Bucket == [tokens : Int, last : Times]
NoBucket == [tokens |-> 0, last |-> Horizon + 1]
Idle == [key |-> NoKey, at |-> 0]
Request == [key : Keys, at : Times]
Never == -1 - IdleTime

Known(k) == buckets[k] # NoBucket

Least(a, b) == IF a <= b THEN a ELSE b

Init ==
  /\ now = 0
  /\ buckets = [k \in Keys |-> NoBucket]
  /\ req = [h \in Handlers |-> Idle]
  /\ cutoff = Never
  /\ spent = [k \in Keys |-> 0]
  /\ before = [k \in Keys |-> [s \in Times |-> 0]]

-----------------------------------------------------------------------------
\* A request reads the clock.
Arrive(h, k) ==
  /\ req[h] = Idle
  /\ req' = [req EXCEPT ![h] = [key |-> k, at |-> now]]
  /\ UNCHANGED <<now, buckets, cutoff, spent, before>>

\* Faulty variant of Refilled: the bucket has no brim.
RefilledOverBrim(k, at) == buckets[k].tokens + (at - buckets[k].last)

\* What the bucket of k holds at the time of a request.
Refilled(k, at) ==
  Least(Capacity, buckets[k].tokens + (at - buckets[k].last))

\* The bucket and its clock after a request that leaves it with the tokens given.
Put(k, tokens, at) ==
  buckets' = [buckets EXCEPT ![k] = [tokens |-> tokens, last |-> at]]

Admitted(h, k) ==
  /\ spent' = [spent EXCEPT ![k] = @ + Cost]
  /\ req' = [req EXCEPT ![h] = Idle]
  /\ UNCHANGED <<now, cutoff, before>>

Refused(h) ==
  /\ req' = [req EXCEPT ![h] = Idle]
  /\ UNCHANGED <<now, cutoff, spent, before>>

\* An address with no bucket gets a full one, and has one token of it spent.
AllowNew(h) ==
  LET k == req[h].key IN
  /\ k # NoKey
  /\ ~Known(k)
  /\ Put(k, Capacity - Cost, req[h].at)
  /\ Admitted(h, k)

Allow(h) ==
  LET k == req[h].key
      tokens == Refilled(k, req[h].at)
  IN
  /\ k # NoKey
  /\ Known(k)
  /\ tokens >= Cost
  /\ Put(k, tokens - Cost, req[h].at)
  /\ Admitted(h, k)

\* A refusal moves the bucket's clock too.
Refuse(h) ==
  LET k == req[h].key
      tokens == Refilled(k, req[h].at)
  IN
  /\ k # NoKey
  /\ Known(k)
  /\ tokens < Cost
  /\ Put(k, tokens, req[h].at)
  /\ Refused(h)

\* The janitor wakes up and computes its cutoff.
Wake ==
  /\ cutoff = Never
  /\ cutoff' = now - IdleTime
  /\ UNCHANGED <<now, buckets, req, spent, before>>

\* It forgets every bucket last used before that.
Sweep ==
  /\ cutoff # Never
  /\ buckets' = [k \in Keys |->
       IF Known(k) /\ buckets[k].last < cutoff THEN NoBucket ELSE buckets[k]]
  /\ cutoff' = Never
  /\ UNCHANGED <<now, req, spent, before>>

\* Nobody waits for the lock longer than Delay.
Tick ==
  /\ now < Horizon
  /\ \A h \in Handlers : req[h] # Idle => now < req[h].at + Delay
  /\ now' = now + 1
  /\ before' = [k \in Keys |-> [before[k] EXCEPT ![now + 1] = spent[k]]]
  /\ UNCHANGED <<buckets, req, cutoff, spent>>

Next ==
  \/ \E h \in Handlers :
       \/ \E k \in Keys : Arrive(h, k)
       \/ AllowNew(h)
       \/ Allow(h)
       \/ Refuse(h)
  \/ Wake
  \/ Sweep
  \/ Tick

Spec == Init /\ [][Next]_vars

-----------------------------------------------------------------------------
\* Properties

TypeOK ==
  /\ now \in Times
  /\ buckets \in [Keys -> Bucket \cup {NoBucket}]
  /\ req \in [Handlers -> Request \cup {Idle}]
  /\ cutoff \in Int
  /\ spent \in [Keys -> Nat]
  /\ before \in [Keys -> [Times -> Nat]]

\* Over every stretch of time an address spends no more than a full bucket,
\* what the bucket gains in that time, and what it gains in the longest wait
\* for the lock: whatever the order in which late requests take the lock, and
\* however often the janitor has forgotten the address in between
\* (middleware.go:84, "a small per-IP token bucket").
BudgetKept ==
  \A k \in Keys : \A s \in 0 .. now :
    spent[k] - before[k][s] <= Capacity + (now - s) + Delay

=============================================================================
