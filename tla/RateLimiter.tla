---------------------------- MODULE RateLimiter ----------------------------
(***************************************************************************)
(* internal/middleware/ratelimit.go: token buckets per client key behind   *)
(* one mutex.  Allow stamps `now` BEFORE it takes the lock, so stamps may  *)
(* reach a bucket out of order and `elapsed` may be negative; the body     *)
(* under the lock is one step here.                                        *)
(*                                                                         *)
(* Time and tokens are integers: a request costs Cost units, a bucket      *)
(* holds Capacity units and gains Refill units per clock tick (the code's  *)
(* float64 tokens, scaled).  main.go uses 120 requests, 2 per second, and  *)
(* reaps buckets idle for over an hour once there are 10000.               *)
(***************************************************************************)
EXTENDS Integers, FiniteSets, Sequences

CONSTANTS Keys,          \* client keys
          Callers,       \* goroutines inside Allow
          Capacity, Refill, Cost,
          SweepAt,       \* number of buckets that makes a new key sweep
          IdleLimit,     \* ticks a bucket must be idle to be reaped
          MaxStall,      \* ticks a caller may wait for the lock
          MaxClock       \* bound: ticks

ASSUME LimitsAssumption ==
  /\ Capacity \in Nat /\ Refill \in Nat /\ Cost \in Nat \ {0}
  /\ SweepAt \in Nat /\ IdleLimit \in Nat /\ MaxStall \in Nat /\ MaxClock \in Nat

\* A reaped bucket would have been full again: idle since a stamp that was at
\* most MaxStall old, and met again with one that is (main.go: 120 <= 2 * 3600
\* leaves half an hour for the stalls).
ASSUME SweepAssumption == Capacity <= Refill * (IdleLimit + 1 - 2 * MaxStall)

VARIABLES clock,     \* the monotonic clock
          bucket,    \* rl.buckets: a map with the keys present
          caller,    \* callers that stamped `now` and wait for the lock
          admitted,  \* history: stamps of the requests admitted, per key
          denied     \* history: clock of the last refusal, until an admission

vars == <<clock, bucket, caller, admitted, denied>>

Never == -1     \* no such moment yet

Bucket == [tokens : Int, last : Nat]
Waiting == [key : Keys, now : Nat]

TypeOK ==
  /\ clock \in 0 .. MaxClock
  /\ DOMAIN bucket \subseteq Keys
  /\ \A k \in DOMAIN bucket : bucket[k] \in Bucket
  /\ DOMAIN caller \subseteq Callers
  /\ \A c \in DOMAIN caller : caller[c] \in Waiting
  /\ admitted \in [Keys -> Seq(Nat)]
  /\ denied \in [Keys -> Nat \cup {Never}]

Without(f, x) == [y \in DOMAIN f \ {x} |-> f[y]]
With(f, x, v) == [y \in DOMAIN f \cup {x} |-> IF y = x THEN v ELSE f[y]]

Init ==
  /\ clock = 0
  /\ bucket = [k \in {} |-> 0]
  /\ caller = [c \in {} |-> 0]
  /\ admitted = [k \in Keys |-> <<>>]
  /\ denied = [k \in Keys |-> Never]

\* now := time.Now(), before the lock.
Stamp(c, k) ==
  /\ c \notin DOMAIN caller
  /\ caller' = With(caller, c, [key |-> k, now |-> clock])
  /\ UNCHANGED <<clock, bucket, admitted, denied>>

\* sweepLocked: drop the buckets idle for more than the limit.
Swept(now) ==
  [k \in {j \in DOMAIN bucket : now - bucket[j].last <= IdleLimit} |-> bucket[k]]

\* The map after Allow looked key up: a new key sweeps a full map and gets a
\* full bucket.
Lookup(k, now) ==
  IF k \in DOMAIN bucket
  THEN bucket
  ELSE With(IF Cardinality(DOMAIN bucket) >= SweepAt THEN Swept(now) ELSE bucket,
            k, [tokens |-> Capacity, last |-> now])

\* Mutants: no cap; elapsed time rounded down; a fraction of a token is enough.
RefilledUncapped(b, now) == b.tokens + (now - b.last) * Refill

RefilledCoarse(b, now) ==
  LET t == b.tokens + (2 * ((now - b.last) \div 2)) * Refill
  IN  IF t < Capacity THEN t ELSE Capacity

AnyToken(tokens) == tokens > 0

\* rateBucket.allow, the refill: elapsed may be negative.
Refilled(b, now) ==
  LET t == b.tokens + (now - b.last) * Refill
  IN  IF t < Capacity THEN t ELSE Capacity

\* rateBucket.allow, the test.
EnoughTokens(tokens) == tokens >= Cost

\* The body of Allow, under the mutex.
Allow(c) ==
  LET k      == caller[c].key
      now    == caller[c].now
      map    == Lookup(k, now)
      tokens == Refilled(map[k], now)
      ok     == EnoughTokens(tokens)
  IN
  /\ bucket' = With(map, k, [tokens |-> IF ok THEN tokens - Cost ELSE tokens,
                             last |-> now])
  /\ caller' = Without(caller, c)
  /\ admitted' = [admitted EXCEPT ![k] = IF ok THEN Append(@, now) ELSE @]
  /\ denied' = [denied EXCEPT ![k] = IF ok THEN Never ELSE clock]
  /\ UNCHANGED clock

\* Time passes; no caller waits for the lock longer than MaxStall.
Tick ==
  /\ clock < MaxClock
  /\ \A c \in DOMAIN caller : clock - caller[c].now < MaxStall
  /\ clock' = clock + 1
  /\ UNCHANGED <<bucket, caller, admitted, denied>>

Next ==
  \/ \E c \in Callers, k \in Keys : Stamp(c, k)
  \/ \E c \in DOMAIN caller : Allow(c)
  \/ Tick

Spec == Init /\ [][Next]_vars

----------------------------------------------------------------------------
\* Properties.

\* The limit itself, over every stretch of admissions and whatever order the
\* stamps arrive in: from one admission of a key to another there are never
\* more than a full burst plus the refill of the time between them.  Idle time
\* is not saved up beyond the burst, and reaping buckets grants nothing extra.
RateBound ==
  \A k \in Keys : \A j \in DOMAIN admitted[k] : \A i \in 1 .. j :
    (j - i + 1) * Cost <= Capacity + Refill * (admitted[k][j] - admitted[k][i])

\* A stale stamp may push a bucket below zero, but never by more than the
\* refill of the time the stamp went back: time alone makes up for it.
NeverInDebt ==
  \A k \in DOMAIN bucket :
    /\ bucket[k].last <= clock
    /\ bucket[k].tokens + Refill * (clock - bucket[k].last) >= 0

\* "Retry-After: 1" is honest: a key refused, and not admitted since, that
\* comes back after enough ticks to refill one request is let in.
RetryAfterHonest ==
  [][\A c \in DOMAIN caller :
       LET k == caller[c].key IN
       (/\ c \notin DOMAIN caller'
        /\ denied[k] # Never
        /\ Refill * (caller[c].now - denied[k]) >= Cost)
         => Cost > Capacity \/ admitted'[k] # admitted[k]]_vars
=============================================================================
