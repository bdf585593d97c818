--------------------------- MODULE RateLimiterProofs ---------------------------
(***************************************************************************)
(* Theorems about RateLimiter, for any keys, callers and limits: whatever  *)
(* the order in which stamps reach the buckets, and whenever buckets are   *)
(* reaped.                                                                 *)
(***************************************************************************)
EXTENDS RateLimiter, TLAPS

\* What t ticks refill and what n requests cost.
Gain(t) == Refill * t
Price(n) == n * Cost

LEMMA GainLaws ==
  /\ Gain(0) = 0
  /\ \A t \in Int : Gain(t) \in Int
  /\ \A s, t \in Int : Gain(s + t) = Gain(s) + Gain(t)
  /\ \A s, t \in Int : Gain(s - t) = Gain(s) - Gain(t)
  /\ \A s, t \in Int : s <= t => Gain(s) <= Gain(t)
  <1>0. Refill \in Nat
    BY LimitsAssumption
  <1>1. \A s, t \in Int : s <= t => Refill * s <= Refill * t
    BY <1>0
  <1> QED  BY <1>0, <1>1 DEF Gain

LEMMA GainSplit ==
  \A x, y, z \in Int :
    /\ Gain(x - z) = Gain(x - y) + Gain(y - z)
    /\ Gain(x - y) \in Int /\ Gain(y - z) \in Int /\ Gain(x - z) \in Int
    /\ y <= x => Gain(y - z) <= Gain(x - z) /\ 0 <= Gain(x - y)
  <1> SUFFICES ASSUME NEW x \in Int, NEW y \in Int, NEW z \in Int
               PROVE  /\ Gain(x - z) = Gain(x - y) + Gain(y - z)
                      /\ Gain(x - y) \in Int /\ Gain(y - z) \in Int /\ Gain(x - z) \in Int
                      /\ y <= x => Gain(y - z) <= Gain(x - z) /\ 0 <= Gain(x - y)
    OBVIOUS
  <1>1. Gain(x) \in Int /\ Gain(y) \in Int /\ Gain(z) \in Int
    BY GainLaws
  <1>2. /\ Gain(x - z) = Gain(x) - Gain(z) /\ Gain(x - y) = Gain(x) - Gain(y)
        /\ Gain(y - z) = Gain(y) - Gain(z) /\ (y <= x => Gain(y) <= Gain(x))
    BY GainLaws
  <1> QED  BY <1>1, <1>2

\* Waiting earns: from x to y.
LEMMA EarnsOn ==
  ASSUME NEW x \in Int, NEW y \in Int, NEW z \in Int, NEW b \in Int, x <= y
  PROVE  /\ b + Gain(x - z) >= 0 => b + Gain(y - z) >= 0
         /\ b <= Gain(x - MaxStall - z) => b <= Gain(y - MaxStall - z)
  <1>0. MaxStall \in Int /\ x - MaxStall \in Int /\ y - MaxStall \in Int
    BY LimitsAssumption
  <1>1. /\ Gain(x) \in Int /\ Gain(y) \in Int /\ Gain(z) \in Int /\ Gain(MaxStall) \in Int
        /\ Gain(x) <= Gain(y)
    BY <1>0, GainLaws
  <1>2. /\ Gain(x - z) = Gain(x) - Gain(z) /\ Gain(y - z) = Gain(y) - Gain(z)
        /\ Gain(x - MaxStall) = Gain(x) - Gain(MaxStall)
        /\ Gain(y - MaxStall) = Gain(y) - Gain(MaxStall)
    BY <1>0, GainLaws
  <1>3. /\ Gain(x - MaxStall - z) = Gain(x - MaxStall) - Gain(z)
        /\ Gain(y - MaxStall - z) = Gain(y - MaxStall) - Gain(z)
    BY <1>0, GainLaws
  <1> QED  BY <1>1, <1>2, <1>3

\* What was admitted up to x is earned again by a clock that is more than
\* IdleLimit past the bucket's last stamp l, for stamps MaxStall old, too.
LEMMA IdleEarns ==
  ASSUME NEW x \in Int, NEW z \in Int, NEW l \in Int, NEW h \in Int, NEW p \in Int,
         p <= Capacity + Gain(x - z), x <= l + MaxStall, l + IdleLimit < h
  PROVE  p <= Gain(h - MaxStall - z)
  <1>0. /\ MaxStall \in Int /\ IdleLimit \in Int /\ Capacity \in Int /\ Refill \in Int
        /\ h - MaxStall \in Int /\ l + MaxStall \in Int /\ l + IdleLimit \in Int
        /\ l + IdleLimit + 1 \in Int /\ l + IdleLimit + 1 <= h
    BY LimitsAssumption
  <1>1. /\ Gain(x) \in Int /\ Gain(z) \in Int /\ Gain(l) \in Int /\ Gain(h) \in Int
        /\ Gain(MaxStall) \in Int /\ Gain(IdleLimit) \in Int /\ Gain(1) \in Int
    <2>1. 1 \in Int
      OBVIOUS
    <2> QED  BY <1>0, <2>1, GainLaws, Zenon
  <1>2. Capacity <= Gain(IdleLimit) + Gain(1) - Gain(MaxStall) - Gain(MaxStall)
    BY <1>0, SweepAssumption DEF Gain
  <1>3. Gain(x) <= Gain(l + MaxStall) /\ Gain(l + MaxStall) = Gain(l) + Gain(MaxStall)
    BY <1>0, GainLaws
  <1>4. /\ Gain(l + IdleLimit) = Gain(l) + Gain(IdleLimit)
        /\ Gain(l + IdleLimit + 1) = Gain(l + IdleLimit) + Gain(1)
        /\ Gain(l + IdleLimit + 1) <= Gain(h)
    <2> DEFINE one == 1
    <2>1. one \in Int
      OBVIOUS
    <2>2. /\ Gain(l + IdleLimit) = Gain(l) + Gain(IdleLimit)
          /\ Gain(l + IdleLimit + one) = Gain(l + IdleLimit) + Gain(one)
          /\ Gain(l + IdleLimit + one) <= Gain(h)
      <3>1. l + IdleLimit + one \in Int /\ l + IdleLimit + one <= h
        BY <1>0
      <3> HIDE DEF one
      <3> QED  BY <1>0, <2>1, <3>1, GainLaws, Zenon
    <2> QED  BY <2>2, Zenon
  <1>5. /\ Gain(x - z) = Gain(x) - Gain(z)
        /\ Gain(h - MaxStall) = Gain(h) - Gain(MaxStall)
        /\ Gain(h - MaxStall - z) = Gain(h - MaxStall) - Gain(z)
    BY <1>0, GainLaws
  <1> QED  BY <1>0, <1>1, <1>2, <1>3, <1>4, <1>5

LEMMA PriceLaws ==
  /\ Price(0) = 0
  /\ \A n \in Int : Price(n) \in Int /\ Price(n + 1) = Price(n) + Cost
  BY LimitsAssumption DEF Price

----------------------------------------------------------------------------
\* The inductive invariant.

\* RateBound for one key.
Bounded(k) ==
  \A j \in DOMAIN admitted[k] : \A i \in 1 .. j :
    Price(j - i + 1) <= Capacity + Gain(admitted[k][j] - admitted[k][i])

\* The tokens of a bucket are what its admissions have left of the burst and of
\* the refill since each of them; no admission is far ahead of the bucket.
Spent(k) ==
  LET n == Len(admitted[k]) IN
  /\ \A i \in 1 .. n :
       Price(n - i + 1) + bucket[k].tokens <= Capacity + Gain(bucket[k].last - admitted[k][i])
  /\ n > 0 => admitted[k][n] <= bucket[k].last + MaxStall

\* A key without a bucket has earned a full burst again, for any stamp that may
\* still come.
Forgiven(k) ==
  LET n == Len(admitted[k]) IN
  \A i \in 1 .. n : Price(n - i + 1) <= Gain(clock - MaxStall - admitted[k][i])

\* NeverInDebt for one key.
Solvent(k) ==
  /\ bucket[k].last <= clock
  /\ bucket[k].tokens + Gain(clock - bucket[k].last) >= 0

\* A bucket that refused makes up for its debt from that moment on.
RefusedAt(k) ==
  denied[k] # Never => bucket[k].tokens + Gain(denied[k] - bucket[k].last) >= 0

KeyInv(k) ==
  /\ Bounded(k)
  /\ \A i \in DOMAIN admitted[k] : admitted[k][i] <= clock
  /\ k \in DOMAIN bucket => Spent(k) /\ Solvent(k) /\ RefusedAt(k)
  /\ k \notin DOMAIN bucket => Forgiven(k)

\* No caller waits for longer than MaxStall.
Fresh(c) == caller[c].now <= clock /\ clock - caller[c].now <= MaxStall

Inv ==
  /\ TypeOK
  /\ \A c \in DOMAIN caller : Fresh(c)
  /\ \A k \in Keys : KeyInv(k)

----------------------------------------------------------------------------
\* The body of Allow.

\* The tokens that the test sees.
Tokens(k, now) == Refilled(Lookup(k, now)[k], now)

\* A bucket that a sweep at `now` drops.
Reaped(j, now) == ~(now - bucket[j].last <= IdleLimit)

\* Lookup finds the bucket or makes a full one, and drops only idle buckets.
LEMMA LookupFacts ==
  ASSUME TypeOK, NEW k \in Keys, NEW now \in Nat
  PROVE  /\ DOMAIN Lookup(k, now) \subseteq Keys /\ k \in DOMAIN Lookup(k, now)
         /\ k \in DOMAIN bucket => Lookup(k, now) = bucket
         /\ k \notin DOMAIN bucket => Lookup(k, now)[k] = [tokens |-> Capacity, last |-> now]
         /\ \A j \in DOMAIN Lookup(k, now) \ {k} :
              j \in DOMAIN bucket /\ Lookup(k, now)[j] = bucket[j]
         /\ \A j \in DOMAIN bucket \ DOMAIN Lookup(k, now) : Reaped(j, now)
  <1> DEFINE map == IF Cardinality(DOMAIN bucket) >= SweepAt THEN Swept(now) ELSE bucket
  <1>0. DOMAIN bucket \subseteq Keys
    BY DEF TypeOK
  <1>1. /\ DOMAIN map \subseteq DOMAIN bucket
        /\ \A j \in DOMAIN map : map[j] = bucket[j]
        /\ \A j \in DOMAIN bucket \ DOMAIN map : Reaped(j, now)
    BY Zenon DEF Swept, Reaped
  <1>2. CASE k \in DOMAIN bucket
    BY <1>0, <1>2, Zenon DEF Lookup
  <1>3. CASE k \notin DOMAIN bucket
    <2>1. Lookup(k, now) = With(map, k, [tokens |-> Capacity, last |-> now])
      BY <1>3 DEF Lookup
    <2> HIDE DEF map
    <2>2. /\ DOMAIN Lookup(k, now) = DOMAIN map \cup {k}
          /\ Lookup(k, now)[k] = [tokens |-> Capacity, last |-> now]
          /\ \A j \in DOMAIN map \ {k} : Lookup(k, now)[j] = map[j]
      BY <2>1, Zenon DEF With
    <2> QED  BY <1>0, <1>1, <1>3, <2>2, Zenon
  <1> QED  BY <1>2, <1>3

\* A bucket's tokens after the refill: capped, and no more than time has brought.
LEMMA TokensFacts ==
  ASSUME TypeOK, NEW k \in Keys, NEW now \in Nat
  PROVE  /\ Tokens(k, now) \in Int /\ Tokens(k, now) <= Capacity
         /\ k \notin DOMAIN bucket => Tokens(k, now) = Capacity
         /\ k \in DOMAIN bucket =>
              LET u == bucket[k].tokens + Gain(now - bucket[k].last) IN
              /\ Tokens(k, now) <= u
              /\ Tokens(k, now) = u \/ Tokens(k, now) = Capacity
  <1> DEFINE b == Lookup(k, now)[k]  u == b.tokens + Gain(now - b.last)
  <1>0. Capacity \in Nat /\ Refill \in Nat
    BY LimitsAssumption
  <1>1. b.tokens \in Int /\ b.last \in Int
    <2>1. CASE k \in DOMAIN bucket
      <3>1. b = bucket[k]
        BY <2>1, LookupFacts, Zenon
      <3>2. bucket[k] \in Bucket
        BY <2>1 DEF TypeOK
      <3> QED  BY <3>1, <3>2 DEF Bucket
    <2>2. CASE k \notin DOMAIN bucket
      <3>1. b = [tokens |-> Capacity, last |-> now]
        BY <2>2, LookupFacts, Zenon
      <3> QED  BY <1>0, <3>1
    <2> QED  BY <2>1, <2>2
  <1>2. Gain(now - b.last) \in Int /\ Gain(0) = 0
    <2> now - b.last \in Int
      BY <1>1
    <2> QED  BY GainLaws, Zenon
  <1>3. (now - b.last) * Refill = Gain(now - b.last)
    BY <1>0, <1>1 DEF Gain
  <1>4. Tokens(k, now) = IF u < Capacity THEN u ELSE Capacity
    BY <1>3 DEF Tokens, Refilled
  <1>5. k \notin DOMAIN bucket => u = Capacity
    <2> SUFFICES ASSUME k \notin DOMAIN bucket  PROVE u = Capacity
      OBVIOUS
    <2>0. b = [tokens |-> Capacity, last |-> now]
      BY LookupFacts, Zenon
    <2>1. b.tokens = Capacity /\ b.last = now
      BY <2>0
    <2>2. now - b.last = 0
      BY <2>1
    <2> QED  BY <1>0, <1>2, <2>1, <2>2
  <1>6. k \in DOMAIN bucket => b = bucket[k]
    BY LookupFacts
  <1> HIDE DEF u
  <1>7. u \in Int
    BY <1>1, <1>2 DEF u
  <1>8. /\ Tokens(k, now) \in Int /\ Tokens(k, now) <= Capacity /\ Tokens(k, now) <= u
        /\ Tokens(k, now) = u \/ Tokens(k, now) = Capacity
    BY <1>0, <1>4, <1>7
  <1> QED  BY <1>0, <1>5, <1>6, <1>8 DEF u

\* What Allow leaves behind: the bucket that was asked, and the others.
Admits(k, now) ==
  /\ Tokens(k, now) >= Cost
  /\ bucket'[k].tokens = Tokens(k, now) - Cost
  /\ admitted'[k] = Append(admitted[k], now)
  /\ denied'[k] = Never

Refuses(k, now) ==
  /\ Tokens(k, now) < Cost
  /\ bucket'[k].tokens = Tokens(k, now)
  /\ admitted'[k] = admitted[k]
  /\ denied'[k] = clock

\* Everything Allow does for a key at a stamp.
Allowed(k, now) ==
  /\ TypeOK' /\ clock' = clock
  /\ DOMAIN caller' \subseteq DOMAIN caller
  /\ \A d \in DOMAIN caller' : caller'[d] = caller[d]
  /\ k \in Keys /\ now \in Nat
  /\ k \in DOMAIN bucket' /\ bucket'[k].last = now
  /\ Admits(k, now) \/ Refuses(k, now)
  /\ \A j \in Keys \ {k} :
       /\ admitted'[j] = admitted[j] /\ denied'[j] = denied[j]
       /\ j \in DOMAIN bucket' => j \in DOMAIN bucket /\ bucket'[j] = bucket[j]
       /\ j \in DOMAIN bucket /\ j \notin DOMAIN bucket' => Reaped(j, now)

LEMMA AllowFacts ==
  ASSUME TypeOK, NEW c \in DOMAIN caller, Allow(c), NEW k, NEW now,
         k = caller[c].key, now = caller[c].now
  PROVE  Allowed(k, now)
  <1> DEFINE map == Lookup(k, now)
             t == Tokens(k, now)
             left == IF t >= Cost THEN t - Cost ELSE t
  <1>0. Capacity \in Nat /\ Cost \in Nat
    BY LimitsAssumption
  <1>1. k \in Keys /\ now \in Nat /\ clock \in Nat
    BY LimitsAssumption DEF TypeOK, Waiting
  <1>2. t \in Int
    BY <1>1, TokensFacts
  <1>3. /\ bucket' = With(map, k, [tokens |-> left, last |-> now])
        /\ caller' = Without(caller, c)
        /\ admitted' = [admitted EXCEPT ![k] = IF t >= Cost THEN Append(@, now) ELSE @]
        /\ denied' = [denied EXCEPT ![k] = IF t >= Cost THEN Never ELSE clock]
        /\ clock' = clock
    BY Zenon DEF Allow, Tokens, EnoughTokens
  <1>4. left \in Int
    BY <1>0, <1>2
  <1> HIDE DEF map, t, left
  <1>5. /\ DOMAIN bucket' = DOMAIN map \cup {k}
        /\ bucket'[k] = [tokens |-> left, last |-> now]
        /\ \A j \in DOMAIN map \ {k} : bucket'[j] = map[j]
    BY <1>3, Zenon DEF With
  <1>6. /\ DOMAIN map \subseteq Keys /\ k \in DOMAIN map
        /\ \A j \in DOMAIN map \ {k} : j \in DOMAIN bucket /\ map[j] = bucket[j]
        /\ \A j \in DOMAIN bucket \ DOMAIN map : Reaped(j, now)
    <2> DEFINE Facts(x, y) ==
                 /\ DOMAIN Lookup(x, y) \subseteq Keys /\ x \in DOMAIN Lookup(x, y)
                 /\ \A j \in DOMAIN Lookup(x, y) \ {x} :
                      j \in DOMAIN bucket /\ Lookup(x, y)[j] = bucket[j]
                 /\ \A j \in DOMAIN bucket \ DOMAIN Lookup(x, y) : Reaped(j, y)
    <2>1. \A x \in Keys, y \in Nat : Facts(x, y)
      BY LookupFacts
    <2>2. Facts(k, now)
      <3> HIDE DEF Facts
      <3> QED  BY <1>1, <2>1, Zenon
    <2> QED  BY <2>2 DEF map
  <1>7. /\ DOMAIN caller' \subseteq DOMAIN caller
        /\ \A d \in DOMAIN caller' : caller'[d] = caller[d]
    BY <1>3 DEF Without
  <1>8. /\ admitted \in [Keys -> Seq(Nat)] /\ denied \in [Keys -> Nat \cup {Never}]
    BY DEF TypeOK
  <1>9. /\ admitted'[k] = IF t >= Cost THEN Append(admitted[k], now) ELSE admitted[k]
        /\ denied'[k] = IF t >= Cost THEN Never ELSE clock
        /\ \A j \in Keys \ {k} : admitted'[j] = admitted[j] /\ denied'[j] = denied[j]
    BY <1>1, <1>3, <1>8, Zenon
  <1>10. bucket'[k].tokens = left /\ bucket'[k].last = now
    BY <1>5
  <1>11. Admits(k, now) \/ Refuses(k, now)
    BY <1>0, <1>2, <1>9, <1>10 DEF Admits, Refuses, t, left
  <1>12. admitted' \in [Keys -> Seq(Nat)]
    <2>1. Append(admitted[k], now) \in Seq(Nat) /\ admitted[k] \in Seq(Nat)
      BY <1>1, <1>8
    <2> QED  BY <1>3, <1>8, <2>1
  <1>13. denied' \in [Keys -> Nat \cup {Never}]
    BY <1>1, <1>3, <1>8, Zenon
  <1>14. \A j \in DOMAIN bucket' : j \in Keys /\ bucket'[j] \in Bucket
    <2>1. bucket'[k] \in Bucket
      BY <1>1, <1>4, <1>5 DEF Bucket
    <2>2. \A j \in DOMAIN bucket : bucket[j] \in Bucket
      BY DEF TypeOK
    <2> QED  BY <1>1, <1>5, <1>6, <2>1, <2>2, Zenon
  <1>15. TypeOK'
    <2>1. /\ clock' \in 0 .. MaxClock
          /\ DOMAIN caller' \subseteq Callers
          /\ \A d \in DOMAIN caller' : caller'[d] \in Waiting
      BY <1>3, <1>7, Zenon DEF TypeOK
    <2> QED  BY <1>12, <1>13, <1>14, <2>1, Zenon DEF TypeOK
  <1>16. k \in DOMAIN bucket' /\ clock' = clock
    BY <1>3, <1>5
  <1>17. ASSUME NEW j \in Keys \ {k}
         PROVE  /\ j \in DOMAIN bucket' => j \in DOMAIN bucket /\ bucket'[j] = bucket[j]
                /\ j \in DOMAIN bucket /\ j \notin DOMAIN bucket' =>
                     Reaped(j, now)
    BY <1>5, <1>6, Zenon
  <1> QED  BY <1>1, <1>7, <1>9, <1>10, <1>11, <1>15, <1>16, <1>17, Zenon DEF Allowed

\* What TypeOK says of a key, in the terms of its invariant.
LEMMA KeyTypes ==
  ASSUME TypeOK, NEW k \in Keys
  PROVE  /\ clock \in Nat
         /\ admitted[k] \in Seq(Nat) /\ Len(admitted[k]) \in Nat
         /\ DOMAIN admitted[k] = 1 .. Len(admitted[k])
         /\ \A i \in 1 .. Len(admitted[k]) : admitted[k][i] \in Nat
         /\ denied[k] # Never => denied[k] \in Nat
         /\ k \in DOMAIN bucket => bucket[k].tokens \in Int /\ bucket[k].last \in Nat
  BY LimitsAssumption DEF TypeOK, Bucket

\* Allow keeps what holds of the key it was asked for: the bucket gains what
\* time brings (or loses what a stale stamp takes) and pays for an admission.
LEMMA AskedKeeps ==
  ASSUME TypeOK, NEW k \in Keys, NEW now \in Nat, now <= clock, clock - now <= MaxStall,
         clock' = clock, k \in DOMAIN bucket', bucket'[k].last = now,
         Admits(k, now) \/ Refuses(k, now), KeyInv(k)
  PROVE  KeyInv(k)'
  <1> DEFINE a == admitted[k]  n == Len(a)  t == Tokens(k, now)
  <1>0. /\ Capacity \in Nat /\ Cost \in Nat /\ MaxStall \in Nat /\ now \in Nat
        /\ clock' = clock /\ k \in DOMAIN bucket' /\ bucket'[k].last = now
    BY LimitsAssumption
  <1>1. /\ clock \in Nat /\ n \in Nat /\ a \in Seq(Nat) /\ DOMAIN a = 1 .. n
        /\ \A i \in 1 .. n : a[i] \in Nat
        /\ k \in DOMAIN bucket => bucket[k].tokens \in Int /\ bucket[k].last \in Nat
    BY <1>0, KeyTypes
  <1>2. now <= clock /\ clock - now <= MaxStall
    OBVIOUS
  <1>3. /\ t \in Int /\ t <= Capacity
        /\ k \notin DOMAIN bucket => t = Capacity
    BY <1>0, TokensFacts
  \* Before the admission.
  <1>4. \A i \in 1 .. n : Price(n - i + 1) + t <= Capacity + Gain(now - a[i])
    <2> SUFFICES ASSUME NEW i \in 1 .. n
                 PROVE  Price(n - i + 1) + t <= Capacity + Gain(now - a[i])
      OBVIOUS
    <2>a. a[i] \in Int /\ now \in Int /\ n - i + 1 \in Int
      BY <1>0, <1>1
    <2>0. Price(n - i + 1) \in Int /\ Gain(now - a[i]) \in Int
      BY <2>a, PriceLaws, GainSplit, Zenon
    <2>1. CASE k \in DOMAIN bucket
      <3> DEFINE b == bucket[k].tokens  l == bucket[k].last
      <3>1. Price(n - i + 1) + b <= Capacity + Gain(l - a[i])
        BY <2>1 DEF KeyInv, Spent
      <3>2. t <= b + Gain(now - l)
        BY <1>0, <2>1, TokensFacts
      <3>3. l \in Int /\ b \in Int
        BY <1>1, <2>1
      <3>4. /\ Gain(now - a[i]) = Gain(now - l) + Gain(l - a[i])
            /\ Gain(now - l) \in Int /\ Gain(l - a[i]) \in Int
        <4> DEFINE z == a[i]
        <4>1. z \in Int /\ l \in Int /\ now \in Int
          BY <2>a, <3>3
        <4>2. /\ Gain(now - z) = Gain(now - l) + Gain(l - z)
              /\ Gain(now - l) \in Int /\ Gain(l - z) \in Int
          <5> HIDE DEF z, l
          <5> QED  BY <4>1, GainSplit, ZenonT(60)
        <4> QED  BY <4>2, Zenon
      <3> HIDE DEF b, l, t, n, a
      <3> QED  BY <1>0, <1>3, <2>0, <3>1, <3>2, <3>3, <3>4
    <2>2. CASE k \notin DOMAIN bucket
      <3>1. Price(n - i + 1) <= Gain(clock - MaxStall - a[i])
        BY <2>2 DEF KeyInv, Forgiven
      <3>2. clock - MaxStall \in Int /\ clock - MaxStall <= now
        BY <1>0, <1>1, <1>2
      <3>3. /\ Gain(clock - MaxStall - a[i]) \in Int
            /\ Gain(clock - MaxStall - a[i]) <= Gain(now - a[i])
        BY <2>a, <3>2, GainSplit, Zenon
      <3> HIDE DEF t, n, a
      <3> QED  BY <1>0, <1>3, <2>0, <2>2, <3>1, <3>3
    <2> QED  BY <2>1, <2>2
  \* The debt is no greater than the refill up to the clock.
  <1>5. t < Cost => t + Gain(clock - now) >= 0
    <2>a. now \in Int /\ clock \in Int
      BY <1>0, <1>1
    <2>0. Gain(clock - now) \in Int /\ 0 <= Gain(clock - now)
      BY <1>2, <2>a, GainSplit, Zenon
    <2>1. CASE t = Capacity
      BY <1>0, <2>0, <2>1
    <2>2. CASE t # Capacity
      <3> DEFINE b == bucket[k].tokens  l == bucket[k].last
      <3>1. k \in DOMAIN bucket /\ t = b + Gain(now - l)
        BY <1>0, <1>3, <2>2, TokensFacts
      <3>2. b + Gain(clock - l) >= 0
        BY <3>1 DEF KeyInv, Solvent
      <3>3. l \in Int /\ b \in Int
        BY <1>1, <3>1
      <3>4. /\ Gain(clock - l) = Gain(clock - now) + Gain(now - l)
            /\ Gain(clock - l) \in Int /\ Gain(now - l) \in Int
        BY <2>a, <3>3, GainSplit, ZenonT(60)
      <3> HIDE DEF b, l, t
      <3> QED  BY <2>0, <3>1, <3>2, <3>3, <3>4
    <2> QED  BY <2>1, <2>2
  <1>6. CASE Refuses(k, now)
    <2>1. /\ admitted'[k] = a /\ bucket'[k].tokens = t /\ t < Cost /\ denied'[k] = clock
      BY <1>6 DEF Refuses
    <2>2. Bounded(k)'
      BY <2>1 DEF KeyInv, Bounded
    <2>3. \A i \in DOMAIN admitted'[k] : admitted'[k][i] <= clock'
      BY <1>0, <2>1 DEF KeyInv
    <2>4. Spent(k)'
      <3>1. n > 0 => a[n] \in Nat /\ a[n] <= clock
        BY <1>1 DEF KeyInv
      <3>2. n > 0 => a[n] <= now + MaxStall
        BY <1>0, <1>1, <1>2, <3>1
      <3> QED  BY <1>0, <1>4, <2>1, <3>2 DEF Spent
    <2>5. Solvent(k)' /\ RefusedAt(k)'
      BY <1>0, <1>2, <1>5, <2>1 DEF Solvent, RefusedAt
    <2> QED  BY <1>0, <2>2, <2>3, <2>4, <2>5 DEF KeyInv
  <1>7. CASE Admits(k, now)
    <2> DEFINE a2 == Append(a, now)
    <2>1. /\ admitted'[k] = a2 /\ bucket'[k].tokens = t - Cost /\ t >= Cost /\ denied'[k] = Never
      BY <1>7 DEF Admits
    <2>2. /\ Len(a2) = n + 1 /\ DOMAIN a2 = 1 .. n + 1
          /\ a2[n + 1] = now /\ \A i \in 1 .. n : a2[i] = a[i]
      BY <1>0, <1>1
    <2>3. \A i \in 1 .. n + 1 : Price(n + 1 - i + 1) + (t - Cost) <= Capacity + Gain(now - a2[i])
      <3> SUFFICES ASSUME NEW i \in 1 .. n + 1
                   PROVE  Price(n + 1 - i + 1) + (t - Cost) <= Capacity + Gain(now - a2[i])
        OBVIOUS
      <3>0. n - i + 1 \in Int /\ n + 1 - i + 1 = (n - i + 1) + 1
        BY <1>1
      <3>1. Price(n + 1 - i + 1) = Price(n - i + 1) + Cost /\ Price(n - i + 1) \in Int
        BY <3>0, PriceLaws
      <3>2. CASE i \in 1 .. n
        <4>1. a2[i] = a[i] /\ Price(n - i + 1) + t <= Capacity + Gain(now - a[i])
          BY <1>4, <2>2, <3>2
        <4>b. a[i] \in Int /\ now \in Int
          BY <1>0, <1>1, <3>2
        <4>2. Gain(now - a[i]) \in Int
          BY <4>b, GainSplit, Zenon
        <4> HIDE DEF t, n, a, a2
        <4> QED  BY <1>0, <1>3, <3>1, <4>1, <4>2
      <3>3. CASE i = n + 1
        <4>1. a2[i] = now /\ n - i + 1 = 0 /\ now - now = 0
          BY <1>0, <1>1, <2>2, <3>3
        <4>2. Price(n - i + 1) = 0 /\ Gain(now - a2[i]) = 0
          BY <4>1, PriceLaws, GainLaws
        <4> HIDE DEF t, n, a, a2
        <4> QED  BY <1>0, <1>3, <3>1, <4>2
      <3> QED  BY <1>1, <3>2, <3>3
    <2>4. Spent(k)'
      <3>1. n + 1 > 0 => now <= now + MaxStall
        BY <1>0
      <3>2. a2[n + 1] <= now + MaxStall
        BY <1>0, <2>2
      <3> DEFINE m == n + 1
      <3>3. /\ Len(a2) = m /\ a2[m] <= now + MaxStall
            /\ \A i \in 1 .. m : Price(m - i + 1) + (t - Cost) <= Capacity + Gain(now - a2[i])
        BY <2>2, <2>3, <3>2
      <3> HIDE DEF m, a2, t
      <3> QED  BY <1>0, <2>1, <3>3 DEF Spent
    <2>5. \A i \in DOMAIN admitted'[k] : admitted'[k][i] <= clock'
      BY <1>0, <1>1, <1>2, <2>1, <2>2 DEF KeyInv
    <2>6. Bounded(k)'
      <3> SUFFICES ASSUME NEW j \in 1 .. n + 1, NEW i \in 1 .. j
                   PROVE  Price(j - i + 1) <= Capacity + Gain(a2[j] - a2[i])
        BY <2>1, <2>2 DEF Bounded
      <3>1. CASE j \in 1 .. n
        <4>1. i \in 1 .. n
          BY <1>1, <3>1
        <4> QED  BY <1>1, <2>2, <3>1, <4>1 DEF KeyInv, Bounded
      <3>2. CASE j = n + 1
        <4>1. /\ i \in 1 .. n + 1 /\ a2[j] = now
              /\ Price(j - i + 1) + (t - Cost) <= Capacity + Gain(now - a2[i])
          BY <1>1, <2>2, <2>3, <3>2, SMTT(30)
        <4>2. a2[i] \in Int /\ now \in Int
          <5>1. CASE i \in 1 .. n
            BY <1>0, <1>1, <2>2, <5>1
          <5>2. CASE i = n + 1
            BY <1>0, <2>2, <5>2
          <5> QED  BY <1>1, <4>1, <5>1, <5>2
        <4>3. j - i + 1 \in Int
          BY <1>1, <3>2, <4>1
        <4>4. Price(j - i + 1) \in Int /\ Gain(now - a2[i]) \in Int
          BY <4>2, <4>3, PriceLaws, GainSplit, Zenon
        <4>5. /\ a2[j] = now /\ t - Cost >= 0
              /\ Price(j - i + 1) + (t - Cost) <= Capacity + Gain(now - a2[i])
          BY <1>0, <1>3, <2>1, <4>1, SMTT(30)
        <4> DEFINE p == Price(j - i + 1)  g == Gain(now - a2[i])
        <4>6. p \in Int /\ g \in Int /\ t - Cost >= 0 /\ p + (t - Cost) <= Capacity + g
          BY <4>4, <4>5
        <4>7. g = Gain(a2[j] - a2[i])
          BY <4>5, Zenon
        <4>8. p <= Capacity + g
          <5> HIDE DEF t, p, g
          <5> QED  BY <1>0, <1>3, <4>6
        <4> QED  BY <4>7, <4>8, Zenon
      <3>3. j \in 1 .. n \/ j = n + 1
        <4>1. n \in Nat /\ j \in 1 .. n + 1
          BY <1>1
        <4> HIDE DEF n
        <4> QED  BY <4>1
      <3> QED  BY <3>1, <3>2, <3>3, Zenon
    <2>7. Solvent(k)' /\ RefusedAt(k)'
      <3>1. clock - now \in Int /\ 0 <= clock - now /\ 0 \in Int
        BY <1>0, <1>1, <1>2
      <3>2. Gain(clock - now) \in Int /\ Gain(clock - now) >= 0
        BY <3>1, GainLaws
      <3>3. t - Cost + Gain(clock - now) >= 0
        BY <1>0, <1>3, <2>1, <3>2
      <3> QED  BY <1>0, <1>2, <2>1, <3>3 DEF Solvent, RefusedAt
    <2> QED  BY <1>0, <2>4, <2>5, <2>6, <2>7 DEF KeyInv
  <1> QED  BY <1>0, <1>6, <1>7

\* A reaped bucket has been idle for so long that its key has earned a full
\* burst: this is what SweepAssumption is for.
LEMMA ReapedForgiven ==
  ASSUME TypeOK, NEW j \in Keys, j \in DOMAIN bucket, NEW now \in Nat, now <= clock,
         Reaped(j, now), KeyInv(j)
  PROVE  Forgiven(j)
  <1> DEFINE a == admitted[j]  n == Len(a)  l == bucket[j].last
  <1>0. /\ Capacity \in Nat /\ MaxStall \in Nat /\ IdleLimit \in Nat /\ clock \in Nat
        /\ n \in Nat /\ DOMAIN a = 1 .. n /\ l \in Nat /\ \A i \in 1 .. n : a[i] \in Nat
    BY LimitsAssumption, KeyTypes
  <1>1. now - l > IdleLimit
    BY <1>0 DEF Reaped
  <1> SUFFICES ASSUME NEW i \in 1 .. n
               PROVE  Price(n - i + 1) <= Gain(clock - MaxStall - a[i])
    BY DEF Forgiven
  <1>2. n \in DOMAIN a /\ i \in 1 .. n /\ n > 0
    BY <1>0
  <1>3. Price(n - i + 1) <= Capacity + Gain(a[n] - a[i])
    BY <1>2 DEF KeyInv, Bounded
  <1>4. a[n] <= l + MaxStall
    BY <1>2 DEF KeyInv, Spent
  <1>5. a[n] \in Int /\ a[i] \in Int /\ n - i + 1 \in Int /\ l \in Int /\ clock \in Int
    BY <1>0, <1>2, SMTT(30)
  <1>6. Price(n - i + 1) \in Int
    BY <1>5, PriceLaws, Zenon
  <1>7. l + IdleLimit < clock
    BY <1>0, <1>1
  <1> DEFINE x == a[n]  z == a[i]  p == Price(n - i + 1)
  <1>8. /\ x \in Int /\ z \in Int /\ l \in Int /\ clock \in Int /\ p \in Int
        /\ p <= Capacity + Gain(x - z) /\ x <= l + MaxStall /\ l + IdleLimit < clock
    BY <1>3, <1>4, <1>5, <1>6, <1>7, Zenon
  <1>9. p <= Gain(clock - MaxStall - z)
    <2> HIDE DEF x, z, p, l
    <2> QED  BY <1>8, IdleEarns, Zenon
  <1> QED  BY <1>9, Zenon

\* A step of the clock only earns.
LEMMA TickKeeps ==
  ASSUME TypeOK, Tick, NEW k \in Keys, KeyInv(k)
  PROVE  KeyInv(k)'
  <1>0. /\ clock \in Nat /\ clock' = clock + 1 /\ UNCHANGED <<bucket, admitted, denied>>
        /\ MaxStall \in Nat
        /\ DOMAIN admitted[k] = 1 .. Len(admitted[k])
        /\ \A i \in 1 .. Len(admitted[k]) : admitted[k][i] \in Nat
        /\ Len(admitted[k]) \in Nat
    BY LimitsAssumption, KeyTypes DEF Tick
  <1>1. Bounded(k)'
    BY <1>0 DEF KeyInv, Bounded
  <1>2. \A i \in DOMAIN admitted'[k] : admitted'[k][i] <= clock'
    BY <1>0 DEF KeyInv
  <1>3. ASSUME k \in DOMAIN bucket
        PROVE  Spent(k)' /\ Solvent(k)' /\ RefusedAt(k)'
    <2> DEFINE l == bucket[k].last  b == bucket[k].tokens
    <2>1. l \in Int /\ b \in Int /\ clock \in Int /\ clock' \in Int /\ clock <= clock'
      BY <1>0, <1>3, KeyTypes
    <2>2. b + Gain(clock - l) >= 0 /\ l <= clock
      BY <1>3 DEF KeyInv, Solvent
    <2>3. b + Gain(clock' - l) >= 0
      <3> HIDE DEF l, b
      <3> QED  BY <2>1, <2>2, EarnsOn, Zenon
    <2>4. l <= clock'
      BY <2>1, <2>2
    <2>5. Solvent(k)'
      BY <1>0, <2>3, <2>4, Zenon DEF Solvent
    <2> QED  BY <1>0, <1>3, <2>5 DEF KeyInv, Spent, RefusedAt
  <1>4. ASSUME k \notin DOMAIN bucket
        PROVE  Forgiven(k)'
    <2> DEFINE n == Len(admitted[k])
    <2> SUFFICES ASSUME NEW i \in 1 .. n
                 PROVE  Price(n - i + 1) <= Gain(clock' - MaxStall - admitted[k][i])
      <3>1. admitted' = admitted
        BY <1>0
      <3> QED  BY <3>1, Zenon DEF Forgiven
    <2> DEFINE z == admitted[k][i]  p == Price(n - i + 1)
    <2>1. /\ n - i + 1 \in Int /\ z \in Int /\ clock \in Int /\ clock' \in Int /\ clock <= clock'
      <3>1. z \in Nat /\ n \in Nat
        BY <1>0, Zenon
      <3>2. clock \in Nat /\ clock' = clock + 1
        BY <1>0, Zenon
      <3> HIDE DEF n, z
      <3> QED  BY <3>1, <3>2, SMT
    <2>2. p \in Int
      BY <2>1, PriceLaws, Zenon
    <2>3. p <= Gain(clock - MaxStall - z)
      BY <1>4 DEF KeyInv, Forgiven
    <2>4. p <= Gain(clock' - MaxStall - z)
      <3> HIDE DEF z, p
      <3> QED  BY <2>1, <2>2, <2>3, EarnsOn, Zenon
    <2> QED  BY <2>4, Zenon
  <1> QED  BY <1>0, <1>1, <1>2, <1>3, <1>4 DEF KeyInv

\* Allow keeps what holds of the other keys: their buckets stand, or have been
\* idle for so long that they may be reaped.
LEMMA OthersKeep ==
  ASSUME TypeOK, NEW j \in Keys, NEW now \in Nat, now <= clock, clock' = clock,
         admitted'[j] = admitted[j], denied'[j] = denied[j],
         j \in DOMAIN bucket' => j \in DOMAIN bucket /\ bucket'[j] = bucket[j],
         j \in DOMAIN bucket /\ j \notin DOMAIN bucket' => Reaped(j, now),
         KeyInv(j)
  PROVE  KeyInv(j)'
  <1>1. Bounded(j)' /\ \A i \in DOMAIN admitted'[j] : admitted'[j][i] <= clock'
    BY DEF KeyInv, Bounded
  <1>2. ASSUME j \in DOMAIN bucket'
        PROVE  Spent(j)' /\ Solvent(j)' /\ RefusedAt(j)'
    BY <1>2 DEF KeyInv, Spent, Solvent, RefusedAt
  <1>3. ASSUME j \notin DOMAIN bucket'
        PROVE  Forgiven(j)'
    <2>1. CASE j \in DOMAIN bucket
      <3>1. Forgiven(j)
        BY <1>3, <2>1, ReapedForgiven
      <3> QED  BY <3>1 DEF Forgiven
    <2>2. CASE j \notin DOMAIN bucket
      BY <2>2 DEF KeyInv, Forgiven
    <2> QED  BY <2>1, <2>2
  <1> QED  BY <1>1, <1>2, <1>3 DEF KeyInv

LEMMA InitHolds == Init => Inv
  <1> SUFFICES ASSUME Init
               PROVE  Inv
    OBVIOUS
  <1>1. /\ clock = 0 /\ DOMAIN bucket = {} /\ DOMAIN caller = {}
        /\ admitted = [k \in Keys |-> <<>>] /\ denied = [k \in Keys |-> Never]
    BY DEF Init
  <1>2. TypeOK
    BY <1>1, LimitsAssumption DEF TypeOK
  <1>3. \A k \in Keys : KeyInv(k)
    BY <1>1 DEF KeyInv, Bounded, Forgiven
  <1> QED  BY <1>1, <1>2, <1>3 DEF Inv

LEMMA StampKeeps ==
  ASSUME Inv, NEW c \in Callers, NEW k \in Keys, Stamp(c, k)
  PROVE  Inv'
  <1> DEFINE w == [key |-> k, now |-> clock]
  <1>0. /\ clock \in Nat /\ MaxStall \in Nat /\ w \in Waiting
        /\ UNCHANGED <<clock, bucket, admitted, denied>>
    BY LimitsAssumption DEF Inv, TypeOK, Stamp, Waiting
  <1>1. /\ DOMAIN caller' = DOMAIN caller \cup {c} /\ caller'[c] = w
        /\ \A d \in DOMAIN caller : d # c => caller'[d] = caller[d]
    <2>1. caller' = With(caller, c, w)
      BY Zenon DEF Stamp
    <2> HIDE DEF w
    <2> QED  BY <2>1, Zenon DEF With
  <1>2. /\ DOMAIN caller \subseteq Callers
        /\ \A d \in DOMAIN caller : caller[d] \in Waiting /\ Fresh(d)
    BY DEF Inv, TypeOK
  <1>3. \A d \in DOMAIN caller' : d \in Callers /\ caller'[d] \in Waiting
    <2> HIDE DEF w
    <2> QED  BY <1>0, <1>1, <1>2
  <1>4. TypeOK'
    BY <1>0, <1>3 DEF Inv, TypeOK
  <1>5. ASSUME NEW d \in DOMAIN caller'
        PROVE  Fresh(d)'
    <2>1. CASE d = c
      BY <1>0, <1>1, <2>1 DEF Fresh
    <2>2. CASE d # c
      BY <1>0, <1>1, <1>2, <2>2 DEF Fresh
    <2> QED  BY <2>1, <2>2
  <1>6. \A j \in Keys : KeyInv(j)'
    BY <1>0 DEF Inv, KeyInv, Bounded, Spent, Solvent, RefusedAt, Forgiven
  <1> QED  BY <1>4, <1>5, <1>6 DEF Inv

LEMMA AllowKeeps ==
  ASSUME Inv, NEW c \in DOMAIN caller, Allow(c)
  PROVE  Inv'
  <1>0. TypeOK /\ Fresh(c)
    BY DEF Inv
  <1>1. PICK k, now : k = caller[c].key /\ now = caller[c].now
    OBVIOUS
  <1>a. Allowed(k, now)
    BY <1>0, <1>1, AllowFacts, Zenon
  <1>2. /\ TypeOK' /\ clock' = clock
        /\ DOMAIN caller' \subseteq DOMAIN caller
        /\ \A d \in DOMAIN caller' : caller'[d] = caller[d]
        /\ k \in Keys /\ now \in Nat
        /\ k \in DOMAIN bucket' /\ bucket'[k].last = now
        /\ Admits(k, now) \/ Refuses(k, now)
    BY <1>a DEF Allowed
  <1>3. \A j \in Keys \ {k} :
          /\ admitted'[j] = admitted[j] /\ denied'[j] = denied[j]
          /\ j \in DOMAIN bucket' => j \in DOMAIN bucket /\ bucket'[j] = bucket[j]
          /\ j \in DOMAIN bucket /\ j \notin DOMAIN bucket' => Reaped(j, now)
    BY <1>a DEF Allowed
  <1>4. now <= clock /\ clock - now <= MaxStall
    BY <1>0, <1>1 DEF Fresh
  <1>5. \A d \in DOMAIN caller' : Fresh(d)'
    BY <1>2 DEF Inv, Fresh
  <1>6. ASSUME NEW j \in Keys
        PROVE  KeyInv(j)'
    <2>0. KeyInv(j)
      BY DEF Inv
    <2>1. CASE j = k
      BY <1>0, <1>2, <1>4, <2>0, <2>1, AskedKeeps, Zenon
    <2>2. CASE j # k
      BY <1>0, <1>2, <1>3, <1>4, <2>0, <2>2, OthersKeep, Zenon
    <2> QED  BY <2>1, <2>2
  <1> QED  BY <1>2, <1>5, <1>6 DEF Inv

LEMMA StepKeeps == Inv /\ [Next]_vars => Inv'
  <1> SUFFICES ASSUME Inv, [Next]_vars
               PROVE  Inv'
    OBVIOUS
  <1>1. CASE Tick
    <2>1. \A k \in Keys : KeyInv(k)'
      BY <1>1, TickKeeps DEF Inv
    <2>2. /\ clock \in Nat /\ clock' = clock + 1 /\ clock < MaxClock
          /\ UNCHANGED <<bucket, caller, admitted, denied>> /\ MaxClock \in Nat
          /\ \A c \in DOMAIN caller : clock - caller[c].now < MaxStall
      BY <1>1, LimitsAssumption DEF Inv, TypeOK, Tick
    <2>3. TypeOK'
      BY <2>2 DEF Inv, TypeOK
    <2>4. ASSUME NEW c \in DOMAIN caller
          PROVE  Fresh(c)'
      <3>1. Fresh(c) /\ caller[c].now \in Nat /\ MaxStall \in Nat
        BY LimitsAssumption DEF Inv, TypeOK, Waiting
      <3> QED  BY <2>2, <3>1 DEF Fresh
    <2> QED  BY <2>1, <2>2, <2>3, <2>4 DEF Inv
  <1>2. CASE UNCHANGED vars
    <2>1. UNCHANGED <<clock, bucket, caller, admitted, denied>>
      BY <1>2 DEF vars
    <2>2. TypeOK'
      BY <2>1 DEF Inv, TypeOK
    <2>3. \A c \in DOMAIN caller' : Fresh(c)'
      BY <2>1 DEF Inv, Fresh
    <2>4. \A k \in Keys : KeyInv(k)'
      BY <2>1 DEF Inv, KeyInv, Bounded, Spent, Solvent, RefusedAt, Forgiven
    <2> QED  BY <2>2, <2>3, <2>4 DEF Inv
  <1> QED  BY <1>1, <1>2, StampKeeps, AllowKeeps DEF Next

LEMMA Invariance == Spec => []Inv
  BY InitHolds, StepKeeps, PTL DEF Spec

----------------------------------------------------------------------------
\* The theorems.

\* Buckets, callers and the history keep their types.
THEOREM TypeCorrect == Spec => []TypeOK
  <1>1. Inv => TypeOK
    BY DEF Inv
  <1> QED  BY <1>1, Invariance, PTL

\* The rate limit holds over every stretch of a key's admissions, for any
\* limits and any order of stamps: buckets are capped, pay for every admission,
\* and are reaped only when a full burst has been earned again.
THEOREM RateBoundCorrect == Spec => []RateBound
  <1>1. Inv => RateBound
    <2> SUFFICES ASSUME Inv, NEW k \in Keys
                 PROVE  \A j \in DOMAIN admitted[k] : \A i \in 1 .. j :
                          (j - i + 1) * Cost <= Capacity + Refill * (admitted[k][j] - admitted[k][i])
      BY DEF RateBound
    <2>1. Bounded(k)
      BY DEF Inv, KeyInv
    <2> QED  BY <2>1, Zenon DEF Bounded, Price, Gain
  <1> QED  BY <1>1, Invariance, PTL

\* A bucket below zero is made up for by time alone: a stale stamp takes no
\* more than it will give back.
THEOREM NeverInDebtCorrect == Spec => []NeverInDebt
  <1>1. Inv => NeverInDebt
    <2> SUFFICES ASSUME Inv, NEW k \in DOMAIN bucket
                 PROVE  /\ bucket[k].last <= clock
                        /\ bucket[k].tokens + Refill * (clock - bucket[k].last) >= 0
      BY DEF NeverInDebt
    <2>1. k \in Keys
      BY DEF Inv, TypeOK
    <2>2. Solvent(k)
      BY <2>1 DEF Inv, KeyInv
    <2> QED  BY <2>2, Zenon DEF Solvent, Gain
  <1> QED  BY <1>1, Invariance, PTL

\* "Retry-After: 1" is honest: after enough time for one request the key that
\* was refused is let in, reaped buckets and stale stamps included.
THEOREM RetryAfterHonestCorrect == Spec => RetryAfterHonest
  <1> DEFINE Honest(c) ==
               LET k == caller[c].key IN
               (/\ c \notin DOMAIN caller'
                /\ denied[k] # Never
                /\ Refill * (caller[c].now - denied[k]) >= Cost)
                 => Cost > Capacity \/ admitted'[k] # admitted[k]
  <1>1. Inv /\ [Next]_vars => [\A c \in DOMAIN caller : Honest(c)]_vars
    <2> SUFFICES ASSUME Inv, Next, NEW c \in DOMAIN caller, NEW k, NEW now,
                        k = caller[c].key, now = caller[c].now,
                        c \notin DOMAIN caller', denied[k] # Never, Gain(now - denied[k]) >= Cost,
                        ~(Cost > Capacity)
                 PROVE  admitted'[k] # admitted[k]
      BY Zenon DEF Gain
    <2>0. Cost \in Nat /\ Capacity \in Nat
      BY LimitsAssumption
    <2>1. Allow(c)
      <3>1. ASSUME NEW d \in Callers, NEW j \in Keys, Stamp(d, j)
            PROVE  c \in DOMAIN caller'
        BY <3>1, Zenon DEF Stamp, With
      <3>2. ASSUME NEW d \in DOMAIN caller, Allow(d), d # c
            PROVE  c \in DOMAIN caller'
        BY <3>2, Zenon DEF Allow, Without
      <3>3. CASE Tick
        BY <3>3 DEF Tick
      <3> QED  BY <3>1, <3>2, <3>3 DEF Next
    <2>2. TypeOK
      BY DEF Inv
    <2>3. k \in Keys /\ now \in Nat /\ (Admits(k, now) \/ Refuses(k, now))
      BY <2>1, <2>2, AllowFacts, Zenon DEF Allowed
    <2>4. Tokens(k, now) >= Cost
      <3> DEFINE t == Tokens(k, now)  d == denied[k]
                 l == bucket[k].last  b == bucket[k].tokens
      <3>1. t \in Int /\ (t = Capacity \/ (k \in DOMAIN bucket /\ t = b + Gain(now - l)))
        BY <2>2, <2>3, TokensFacts, Zenon
      <3>2. CASE t = Capacity
        BY <2>0, <3>1, <3>2
      <3>3. CASE k \in DOMAIN bucket /\ t = b + Gain(now - l)
        <4>1. d \in Int /\ l \in Int /\ b \in Int /\ now \in Int
          <5>1. d \in Nat /\ l \in Nat /\ b \in Int
            BY <2>2, <2>3, <3>3, KeyTypes
          <5> QED  BY <2>3, <5>1
        <4>2. b + Gain(d - l) >= 0
          BY <2>3, <3>3, Zenon DEF Inv, KeyInv, RefusedAt
        <4>3. /\ Gain(now - l) = Gain(now - d) + Gain(d - l)
              /\ Gain(now - d) \in Int /\ Gain(d - l) \in Int
          <5>1. \A x, y, z \in Int : /\ Gain(x - z) = Gain(x - y) + Gain(y - z)
                                    /\ Gain(x - y) \in Int /\ Gain(y - z) \in Int
            BY GainSplit
          <5> HIDE DEF d, l
          <5> QED  BY <4>1, <5>1
        <4>4. Gain(now - d) >= Cost
          BY Zenon
        <4> DEFINE e == Gain(now - d)  f == Gain(d - l)
        <4>5. t = b + (e + f) /\ e \in Int /\ f \in Int /\ b \in Int /\ e >= Cost /\ b + f >= 0
          BY <3>3, <4>1, <4>2, <4>3, <4>4, Zenon
        <4>6. t >= Cost
          <5> HIDE DEF t, b, e, f
          <5> QED  BY <2>0, <4>5
        <4> QED  BY <4>6, Zenon
      <3> QED  BY <3>1, <3>2, <3>3, Zenon
    <2>5. Admits(k, now)
      BY <2>0, <2>2, <2>3, <2>4, TokensFacts DEF Refuses
    <2>6. admitted[k] \in Seq(Nat) /\ now \in Nat
      BY <2>2, <2>3, KeyTypes
    <2> QED  BY <2>5, <2>6 DEF Admits
  <1> QED  BY <1>1, Invariance, PTL DEF Spec, RetryAfterHonest
=============================================================================
