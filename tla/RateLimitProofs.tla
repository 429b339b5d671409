--------------------------- MODULE RateLimitProofs --------------------------
(***************************************************************************)
(* Proofs for RateLimit, for every set of keys, period and burst.          *)
(***************************************************************************)
EXTENDS RateLimit, TLAPS

\* A key without a bucket has been granted nothing.
FreshInv == \A k \in Keys \ buckets : granted[k] = 0

\* Clocks do not run ahead of each other.
TimeInv ==
    \A k \in Keys :
        /\ lastTime[k] <= now /\ since[k] <= now
        /\ base[k] <= granted[k]

\* What is in the bucket and what was granted in the window was in the
\* bucket at the beginning of the window or has flown in since.
WindowOf(k) ==
    IF lastTime[k] < since[k]
    THEN granted[k] = base[k]
    ELSE tokens[k] + (granted[k] - base[k]) * Per
            <= Burst * Per + (lastTime[k] - since[k]) * Burst
WindowInv == \A k \in buckets : WindowOf(k)

\* A bucket is not overdrawn, and holds no less than the documented one.
FillOf(k) == tokens[k] >= 0 /\ tokens[k] >= owed[k]
FillInv == \A k \in buckets : FillOf(k)

Inv == TypeOK /\ FreshInv /\ TimeInv /\ (Burst > 0 => WindowInv /\ FillInv)

\* Distributivity, which the solver is slow to find inside a larger goal.
LEMMA Distribute ==
    \A a, b, c \in Int : (a + b) * c = a * c + b * c
  OBVIOUS

\* A product of naturals is a natural.
LEMMA Products ==
    \A a, b \in Nat : a * b \in Nat
  OBVIOUS

\* What the refill leaves in a bucket: no more than the burst and than what
\* flowed in, no less than before and than in the documented bucket.
LEMMA Refill ==
  ASSUME Inv, Burst > 0, NEW k \in buckets
  PROVE  /\ refilled(k) \in Int
         /\ refilled(k) <= Burst * Per
         /\ refilled(k) <= tokens[k] + (now - lastTime[k]) * Burst
         /\ refilled(k) >= 0
         /\ refilled(k) >= due(k)
<1> DEFINE more == now - lastTime[k]
           in == more * Burst
<1>1. /\ k \in Keys /\ now \in Nat /\ tokens[k] \in Int /\ lastTime[k] \in Nat
      /\ owed[k] \in Int /\ lastTime[k] <= now /\ Burst \in Nat /\ Per \in Nat
  BY RateLimitAssumption DEF Inv, TypeOK, TimeInv
<1>2. more \in Nat /\ in \in Nat /\ Burst * Per \in Nat
  BY <1>1, Products
<1>3. tokens[k] >= 0 /\ tokens[k] >= owed[k]
  BY DEF Inv, FillInv, FillOf
<1>4. in >= more
  <2>1. Burst - 1 \in Nat /\ (Burst - 1) * more \in Nat
    BY <1>1, <1>2, Products
  <2>2. ((Burst - 1) + 1) * more = (Burst - 1) * more + 1 * more
    BY <1>1, <1>2, Distribute
  <2>3. (Burst - 1) + 1 = Burst /\ Burst * more = in /\ 1 * more = more
    BY <1>1, <1>2
  <2> QED BY <1>2, <2>1, <2>2, <2>3
<1>5. refilled(k) = IF tokens[k] + in < Burst * Per THEN tokens[k] + in ELSE Burst * Per
  BY DEF refilled
<1>6. due(k) = IF owed[k] + more < Burst * Per THEN owed[k] + more ELSE Burst * Per
  BY DEF due
<1> HIDE DEF in, more
<1>7. /\ refilled(k) \in Int
      /\ refilled(k) <= Burst * Per
      /\ refilled(k) <= tokens[k] + in
      /\ refilled(k) >= 0
      /\ refilled(k) >= due(k)
  BY <1>1, <1>2, <1>3, <1>4, <1>5, <1>6
<1> QED BY <1>7 DEF in, more

\* What the bucket holds after a refill and what the window has been granted.
LEMMA Earned ==
  ASSUME Inv, Burst > 0, NEW k \in buckets
  PROVE  refilled(k) + (granted[k] - base[k]) * Per <= Burst * Per + (now - since[k]) * Burst
<1> DEFINE g == (granted[k] - base[k]) * Per
<1>1. /\ since[k] <= now /\ since[k] \in Nat /\ lastTime[k] \in Nat /\ now \in Nat
      /\ granted[k] \in Nat /\ base[k] \in Nat /\ Burst \in Nat /\ Per \in Nat
      /\ tokens[k] \in Int
  BY RateLimitAssumption DEF Inv, TypeOK, TimeInv
<1>2. /\ refilled(k) \in Int /\ refilled(k) <= Burst * Per
      /\ refilled(k) <= tokens[k] + (now - lastTime[k]) * Burst
  BY Refill
<1>3. /\ g \in Int /\ (lastTime[k] - since[k]) * Burst \in Int /\ Burst * Per \in Int
      /\ (now - lastTime[k]) * Burst \in Int /\ (now - since[k]) * Burst \in Nat
  BY <1>1, Products
<1>4. CASE lastTime[k] < since[k]
  <2>1. granted[k] - base[k] = 0
    BY <1>1, <1>4 DEF Inv, WindowInv, WindowOf
  <2>2. g = 0
    BY <2>1, <1>1
  <2> HIDE DEF g
  <2>3. refilled(k) + g <= Burst * Per + (now - since[k]) * Burst
    BY <1>2, <1>3, <2>2
  <2> QED BY <2>3 DEF g
<1>5. CASE ~(lastTime[k] < since[k])
  <2>1. tokens[k] + g <= Burst * Per + (lastTime[k] - since[k]) * Burst
    BY <1>5 DEF Inv, WindowInv, WindowOf
  <2>2. (lastTime[k] - since[k]) * Burst + (now - lastTime[k]) * Burst = (now - since[k]) * Burst
    <3>1. (lastTime[k] - since[k]) + (now - lastTime[k]) = now - since[k]
      BY <1>1
    <3> QED BY <3>1, <1>1, Distribute
  <2> HIDE DEF g
  <2>3. refilled(k) + g <= Burst * Per + (now - since[k]) * Burst
    BY <1>1, <1>2, <1>3, <2>1, <2>2
  <2> QED BY <2>3 DEF g
<1> QED BY <1>4, <1>5

\* A step that leaves bucket j alone keeps what is known of it.
LEMMA Untouched ==
  ASSUME Inv, Burst > 0, NEW j \in buckets,
         tokens'[j] = tokens[j], lastTime'[j] = lastTime[j], granted'[j] = granted[j],
         owed'[j] = owed[j], since'[j] = since[j], base'[j] = base[j]
  PROVE  WindowOf(j)' /\ FillOf(j)'
  BY DEF Inv, WindowInv, WindowOf, FillInv, FillOf

\* Every step of the bucket and of its observer keeps the invariant.
LEMMA StepKeeps == ASSUME Inv, [Next]_vars PROVE Inv'
<1> USE RateLimitAssumption
<1>t. /\ now \in Nat /\ buckets \subseteq Keys /\ tokens \in [Keys -> Int]
      /\ lastTime \in [Keys -> Nat] /\ granted \in [Keys -> Nat]
      /\ owed \in [Keys -> Int] /\ since \in [Keys -> Nat] /\ base \in [Keys -> Nat]
      /\ \A k \in Keys : tokens[k] <= Burst * Per
  BY DEF Inv, TypeOK
<1>p. Burst * Per \in Nat /\ (Burst - 1) * Per \in Int /\ (Burst - 1) * Per = Burst * Per - Per
  <2>1. ((Burst - 1) + 1) * Per = (Burst - 1) * Per + 1 * Per
    BY Distribute
  <2> QED BY <2>1, Products
<1>d. ASSUME NEW k \in Keys PROVE due(k) \in Int /\ due(k) <= Burst * Per
  BY <1>t, <1>p DEF due
<1>1. CASE Tick
  <2>1. now' = now + 1 /\ UNCHANGED <<buckets, tokens, lastTime, granted, owed, since, base>>
    BY <1>1 DEF Tick, bucketVars
  <2>2. TypeOK' /\ FreshInv' /\ TimeInv'
    BY <2>1, <1>t DEF Inv, TypeOK, FreshInv, TimeInv
  <2>3. Burst > 0 => WindowInv' /\ FillInv'
    BY <2>1, Untouched DEF WindowInv, FillInv
  <2> QED BY <2>2, <2>3 DEF Inv
<1>2. ASSUME NEW k \in Keys, Observe(k) PROVE Inv'
  <2>1. /\ since' = [since EXCEPT ![k] = now] /\ base' = [base EXCEPT ![k] = granted[k]]
        /\ UNCHANGED <<now, buckets, tokens, lastTime, granted, owed>>
    BY <1>2 DEF Observe, bucketVars
  <2>2. TypeOK' /\ FreshInv' /\ TimeInv'
    BY <2>1, <1>t DEF Inv, TypeOK, FreshInv, TimeInv
  <2>3. ASSUME Burst > 0, NEW j \in buckets PROVE WindowOf(j)' /\ FillOf(j)'
    <3>1. CASE j = k
      <4>1. /\ since'[k] = now /\ base'[k] = granted'[k] /\ lastTime'[k] <= now
            /\ granted'[k] - granted'[k] = 0
        BY <2>1, <1>t DEF Inv, TimeInv
      <4>2. 0 * Per = 0 /\ 0 * Burst = 0
        OBVIOUS
      <4>3. lastTime'[k] = now => lastTime'[k] - now = 0
        BY <1>t
      <4> QED BY <3>1, <4>1, <4>2, <4>3, <2>1, <2>3, <1>t, <1>p
              DEF Inv, WindowOf, FillInv, FillOf
    <3>2. CASE j # k
      BY <3>2, <2>1, <2>3, <1>t, Untouched
    <3> QED BY <3>1, <3>2
  <2> QED BY <2>1, <2>2, <2>3 DEF Inv, WindowInv, FillInv
<1>3. ASSUME NEW k \in Keys, allowFirst(k) PROVE Inv'
  <2>1. /\ k \notin buckets /\ buckets' = buckets \cup {k}
        /\ tokens' = [tokens EXCEPT ![k] = (Burst - 1) * Per]
        /\ lastTime' = [lastTime EXCEPT ![k] = now]
        /\ granted' = [granted EXCEPT ![k] = granted[k] + 1]
        /\ owed' = [owed EXCEPT ![k] = due(k) - Per]
        /\ UNCHANGED <<now, since, base>>
    BY <1>3 DEF allowFirst, grants
  <2>2. granted[k] = 0 /\ base[k] = 0
    BY <2>1, <1>t DEF Inv, FreshInv, TimeInv
  <2>3. TypeOK' /\ FreshInv' /\ TimeInv'
    BY <2>1, <2>2, <1>t, <1>p, <1>d DEF Inv, TypeOK, FreshInv, TimeInv
  <2>4. ASSUME Burst > 0, NEW j \in buckets' PROVE WindowOf(j)' /\ FillOf(j)'
    <3>1. CASE j = k
      <4>1. /\ tokens'[k] = Burst * Per - Per /\ lastTime'[k] = now /\ owed'[k] = due(k) - Per
            /\ granted'[k] = 1 /\ since'[k] <= now /\ since'[k] \in Nat /\ base'[k] = 0
        BY <2>1, <2>2, <1>t, <1>p DEF Inv, TimeInv
      <4>2. (Burst - 1) * Per \in Nat
        BY <2>4, Products
      <4>3. (1 - 0) * Per = Per /\ (now - since'[k]) * Burst \in Nat
        BY <1>t, <4>1, Products
      <4>4. WindowOf(k)'
        <5>1. ~(lastTime'[k] < since'[k]) /\ granted'[k] - base'[k] = 1 - 0
          BY <4>1, <1>t
        <5>2. tokens'[k] + (1 - 0) * Per <= Burst * Per + (now - since'[k]) * Burst
          BY <4>1, <4>3, <1>p
        <5> QED BY <5>1, <5>2, <4>1 DEF WindowOf
      <4>5. FillOf(k)'
        BY <4>1, <4>2, <1>p, <1>d DEF FillOf
      <4> QED BY <3>1, <4>4, <4>5
    <3>2. CASE j # k
      BY <3>2, <2>1, <2>4, <1>t, Untouched
    <3> QED BY <3>1, <3>2
  <2> QED BY <2>3, <2>4 DEF Inv, WindowInv, FillInv
<1>4. ASSUME NEW k \in Keys, allowRefuses(k) PROVE Inv'
  <2>1. /\ k \in buckets /\ refilled(k) < Per
        /\ tokens' = [tokens EXCEPT ![k] = refilled(k)]
        /\ lastTime' = [lastTime EXCEPT ![k] = now]
        /\ owed' = [owed EXCEPT ![k] = due(k)]
        /\ UNCHANGED <<now, buckets, granted, since, base>>
    BY <1>4 DEF allowRefuses, refuses
  <2>2. refilled(k) \in Int /\ refilled(k) <= Burst * Per
    BY <1>t, <1>p DEF refilled
  <2>3. TypeOK' /\ FreshInv' /\ TimeInv'
    BY <2>1, <2>2, <1>t, <1>d DEF Inv, TypeOK, FreshInv, TimeInv
  <2>4. ASSUME Burst > 0, NEW j \in buckets PROVE WindowOf(j)' /\ FillOf(j)'
    <3>1. CASE j = k
      <4>1. /\ tokens'[k] = refilled(k) /\ lastTime'[k] = now
            /\ owed'[k] = due(k) /\ UNCHANGED <<granted, since, base>>
        BY <2>1, <1>t
      <4>2. WindowOf(k)'
        <5>1. ~(now < since[k])
          BY <1>t DEF Inv, TimeInv
        <5> QED BY <5>1, <4>1, <2>1, <2>4, Earned DEF WindowOf
      <4>3. FillOf(k)'
        BY <4>1, <2>1, <2>4, Refill DEF FillOf
      <4> QED BY <3>1, <4>2, <4>3
    <3>2. CASE j # k
      BY <3>2, <2>1, <2>4, <1>t, Untouched
    <3> QED BY <3>1, <3>2
  <2> QED BY <2>1, <2>3, <2>4 DEF Inv, WindowInv, FillInv
<1>5. ASSUME NEW k \in Keys, allowTakes(k) PROVE Inv'
  <2>1. /\ k \in buckets /\ refilled(k) >= Per
        /\ tokens' = [tokens EXCEPT ![k] = refilled(k) - Per]
        /\ lastTime' = [lastTime EXCEPT ![k] = now]
        /\ granted' = [granted EXCEPT ![k] = granted[k] + 1]
        /\ owed' = [owed EXCEPT ![k] = due(k) - Per]
        /\ UNCHANGED <<now, buckets, since, base>>
    BY <1>5 DEF allowTakes, grants
  <2>2. refilled(k) \in Int /\ refilled(k) <= Burst * Per
    BY <1>t, <1>p DEF refilled
  <2>3. TypeOK' /\ FreshInv' /\ TimeInv'
    BY <2>1, <2>2, <1>t, <1>d DEF Inv, TypeOK, FreshInv, TimeInv
  <2>4. ASSUME Burst > 0, NEW j \in buckets PROVE WindowOf(j)' /\ FillOf(j)'
    <3>1. CASE j = k
      <4>1. /\ tokens'[k] = refilled(k) - Per /\ lastTime'[k] = now /\ owed'[k] = due(k) - Per
            /\ granted'[k] = granted[k] + 1 /\ UNCHANGED <<since, base>>
        BY <2>1, <1>t
      <4>2. WindowOf(k)'
        <5>1. ~(now < since[k])
          BY <1>t DEF Inv, TimeInv
        <5>2. (granted'[k] - base[k]) * Per = (granted[k] - base[k]) * Per + Per
          <6>1. granted'[k] - base[k] = (granted[k] - base[k]) + 1
            BY <4>1, <1>t
          <6>2. ((granted[k] - base[k]) + 1) * Per = (granted[k] - base[k]) * Per + 1 * Per
            BY <1>t, Distribute
          <6> QED BY <6>1, <6>2
        <5>3. /\ (granted[k] - base[k]) * Per \in Int /\ (now - since[k]) * Burst \in Int
          BY <1>t
        <5>4. tokens'[k] + (granted'[k] - base[k]) * Per <= Burst * Per + (now - since[k]) * Burst
          BY <5>2, <5>3, <4>1, <2>1, <2>2, <2>4, <1>p, Earned
        <5> QED BY <5>1, <5>4, <4>1 DEF WindowOf
      <4>3. FillOf(k)'
        <5>1. refilled(k) >= due(k)
          BY <2>1, <2>4, Refill
        <5> QED BY <5>1, <4>1, <2>1, <2>2, <1>d, RateLimitAssumption DEF FillOf
      <4> QED BY <3>1, <4>2, <4>3
    <3>2. CASE j # k
      BY <3>2, <2>1, <2>4, <1>t, Untouched
    <3> QED BY <3>1, <3>2
  <2> QED BY <2>1, <2>3, <2>4 DEF Inv, WindowInv, FillInv
<1>6. CASE UNCHANGED vars
  <2>1. UNCHANGED <<now, buckets, tokens, lastTime, granted, owed, since, base>>
    BY <1>6 DEF vars, bucketVars
  <2>2. Burst > 0 => WindowInv' /\ FillInv'
    BY <2>1, Untouched DEF WindowInv, FillInv
  <2> QED BY <2>1, <2>2 DEF Inv, TypeOK, FreshInv, TimeInv
<1> QED BY <1>1, <1>2, <1>3, <1>4, <1>5, <1>6 DEF Next, allow

\* The bookkeeping behind the limit, as an invariant of the specification.
THEOREM InductiveInvariant == Spec => []Inv
<1>1. Init => Inv
  BY RateLimitAssumption, Products DEF Init, Inv, TypeOK, FreshInv, TimeInv, WindowInv, FillInv
<1>2. Inv /\ [Next]_vars => Inv'
  BY StepKeeps
<1> QED BY <1>1, <1>2, PTL DEF Spec

\* Buckets are well-formed and never hold more than the burst.
THEOREM TypeCorrect == Spec => []TypeOK
<1>1. Inv => TypeOK
  BY DEF Inv
<1> QED BY <1>1, InductiveInvariant, PTL

\* What every window is granted, by the refill of allow().
Rated ==
    Burst > 0 => \A k \in Keys :
        (granted[k] - base[k]) * Per <= Burst * Per + (now - since[k]) * Burst

\* The bookkeeping bounds every window.
LEMMA WindowsAreRated == Inv => Rated
<1> SUFFICES ASSUME Inv, Burst > 0, NEW k \in Keys
             PROVE  (granted[k] - base[k]) * Per <= Burst * Per + (now - since[k]) * Burst
  BY DEF Rated
<1>1. /\ granted[k] \in Nat /\ base[k] \in Nat /\ since[k] \in Nat /\ now \in Nat
      /\ since[k] <= now /\ base[k] <= granted[k] /\ Burst \in Nat /\ Per \in Nat
  BY RateLimitAssumption DEF Inv, TypeOK, TimeInv
<1>2. /\ (granted[k] - base[k]) * Per \in Int /\ Burst * Per \in Nat
      /\ (now - since[k]) * Burst \in Nat
  BY <1>1, Products
<1>3. CASE k \in buckets
  BY <1>2, <1>3, Refill, Earned
<1>4. CASE k \notin buckets
  <2>1. granted[k] - base[k] = 0
    BY <1>1, <1>4 DEF Inv, FreshInv
  <2>2. 0 * Per = 0
    BY <1>1
  <2> QED BY <2>1, <2>2, <1>2
<1> QED BY <1>3, <1>4

\* At one moment allow() grants a key at most the burst, for every burst and
\* period and whatever happened before (policy.go:58).
THEOREM BurstAtOnceHolds == Spec => []BurstAtOnce
<1>1. Inv => BurstAtOnce
  <2> SUFFICES ASSUME Inv, Burst > 0, NEW k \in Keys, now = since[k]
               PROVE  granted[k] - base[k] <= Burst
    BY DEF BurstAtOnce
  <2> DEFINE g == granted[k] - base[k]
  <2>1. g \in Int /\ now \in Nat /\ Burst \in Nat /\ Per \in Nat /\ Per > 0
    BY RateLimitAssumption DEF Inv, TypeOK
  <2>2. g * Per <= Burst * Per + (now - now) * Burst
    BY WindowsAreRated DEF Rated
  <2>3. (now - now) * Burst = 0
    BY <2>1
  <2> HIDE DEF g
  <2>4. ~(g > Burst)
    <3> SUFFICES ASSUME g > Burst PROVE FALSE
      OBVIOUS
    <3>1. g - Burst - 1 \in Nat /\ (g - Burst - 1) * Per \in Nat
      BY <2>1, Products
    <3>2. ((g - Burst - 1) + (Burst + 1)) * Per = (g - Burst - 1) * Per + (Burst + 1) * Per
      BY <2>1, Distribute
    <3>3. (Burst + 1) * Per = Burst * Per + 1 * Per /\ 1 * Per = Per
      BY <2>1, Distribute
    <3>4. (g - Burst - 1) + (Burst + 1) = g /\ Burst * Per \in Int
      BY <2>1
    <3> DEFINE a == (g - Burst - 1) * Per
               b == Burst * Per
    <3>5. g * Per = a + (b + Per) /\ g * Per <= b + 0
      BY <2>2, <2>3, <3>2, <3>3, <3>4
    <3>6. a \in Nat /\ b \in Int
      BY <3>1, <3>4
    <3> HIDE DEF a, b
    <3> QED BY <2>1, <3>5, <3>6
  <2> QED BY <2>1, <2>4 DEF g
<1> QED BY <1>1, InductiveInvariant, PTL

\* allow() refuses a call only if a bucket that earned one token every per would
\* be short of one as well, so refused calls cost nothing (policy.go:57-59).
THEOREM RefusalsAreDueHolds == Spec => RefusalsAreDue
<1>1. ASSUME Inv, Burst > 0, NEW k \in Keys, allowRefuses(k)
      PROVE  due(k) < Per
  <2>1. k \in buckets /\ refilled(k) < Per
    BY <1>1 DEF allowRefuses
  <2>2. due(k) \in Int
    BY <1>1, RateLimitAssumption, Products DEF Inv, TypeOK, due
  <2> QED BY <2>1, <2>2, <1>1, Refill, RateLimitAssumption
<1>2. Inv => [Burst > 0 => \A k \in Keys : allowRefuses(k) => due(k) < Per]_vars
  BY <1>1
<1> QED BY <1>2, InductiveInvariant, PTL DEF RefusalsAreDue

\* The documented rate of policy.go:58-59 is kept when the burst is one, where
\* the refill of allow() is the documented one; for a larger burst it is not.
THEOREM BurstOfOneKeepsRate == ASSUME Burst = 1 PROVE Spec => []OneTokenPerPer
<1>1. Inv => OneTokenPerPer
  <2> SUFFICES ASSUME Inv, NEW k \in Keys
               PROVE  (granted[k] - base[k]) * Per <= Burst * Per + (now - since[k])
    BY DEF OneTokenPerPer
  <2>1. (granted[k] - base[k]) * Per <= Burst * Per + (now - since[k]) * Burst
    BY WindowsAreRated DEF Rated
  <2>2. (now - since[k]) * Burst = now - since[k]
    BY DEF Inv, TypeOK
  <2> QED BY <2>1, <2>2
<1> QED BY <1>1, InductiveInvariant, PTL
=============================================================================
