----------------------------- MODULE RateLimit ------------------------------
(***************************************************************************)
(* The token bucket behind policy.RateLimit: one bucket per server/tool    *)
(* key, created on first use and refilled from the time since its last     *)
(* use.  The code counts tokens and the refill elapsed / per * burst in    *)
(* floating point; here tokens are counted in units of 1/Per, which makes  *)
(* the same refill the integer elapsed * Burst.                            *)
(***************************************************************************)
EXTENDS Integers

CONSTANTS Keys,      \* server/tool keys
          Per,       \* the per argument, in clock units
          Burst,     \* the burst argument
          MaxTime    \* bound on the clock

ASSUME RateLimitAssumption ==
    /\ Per \in Nat \ {0}
    /\ Burst \in Nat
    /\ MaxTime \in Nat

VARIABLES
    now,        \* time.Now(), monotonic
    buckets,    \* keys that have a bucket
    tokens, lastTime,
    \* history: calls let through; what they leave in a bucket that earns one
    \* token every Per, as documented; and the window an observer looks at: its
    \* beginning, and granted at that time
    granted, owed, since, base

bucketVars == <<buckets, tokens, lastTime>>
vars == <<now, bucketVars, granted, owed, since, base>>

Init ==
    /\ now = 0
    /\ buckets = {}
    /\ tokens = [k \in Keys |-> 0]
    /\ lastTime = [k \in Keys |-> 0]
    /\ granted = [k \in Keys |-> 0]
    /\ owed = [k \in Keys |-> Burst * Per]
    /\ since = [k \in Keys |-> 0]
    /\ base = [k \in Keys |-> 0]

Tick ==
    /\ now < MaxTime
    /\ now' = now + 1
    /\ UNCHANGED <<bucketVars, granted, owed, since, base>>

\* An observer starts a new window on key k; the code does not notice.
Observe(k) ==
    /\ since' = [since EXCEPT ![k] = now]
    /\ base' = [base EXCEPT ![k] = granted[k]]
    /\ UNCHANGED <<now, bucketVars, granted, owed>>

\* The documented bucket at this moment.
due(k) ==
    LET t == owed[k] + (now - lastTime[k])
    IN  IF t < Burst * Per THEN t ELSE Burst * Per

grants(k) ==
    /\ granted' = [granted EXCEPT ![k] = @ + 1]
    /\ owed' = [owed EXCEPT ![k] = due(k) - Per]

refuses(k) ==
    /\ owed' = [owed EXCEPT ![k] = due(k)]
    /\ UNCHANGED granted

\* Variant: a new bucket does not pay for the call that creates it.
allowFirstFree(k) ==
    /\ k \notin buckets
    /\ buckets' = buckets \cup {k}
    /\ tokens' = [tokens EXCEPT ![k] = Burst * Per]
    /\ lastTime' = [lastTime EXCEPT ![k] = now]
    /\ grants(k)
    /\ UNCHANGED <<now, since, base>>

\* The first call of a key makes its bucket and is let through.
allowFirst(k) ==
    /\ k \notin buckets
    /\ buckets' = buckets \cup {k}
    /\ tokens' = [tokens EXCEPT ![k] = (Burst - 1) * Per]
    /\ lastTime' = [lastTime EXCEPT ![k] = now]
    /\ grants(k)
    /\ UNCHANGED <<now, since, base>>

\* The bucket after the refill.
refilled(k) ==
    LET t == tokens[k] + (now - lastTime[k]) * Burst
    IN  IF t < Burst * Per THEN t ELSE Burst * Per

\* Variant: a refused call takes the time of its refill but not the refill.
allowRefusesForfeiting(k) ==
    /\ k \in buckets
    /\ refilled(k) < Per
    /\ lastTime' = [lastTime EXCEPT ![k] = now]
    /\ refuses(k)
    /\ UNCHANGED <<now, buckets, tokens, since, base>>

\* A later call finds less than one token ...
allowRefuses(k) ==
    /\ k \in buckets
    /\ refilled(k) < Per
    /\ tokens' = [tokens EXCEPT ![k] = refilled(k)]
    /\ lastTime' = [lastTime EXCEPT ![k] = now]
    /\ refuses(k)
    /\ UNCHANGED <<now, buckets, since, base>>

\* ... or takes one.
allowTakes(k) ==
    /\ k \in buckets
    /\ refilled(k) >= Per
    /\ tokens' = [tokens EXCEPT ![k] = refilled(k) - Per]
    /\ lastTime' = [lastTime EXCEPT ![k] = now]
    /\ grants(k)
    /\ UNCHANGED <<now, buckets, since, base>>

allow(k) == allowFirst(k) \/ allowRefuses(k) \/ allowTakes(k)

Next == Tick \/ \E k \in Keys : allow(k) \/ Observe(k)

Spec == Init /\ [][Next]_vars

-----------------------------------------------------------------------------
(* Properties *)

\* Type invariant; a bucket never holds more than Burst tokens.
TypeOK ==
    /\ now \in Nat
    /\ buckets \subseteq Keys
    /\ tokens \in [Keys -> Int] /\ owed \in [Keys -> Int]
    /\ \A k \in Keys : tokens[k] <= Burst * Per
    /\ {lastTime, granted, since, base} \subseteq [Keys -> Nat]

\* policy.go:58: "burst tokens are available immediately", and no more: however
\* long a key has been idle and whatever was refused before, at one moment it is
\* granted at most Burst calls.
BurstAtOnce ==
    Burst > 0 => \A k \in Keys : now = since[k] => granted[k] - base[k] <= Burst

\* A caller that keeps trying is not starved by its own refused calls: a call is
\* refused only if the documented bucket, out of which the same calls have been
\* granted, is short of a token as well.
RefusalsAreDue ==
    [][Burst > 0 => \A k \in Keys : allowRefuses(k) => due(k) < Per]_vars

\* policy.go:58-59: "one additional token is earned every per duration."  So in
\* every window a key is granted at most the burst plus one call for every Per.
OneTokenPerPer ==
    Burst > 0 => \A k \in Keys :
        (granted[k] - base[k]) * Per <= Burst * Per + (now - since[k])
=============================================================================
