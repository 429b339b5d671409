--------------------------- MODULE ResponseCache ----------------------------
(***************************************************************************)
(* What the Cache interface promises: a map from keys to results with an   *)
(* expiry, which may lose entries but never makes one up, and whose        *)
(* results nobody outside can change.                                      *)
(***************************************************************************)
EXTENDS Naturals

CONSTANTS Keys, Contents

VARIABLES stored,   \* from some keys to [content, until]
          clock,
          reply     \* the operation that has just been done, and its result

vars == <<stored, clock, reply>>

None == [op |-> "none", key |-> "none", content |-> "none"]

Init == stored = <<>> /\ clock = 0 /\ reply = None

\* Set: c is stored under k for some time; other entries may be lost.
Put(k, c) ==
    /\ k \in DOMAIN stored' /\ DOMAIN stored' \subseteq DOMAIN stored \cup {k}
    /\ stored'[k].content = c /\ stored'[k].until > clock
    /\ \A j \in DOMAIN stored' \ {k} : stored'[j] = stored[j]
    /\ reply' = [op |-> "set", key |-> k, content |-> c]
    /\ UNCHANGED clock

\* A hit returns what was last put under the key and has not expired.
Get(k) ==
    /\ IF k \in DOMAIN stored /\ clock <= stored[k].until
       THEN /\ reply' = [op |-> "hit", key |-> k, content |-> stored[k].content]
            /\ UNCHANGED stored
       ELSE /\ reply' = [op |-> "miss", key |-> k, content |-> "none"]
            /\ stored' = [j \in DOMAIN stored \ {k} |-> stored[j]]
    /\ UNCHANGED clock

\* Time passes, or callers go on with their own copies.
Other ==
    /\ clock' \in {clock, clock + 1}
    /\ reply' = None
    /\ UNCHANGED stored

Next ==
    \/ \E k \in Keys : Get(k) \/ \E c \in Contents : Put(k, c)
    \/ Other

Spec == Init /\ [][Next]_vars
=============================================================================
