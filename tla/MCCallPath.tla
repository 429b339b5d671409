----------------------------- MODULE MCCallPath -----------------------------
(* Instances of CallPathProps for TLC: servers with one tool. *)
EXTENDS CallPathProps, TLC

\* get is a cacheable read, which later lists make destructive, or not worth
\* keeping.
Read == [Destructive |-> FALSE, ReadOnly |-> TRUE, Idempotent |-> TRUE,
         cacheable |-> FALSE, cache_ttl |-> "bad"]
Wipe == [Read EXCEPT !.Destructive = TRUE, !.cacheable = TRUE]
Fleeting == [Read EXCEPT !.cache_ttl = "none"]
Lists == {"get" :> Read, "get" :> Wipe, "get" :> Fleeting}
Few == {"get" :> Read, "get" :> Wipe}

Req(s, t, a, sc, v) ==
    [server |-> s, tool |-> t, args |-> a, scope |-> sc, view |-> v]

\* Two spellings of the same arguments, with a bar in them, none at all, and
\* every mistake.
Final(s, a) == IF a = "x2" THEN "x" ELSE a
Split(text) ==
    CASE text = "x" -> <<"x1", "x2">>
      [] text = "p|a" -> <<"p", "a">>
      [] text = "a|b" -> <<"a", "b">>
      [] OTHER -> <<text>>

Good == {Req("a", "get", "x", "p", FALSE), Req("b", "get", "", "p", FALSE)}
Bad == { Req("z", "get", "x", "p", FALSE), Req("a", "put", "x", "p", FALSE),
         Req("a", "get", "{", "p", FALSE), Req("a", "get", "null", "p", FALSE),
         Req("a", "get", "y", "p", FALSE), Req("a", "get", "x", "p", TRUE)}
Every == Good \cup Bad
Pair == {Req("a", "get", "x", "p", FALSE), Req("a", "get", "x2", "q", FALSE)}

\* A scope and the name of a server with bars in them.
Tenants == {Req("a|b", "get", "", "p", FALSE), Req("b", "get", "", "p|a", FALSE)}

Symmetry == Permutations(Calls)
=============================================================================
