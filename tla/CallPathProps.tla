---------------------------- MODULE CallPathProps ---------------------------
(***************************************************************************)
(* What CallTool promises its callers and its observers.                   *)
(***************************************************************************)
EXTENDS CallPath

-----------------------------------------------------------------------------
(* Observers *)

\* Every call that reaches Multiplexer.CallTool is reported to AfterCall
\* exactly once before it returns, and to RecordCall at most once and not
\* before AfterCall, on every path: success, cache hit, short circuit, failure
\* or rejection.
ObservedOnce ==
    \A c \in Calls :
        /\ fired[c]["AfterCall"] <= 1 /\ fired[c]["RecordCall"] <= fired[c]["AfterCall"]
        /\ pc[c] = "done" /\ ~req[c].view => fired[c]["AfterCall"] = 1

\* metrics.go:13: "RecordCall is invoked after every [Multiplexer.CallTool]
\* invocation."
EveryCallIsRecorded ==
    \A c \in Calls : pc[c] = "done" /\ ~req[c].view => fired[c]["RecordCall"] = 1

\* OnRejectedCall is told of exactly the calls that end in an error without
\* going upstream, and AfterCall never runs before it on these.
RejectedIsReported ==
    \A c \in Calls :
        fired[c]["AfterCall"] = 1 =>
            fired[c]["OnRejectedCall"] =
                IF err[c] # "nil" /\ fired[c]["upstream"] = 0 THEN 1 ELSE 0

\* Once AfterCall has been told of a call, nothing else happens on its
\* behalf: no further hook, no upstream request, no change of its outcome.
AfterCallIsLast ==
    [][\A c \in Calls :
          fired[c]["AfterCall"] = 1 =>
              /\ <<result[c], err[c]>>' = <<result[c], err[c]>>
              /\ \A e \in Events \ {"RecordCall"} : fired'[c][e] = fired[c][e]]_vars

-----------------------------------------------------------------------------
(* Results *)

\* With a cache key that tells different calls apart, what a caller gets, from
\* upstream or from the cache, answers its own question: same scope (the one in
\* force after the hooks), server, tool and transformed arguments.
ResultIsOwn ==
    KeyTells =>
        \A c \in Calls :
            pc[c] = "done" /\ Returned(c).of = "upstream"
                => result[c].about = About(c)

\* cache.go:31-32: "WithCacheScope injects a per-call scope string into ctx for
\* cache key isolation. Use it to prevent cross-tenant cache collisions."  So no
\* call gets what a call with another scope asked for, under the default key too.
ScopesAreIsolated ==
    \A c \in Calls :
        pc[c] = "done" /\ Returned(c).of = "upstream" => result[c].about[1] = scope[c]

\* ... and went through every ResultTransform hook, also when the result was
\* cached by another call.
ResultIsTransformed ==
    \A c \in Calls :
        pc[c] = "done" /\ Returned(c).of = "upstream"
            => result[c].passed = TransformHooks

\* A result that comes without an upstream call, or a hook, is one that another
\* call with the same key got from upstream and was allowed to keep: no tool
\* error, and with a TTL; and the tool was not destructive when this call saw
\* it, even if its results were cached before it became so.
OnlyKeptIsServed ==
    \A c \in Calls :
        pc[c] = "done" /\ Returned(c).of = "upstream" /\ fired[c]["upstream"] = 0 =>
            /\ ~result[c].isError
            /\ ~snap[c].info.Destructive
            /\ \E d \in Calls \ {c} :
                    /\ fired[d]["upstream"] = 1
                    /\ keyOf(d) = keyOf(c)
                    /\ toolTTL(snap[d].info) = "some"

-----------------------------------------------------------------------------
(* Liveness: hooks return, deadlines pass, sessions that can close do. *)

LiveSpec ==
    /\ Spec
    /\ \A c \in Calls :
          /\ WF_vars(pc[c] # "upstream" /\ CallTool(c))
          /\ WF_vars(deadlinePasses(c)) /\ WF_vars(upstreamTimesOut(c))
    /\ WF_vars(CloseReturns)

\* Unless a server stays silent for ever over HTTP, every call returns: no call
\* relies on being answered, silent subprocesses included, and none waits for
\* ever for the lock that Close holds while it waits for the calls of others.
CallReturns ==
    <>[](silent \subseteq Stdio) =>
        \A c \in Calls : pc[c] = "lookup" ~> pc[c] = "done"

\* config.go:51-52: "CallTimeout is the maximum duration allowed for a single
\* tool call to this server."  So a call whose deadline has passed ends.
CallEndsAtDeadline == \A c \in Calls : expired[c] ~> pc[c] = "done"
=============================================================================
