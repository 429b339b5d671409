------------------------------ MODULE CallPath ------------------------------
(***************************************************************************)
(* Concurrent CallTool invocations on one Multiplexer.  A call snapshots   *)
(* the server entry, checks its arguments, runs the BeforeCall hooks,      *)
(* consults the response cache, goes upstream through the session it       *)
(* snapshotted, runs the ResultTransform hooks, stores the result and      *)
(* tells the observers.  The entries change underneath as Availability     *)
(* allows (Lifecycle implements it); the cache may lose an entry at any    *)
(* time, as a bounded cache with expiry does; hooks do what their types    *)
(* allow.  A step ends where other goroutines or user code can be seen.    *)
(***************************************************************************)
EXTENDS Naturals, CacheKey

CONSTANTS
    Calls,           \* invocations of CallTool, each used once
    Servers,         \* the names in mx.servers
    Stdio,           \* those that run as subprocesses; the others use HTTP
    Quiet,           \* those that may fall silent
    Requests,        \* what callers may ask for, see RequestType
    ToolLists,       \* tool lists a server may serve: functions to ToolInfo
    Scopes,          \* values of CacheScope(ctx)
    Unparsable,      \* argsJSON that is not a JSON object
    Placeholder,     \* argsJSON in which findInvalidArgs finds something
    OffSchema,       \* argsJSON that violates the tool's schema
    finalArgs(_, _), \* server, argsJSON: the transformed args, serialised
    cacheKey(_, _, _, _), \* the KeyFunc: scope, server, tool, final args
    schemaValidation,     \* is WithSchemaValidation given?
    CacheOn,         \* FALSE after WithoutCache
    BeforeHooks,     \* number of BeforeCall hooks
    TransformHooks,  \* number of ResultTransform hooks
    MaxEpoch         \* bound on the sessions a server goes through

ToolInfo == [Destructive : BOOLEAN, ReadOnly : BOOLEAN, Idempotent : BOOLEAN,
             cacheable : BOOLEAN,     \* Custom["cacheable"] == "true"
             cache_ttl : {"unset", "bad", "some", "none"}]
\* Custom["cache_ttl"]: absent, no duration, positive, or zero and below.

\* What a caller asks for; view is TRUE for a call through a View that hides
\* the server.
Ask(r) == <<r.server, r.tool>>

ASSUME CallPathAssumption ==
    /\ \A r \in Requests : r.scope \in Scopes /\ r.view \in BOOLEAN
    /\ \A l \in ToolLists : l \in [DOMAIN l -> ToolInfo]
    /\ {schemaValidation, CacheOn} \subseteq BOOLEAN
    /\ {BeforeHooks, TransformHooks, MaxEpoch} \subseteq Nat

VARIABLES
    \* the entries, as CallTool sees them
    status, epoch, tools,
    silent,      \* the servers that do not answer at the moment
    mu,          \* mx.mu: "free", or "held" by Close, or "closed" afterwards
    cache,       \* the active cache: a function from some keys to results
    \* per call: where it is and what it holds
    pc, req,
    scope,       \* CacheScope(ctx), which a BeforeCall hook may replace
    snap,        \* toolMeta and entrySess
    hook,        \* hooks of the current chain that have run
    result, err,
    expired,     \* callCtx is past its deadline
    fired        \* how often each observer or hook was told about the call

entryVars == <<status, epoch, tools, silent>>
holdVars == <<req, scope, snap, hook, result, err, expired>>
callVars == <<pc, holdVars, fired>>
vars == <<entryVars, mu, cache, callVars>>

Events == {"BeforeCall", "upstream", "ResultTransform",
           "OnRejectedCall", "AfterCall", "RecordCall"}
Errors == {"nil", "ErrServerNotFound", "ErrToolNotFound", "ErrServerDown",
           "invalid args", "hook", "timeout", "server", "transform"}

NoRequest == [server |-> NoText, tool |-> NoText, args |-> NoText, scope |-> NoText,
              view |-> FALSE]
NoInfo == [Destructive |-> FALSE, ReadOnly |-> FALSE, Idempotent |-> FALSE,
           cacheable |-> FALSE, cache_ttl |-> "unset"]       \* ToolInfo{}
NoSnap == [info |-> NoInfo, session |-> 0]

\* A CallResult: where it comes from, what an upstream call was about, IsError,
\* and the number of ResultTransform hooks it went through.
Result(of, about, isError, passed) ==
    [of |-> of, about |-> about, isError |-> isError, passed |-> passed]
nil == Result("nil", <<>>, FALSE, 0)

\* What the caller gets: every return with an error comes with a nil result.
Returned(c) == IF err[c] = "nil" THEN result[c] ELSE nil

\* Does a key function tell calls apart that differ in scope, server, tool or
\* arguments?
Tells(key(_, _, _, _)) ==
    \A r1, r2 \in Requests : \A s1, s2 \in Scopes :
        key(s1, r1.server, r1.tool, finalArgs(r1.server, r1.args))
            = key(s2, r2.server, r2.tool, finalArgs(r2.server, r2.args))
        => /\ s1 = s2 /\ Ask(r1) = Ask(r2)
           /\ canonicalJSON(finalArgs(r1.server, r1.args))
                = canonicalJSON(finalArgs(r2.server, r2.args))

KeyTells == Tells(cacheKey)

\* What the upstream call of c is about.
About(c) == <<scope[c], req[c].server, req[c].tool,
              canonicalJSON(finalArgs(req[c].server, req[c].args))>>

Init ==
    /\ status = [s \in Servers |-> "down"]
    /\ epoch = [s \in Servers |-> 0]
    /\ tools = [s \in Servers |-> <<>>]
    /\ silent = {}
    /\ mu = "free"
    /\ cache = <<>>
    /\ pc = [c \in Calls |-> "new"]
    /\ req = [c \in Calls |-> NoRequest]
    /\ scope = [c \in Calls |-> NoText]
    /\ snap = [c \in Calls |-> NoSnap]
    /\ hook = [c \in Calls |-> 0]
    /\ result = [c \in Calls |-> nil]
    /\ err = [c \in Calls |-> "nil"]
    /\ expired = [c \in Calls |-> FALSE]
    /\ fired = [c \in Calls |-> [e \in Events |-> 0]]

-----------------------------------------------------------------------------
(* The guards CallTool goes through before any user code sees the call. *)

isCacheable(info) ==
    ~info.Destructive /\ ((info.ReadOnly /\ info.Idempotent) \/ info.cacheable)

\* The default, which is positive, unless the tool has a duration of its own.
toolTTL(info) == IF info.cache_ttl \in {"unset", "bad"} THEN "some" ELSE info.cache_ttl

\* The error of the first check that fails on this view of the entry.
checkFails(r, state, list) ==
    CASE r.tool \notin DOMAIN list -> "ErrToolNotFound"
      [] state = "down" -> "ErrServerDown"
      [] r.args \in Unparsable \cup Placeholder -> "invalid args"
      [] schemaValidation /\ r.args \in OffSchema -> "invalid args"
      [] OTHER -> "nil"

fire(c, e) == fired' = [fired EXCEPT ![c][e] = @ + 1]
goto(c, l) == pc' = [pc EXCEPT ![c] = l]

\* A call is made.
Begin(c, r) ==
    /\ pc[c] = "new"
    /\ goto(c, "lookup")
    /\ req' = [req EXCEPT ![c] = r]
    /\ scope' = [scope EXCEPT ![c] = r.scope]
    /\ UNCHANGED <<entryVars, mu, cache, snap, hook, result, err, expired, fired>>

\* View.CallTool: a server the view hides is turned down on the spot.
ViewCallTool(c) ==
    /\ pc[c] = "lookup"
    /\ req[c].view
    /\ err' = [err EXCEPT ![c] = "ErrServerNotFound"]
    /\ goto(c, "done")
    /\ UNCHANGED <<entryVars, mu, cache, req, scope, snap, hook, result, expired, fired>>

\* mx.servers[server] under mx.mu
lookupServer(c) ==
    /\ pc[c] = "lookup"
    /\ ~req[c].view
    /\ mu # "held"
    /\ IF req[c].server \in Servers
       THEN goto(c, "snapshot") /\ UNCHANGED err
       ELSE /\ goto(c, "reject")
            /\ err' = [err EXCEPT ![c] = "ErrServerNotFound"]
    /\ UNCHANGED <<entryVars, mu, cache, req, scope, snap, hook, result, expired, fired>>

\* Read state, tools and session under one hold of entry.mu, then check.
snapshotEntry(c) ==
    LET s == req[c].server
        e == checkFails(req[c], status[s], tools[s])
    IN  /\ pc[c] = "snapshot"
        /\ snap' = [snap EXCEPT ![c] =
               [session |-> epoch[s],
                info |-> IF req[c].tool \in DOMAIN tools[s]
                         THEN tools[s][req[c].tool] ELSE NoInfo]]
        /\ err' = [err EXCEPT ![c] = e]
        /\ goto(c, IF e = "nil" THEN "before" ELSE "reject")
        /\ UNCHANGED <<entryVars, mu, cache, req, scope, hook, result, expired, fired>>

-----------------------------------------------------------------------------
(* The BeforeCall chain; a hook continues, aborts or answers the call. *)

hookUnchanged == UNCHANGED <<entryVars, mu, cache, req, snap, expired>>

beforeContinues(c) ==
    /\ pc[c] = "before" /\ hook[c] < BeforeHooks
    /\ hook' = [hook EXCEPT ![c] = @ + 1]
    /\ \E sc \in Scopes : scope' = [scope EXCEPT ![c] = sc]
    /\ fire(c, "BeforeCall")
    /\ UNCHANGED <<pc, result, err>>
    /\ hookUnchanged

\* Variant: an abort is not reported as a rejection.
beforeAbortsSilently(c) ==
    /\ pc[c] = "before" /\ hook[c] < BeforeHooks
    /\ err' = [err EXCEPT ![c] = "hook"]
    /\ goto(c, "after")
    /\ fire(c, "BeforeCall")
    /\ UNCHANGED <<scope, hook, result>>
    /\ hookUnchanged

beforeAborts(c) ==
    /\ pc[c] = "before" /\ hook[c] < BeforeHooks
    /\ err' = [err EXCEPT ![c] = "hook"]
    /\ goto(c, "reject")
    /\ fire(c, "BeforeCall")
    /\ UNCHANGED <<scope, hook, result>>
    /\ hookUnchanged

\* Variant: a short circuit returns at once.
beforeShortCircuitsUnseen(c) ==
    /\ pc[c] = "before" /\ hook[c] < BeforeHooks
    /\ result' = [result EXCEPT ![c] = Result("hook", <<>>, FALSE, 0)]
    /\ goto(c, "done")
    /\ fire(c, "BeforeCall")
    /\ UNCHANGED <<scope, hook, err>>
    /\ hookUnchanged

beforeShortCircuits(c) ==
    /\ pc[c] = "before" /\ hook[c] < BeforeHooks
    /\ result' = [result EXCEPT ![c] = Result("hook", <<>>, FALSE, 0)]
    /\ goto(c, "after")
    /\ fire(c, "BeforeCall")
    /\ UNCHANGED <<scope, hook, err>>
    /\ hookUnchanged

-----------------------------------------------------------------------------
(* Cache lookup, the upstream call, ResultTransform, cache store. *)

usesCache(c) == CacheOn /\ isCacheable(snap[c].info)

\* Variant: tool errors are cached, too.
keepsErrors(c) == usesCache(c) /\ toolTTL(snap[c].info) = "some"

\* Set without a positive TTL is a no-op.
keeps(c) == usesCache(c) /\ ~result[c].isError /\ toolTTL(snap[c].info) = "some"

\* Variant: the scope is taken from the caller's context, not from the hooks'.
keyOfCaller(c) == cacheKey(req[c].scope, req[c].server, req[c].tool,
                           finalArgs(req[c].server, req[c].args))

keyOf(c) == cacheKey(scope[c], req[c].server, req[c].tool,
                     finalArgs(req[c].server, req[c].args))

\* activeCache.Get hits: the caller gets a copy.
cacheHits(c) ==
    /\ pc[c] = "before" /\ hook[c] = BeforeHooks
    /\ usesCache(c)
    /\ keyOf(c) \in DOMAIN cache
    /\ result' = [result EXCEPT ![c] = cache[keyOf(c)]]
    /\ goto(c, "after")
    /\ UNCHANGED <<entryVars, mu, cache, req, scope, snap, hook, err, expired, fired>>

\* No cache or a miss: call entrySess under a deadline.
dispatches(c) ==
    /\ pc[c] = "before" /\ hook[c] = BeforeHooks
    /\ usesCache(c) => keyOf(c) \notin DOMAIN cache
    /\ goto(c, "upstream")
    /\ fire(c, "upstream")
    /\ UNCHANGED <<entryVars, mu, cache, holdVars>>

deadlinePasses(c) ==
    /\ pc[c] \in {"upstream", "failed"}
    /\ ~expired[c]
    /\ expired' = [expired EXCEPT ![c] = TRUE]
    /\ UNCHANGED <<entryVars, mu, cache, pc, req, scope, snap, hook, result, err, fired>>

\* The content blocks of the answer, whatever they are, and its IsError flag.
buildResult(c, isError) == Result("upstream", About(c), isError, 0)

\* Variant: AfterCall already runs on the raw result.
upstreamAnswersObserved(c) ==
    /\ pc[c] = "upstream"
    /\ req[c].server \notin silent
    /\ \E e \in BOOLEAN :
           result' = [result EXCEPT ![c] = buildResult(c, e)]
    /\ hook' = [hook EXCEPT ![c] = 0]
    /\ goto(c, "transform")
    /\ fire(c, "AfterCall")
    /\ UNCHANGED <<entryVars, mu, cache, req, scope, snap, err, expired>>

\* The session returns a result, whatever has become of the entry.
upstreamAnswers(c) ==
    /\ pc[c] = "upstream"
    /\ req[c].server \notin silent
    /\ \E e \in BOOLEAN :
           result' = [result EXCEPT ![c] = buildResult(c, e)]
    /\ hook' = [hook EXCEPT ![c] = 0]
    /\ goto(c, "transform")
    /\ UNCHANGED <<entryVars, mu, cache, req, scope, snap, err, expired, fired>>

\* ... or an error of the server, the connection or the closed session ...
upstreamFails(c) ==
    /\ pc[c] = "upstream"
    /\ goto(c, "failed")
    /\ UNCHANGED <<entryVars, mu, cache, req, scope, snap, hook, result, err, expired, fired>>

\* Variant: the call has no deadline.
upstreamTimesOutNever(c) ==
    /\ pc[c] = "upstream"
    /\ FALSE
    /\ goto(c, "failed")
    /\ UNCHANGED <<entryVars, mu, cache, req, scope, snap, hook, result, err, expired, fired>>

\* ... or gives up with callCtx.Err().  Before it returns it tells the server,
\* on a context without a deadline: over HTTP a silent server keeps it waiting.
upstreamTimesOut(c) ==
    /\ pc[c] = "upstream"
    /\ expired[c]
    /\ req[c].server \notin silent \ Stdio
    /\ goto(c, "failed")
    /\ UNCHANGED <<entryVars, mu, cache, req, scope, snap, hook, result, err, expired, fired>>

\* callCtx.Err() decides how the failure is reported.
reportsFailure(c) ==
    /\ pc[c] = "failed"
    /\ err' = [err EXCEPT ![c] = IF expired[c] THEN "timeout" ELSE "server"]
    /\ goto(c, "after")
    /\ UNCHANGED <<entryVars, mu, cache, req, scope, snap, hook, result, expired, fired>>

\* A ResultTransform hook rewrites the result in place, IsError included ...
transformContinues(c) ==
    /\ pc[c] = "transform" /\ hook[c] < TransformHooks
    /\ hook' = [hook EXCEPT ![c] = @ + 1]
    /\ \E e \in BOOLEAN :
           result' = [result EXCEPT ![c].isError = e, ![c].passed = @ + 1]
    /\ fire(c, "ResultTransform")
    /\ UNCHANGED <<pc, scope, err>>
    /\ hookUnchanged

\* ... or fails the call.
transformAborts(c) ==
    /\ pc[c] = "transform" /\ hook[c] < TransformHooks
    /\ err' = [err EXCEPT ![c] = "transform"]
    /\ goto(c, "after")
    /\ fire(c, "ResultTransform")
    /\ UNCHANGED <<scope, hook, result>>
    /\ hookUnchanged

\* Variant: what is cached is the result before the hooks.
storesRaw(c) ==
    /\ pc[c] = "transform" /\ hook[c] = TransformHooks
    /\ cache' = IF keeps(c)
                THEN [k \in DOMAIN cache \cup {keyOf(c)} |->
                         IF k = keyOf(c) THEN [result[c] EXCEPT !.passed = 0] ELSE cache[k]]
                ELSE cache
    /\ goto(c, "after")
    /\ UNCHANGED <<entryVars, mu, holdVars, fired>>

\* activeCache.Set stores a copy under the key of the lookup.
stores(c) ==
    /\ pc[c] = "transform" /\ hook[c] = TransformHooks
    /\ cache' = IF keeps(c)
                THEN [k \in DOMAIN cache \cup {keyOf(c)} |->
                         IF k = keyOf(c) THEN result[c] ELSE cache[k]]
                ELSE cache
    /\ goto(c, "after")
    /\ UNCHANGED <<entryVars, mu, holdVars, fired>>

-----------------------------------------------------------------------------
(* The observers. *)

fireRejected(c) ==
    /\ pc[c] = "reject"
    /\ fire(c, "OnRejectedCall")
    /\ goto(c, "after")
    /\ UNCHANGED <<entryVars, mu, cache, holdVars>>

\* A short circuit, a cache hit and an abort by a hook return right after.
runAfterCall(c) ==
    /\ pc[c] = "after"
    /\ fire(c, "AfterCall")
    /\ goto(c, IF \/ err[c] = "hook"
                  \/ (err[c] = "nil" /\ fired[c]["upstream"] = 0)
               THEN "done" ELSE "record")
    /\ UNCHANGED <<entryVars, mu, cache, holdVars>>

safeRecordCall(c) ==
    /\ pc[c] = "record"
    /\ fire(c, "RecordCall")
    /\ goto(c, "done")
    /\ UNCHANGED <<entryVars, mu, cache, holdVars>>

CallTool(c) ==
    \/ ViewCallTool(c) \/ lookupServer(c) \/ snapshotEntry(c)
    \/ beforeContinues(c) \/ beforeAborts(c) \/ beforeShortCircuits(c)
    \/ cacheHits(c) \/ dispatches(c)
    \/ upstreamAnswers(c) \/ upstreamFails(c) \/ upstreamTimesOut(c)
    \/ reportsFailure(c)
    \/ transformContinues(c) \/ transformAborts(c) \/ stores(c)
    \/ fireRejected(c) \/ runAfterCall(c) \/ safeRecordCall(c)

-----------------------------------------------------------------------------
(* The rest of the multiplexer. *)

envUnchanged == UNCHANGED <<cache, callVars>>

\* New or a reconnect installs a session and the tools listed on it.
ServerGained(s) ==
    /\ status[s] = "down" /\ epoch[s] < MaxEpoch
    /\ s \notin silent
    /\ status' = [status EXCEPT ![s] = "connected"]
    /\ epoch' = [epoch EXCEPT ![s] = @ + 1]
    /\ \E l \in ToolLists : tools' = [tools EXCEPT ![s] = l]
    /\ UNCHANGED <<silent, mu>>
    /\ envUnchanged

\* reconnectServer marks the entry down; session and tools stay.
ServerLost(s) ==
    /\ status[s] = "connected"
    /\ status' = [status EXCEPT ![s] = "down"]
    /\ UNCHANGED <<epoch, tools, silent, mu>>
    /\ envUnchanged

\* applyToolRefresh
ToolsRefreshed(s) ==
    /\ epoch[s] > 0
    /\ s \notin silent
    /\ \E l \in ToolLists : tools' = [tools EXCEPT ![s] = l]
    /\ UNCHANGED <<status, epoch, silent, mu>>
    /\ envUnchanged

\* A server stops answering ...
FallsSilent(s) ==
    /\ s \in Quiet \ silent
    /\ silent' = silent \cup {s}
    /\ UNCHANGED <<status, epoch, tools, mu>>
    /\ envUnchanged

\* ... or answers again.
AnswersAgain(s) ==
    /\ s \in silent
    /\ silent' = silent \ {s}
    /\ UNCHANGED <<status, epoch, tools, mu>>
    /\ envUnchanged

\* The cache drops an entry: expired, evicted, or never kept.
CacheForgets ==
    /\ \E k \in DOMAIN cache :
           cache' = [j \in DOMAIN cache \ {k} |-> cache[j]]
    /\ UNCHANGED <<entryVars, mu, callVars>>

Close ==
    /\ mu = "free"
    /\ mu' = "held"
    /\ UNCHANGED entryVars
    /\ envUnchanged

\* Closing a session waits for its calls.  Subprocesses are killed, which ends
\* theirs; over HTTP they end by themselves, and the DELETE request that ends
\* the session has to be answered, too.
sessionCloses(s) ==
    \/ epoch[s] = 0
    \/ s \in Stdio
    \/ /\ s \notin silent
       /\ \A c \in Calls : ~(/\ pc[c] = "upstream" /\ req[c].server = s
                             /\ snap[c].session = epoch[s])

CloseReturns ==
    /\ mu = "held"
    /\ \A s \in Servers : sessionCloses(s)
    /\ mu' = "closed"
    /\ UNCHANGED entryVars
    /\ envUnchanged

Next ==
    \/ \E c \in Calls : \/ \E r \in Requests : Begin(c, r)
                       \/ CallTool(c) \/ deadlinePasses(c)
    \/ \E s \in Servers : \/ ServerGained(s) \/ ServerLost(s) \/ ToolsRefreshed(s)
                         \/ FallsSilent(s) \/ AnswersAgain(s)
    \/ CacheForgets \/ Close \/ CloseReturns

Spec == Init /\ [][Next]_vars
=============================================================================
