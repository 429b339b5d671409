--------------------------- MODULE CallPathProofs ---------------------------
(***************************************************************************)
(* Proofs about CallPath, for any number of calls, servers, hooks of each  *)
(* kind and sessions, and any cache key.                                   *)
(***************************************************************************)
EXTENDS CallPathProps, SequenceTheorems, TLAPS

-----------------------------------------------------------------------------
(* The inductive invariant *)

Locations == {"new", "lookup", "snapshot", "before", "upstream", "failed",
              "transform", "reject", "after", "record", "done"}

\* Where the outcome of a call is decided: only observers are still to come.
Settled == {"after", "record", "done"}

Abouts ==
    {<<>>} \cup {<<s, r.server, r.tool, canonicalJSON(finalArgs(r.server, r.args))>> :
                    s \in Scopes, r \in Requests}

Results == [of : {"nil", "hook", "upstream"}, about : Abouts, isError : BOOLEAN, passed : Nat]

TypeOK ==
    /\ pc \in [Calls -> Locations]
    /\ req \in [Calls -> Requests \cup {NoRequest}]
    /\ scope \in [Calls -> Scopes \cup {NoText}]
    /\ DOMAIN snap = Calls
    /\ hook \in [Calls -> Nat]
    /\ result \in [Calls -> Results]
    /\ err \in [Calls -> Errors]
    /\ expired \in [Calls -> BOOLEAN]
    /\ fired \in [Calls -> [Events -> Nat]]
    /\ cache \in [DOMAIN cache -> Results]
    /\ \A c \in Calls : pc[c] # "new" => req[c] \in Requests /\ scope[c] \in Scopes

\* Was OnRejectedCall told of the call, if and only if it should have been?
Reported(c) ==
    fired[c]["OnRejectedCall"] = IF err[c] # "nil" /\ fired[c]["upstream"] = 0 THEN 1 ELSE 0

\* Who has been told of a call, by where it is.
ObservedOf(c) ==
    /\ pc[c] \notin {"record", "done"} => fired[c]["AfterCall"] = 0
    /\ pc[c] # "done" => fired[c]["RecordCall"] = 0
    /\ pc[c] \notin Settled => fired[c]["OnRejectedCall"] = 0
    /\ pc[c] \in {"new", "lookup", "snapshot", "before", "reject"} => fired[c]["upstream"] = 0
    /\ pc[c] \in {"upstream", "failed", "transform"} => fired[c]["upstream"] = 1
    /\ fired[c]["upstream"] \in {0, 1}
    /\ pc[c] = "reject" => err[c] # "nil"
    /\ pc[c] \notin Settled \cup {"reject"} => err[c] = "nil"
    /\ pc[c] \in {"after", "record"} => Reported(c)
    /\ pc[c] = "record" => fired[c]["AfterCall"] = 1
    /\ pc[c] = "done" =>
           \/ /\ fired[c]["AfterCall"] = 1 /\ fired[c]["RecordCall"] \in {0, 1}
              /\ Reported(c)
           \/ /\ fired[c]["AfterCall"] = 0 /\ fired[c]["RecordCall"] = 0
              /\ req[c].view /\ err[c] # "nil"

\* What the result of a call is, by where it is.
ResultOf(c) ==
    /\ pc[c] \in {"new", "lookup", "snapshot", "before", "reject"} => result[c].of = "nil"
    /\ pc[c] = "transform" =>
           /\ result[c].of = "upstream" /\ result[c].about = About(c)
           /\ result[c].passed = hook[c] /\ hook[c] <= TransformHooks
    /\ pc[c] \in Settled /\ err[c] = "nil" /\ result[c].of = "upstream" =>
           (KeyTells => result[c].about = About(c)) /\ result[c].passed = TransformHooks

\* Call d went upstream, is over, and could keep what it got.
Kept(d) ==
    pc[d] \in Settled /\ fired[d]["upstream"] = 1 /\ toolTTL(snap[d].info) = "some"

\* What came from the cache was put there by another call.
ServedOf(c) ==
    pc[c] \in Settled /\ err[c] = "nil" /\ result[c].of = "upstream"
        /\ fired[c]["upstream"] = 0 =>
            /\ ~result[c].isError
            /\ ~snap[c].info.Destructive
            /\ \E d \in Calls \ {c} : Kept(d) /\ keyOf(d) = keyOf(c)

\* Every cached result is the transformed answer of a call that is over.
EntryOf(k) ==
    /\ cache[k].of = "upstream" /\ ~cache[k].isError /\ cache[k].passed = TransformHooks
    /\ \E d \in Calls : Kept(d) /\ keyOf(d) = k /\ cache[k].about = About(d)

IInv ==
    /\ TypeOK
    /\ \A c \in Calls : ObservedOf(c) /\ ResultOf(c) /\ ServedOf(c)
    /\ \A k \in DOMAIN cache : EntryOf(k)

-----------------------------------------------------------------------------
(* Types and frames *)

\* Results are what their constructor says.
LEMMA ResultType ==
    ASSUME NEW of \in {"nil", "hook", "upstream"}, NEW about \in Abouts,
           NEW isError \in BOOLEAN, NEW passed \in Nat
    PROVE  Result(of, about, isError, passed) \in Results
BY DEF Result, Results

\* What a call asks upstream is one of Abouts.
LEMMA AboutType ==
    ASSUME TypeOK, NEW c \in Calls, pc[c] # "new"
    PROVE  About(c) \in Abouts
BY DEF TypeOK, About, Abouts

\* What fire does to the counters.
LEMMA FireCounts ==
    ASSUME TypeOK, NEW c \in Calls, NEW e \in Events, fire(c, e)
    PROVE  /\ fired' \in [Calls -> [Events -> Nat]]
           /\ fired'[c][e] = fired[c][e] + 1
           /\ \A x \in Events \ {e} : fired'[c][x] = fired[c][x]
           /\ \A q \in Calls \ {c} : fired'[q] = fired[q]
<1>1. fired \in [Calls -> [Events -> Nat]] /\ fired[c] \in [Events -> Nat]
  BY DEF TypeOK
<1>2. fired[c][e] + 1 \in Nat
  BY <1>1
<1>3. fired' = [fired EXCEPT ![c] = [fired[c] EXCEPT ![e] = fired[c][e] + 1]]
  BY DEF fire
<1>4. [fired[c] EXCEPT ![e] = fired[c][e] + 1] \in [Events -> Nat]
  BY <1>1, <1>2
<1> QED BY <1>1, <1>3, <1>4

\* The counters as a function of events, for the goals that name them.
LEMMA EventNames ==
    /\ "BeforeCall" \in Events /\ "upstream" \in Events /\ "ResultTransform" \in Events
    /\ "OnRejectedCall" \in Events /\ "AfterCall" \in Events /\ "RecordCall" \in Events
BY DEF Events

\* Nothing about call q changes.
Same(q) ==
    /\ pc'[q] = pc[q] /\ req'[q] = req[q] /\ scope'[q] = scope[q] /\ snap'[q] = snap[q]
    /\ hook'[q] = hook[q] /\ result'[q] = result[q] /\ err'[q] = err[q]
    /\ fired'[q] = fired[q]

\* A step that call c takes.
Own(c) == CallTool(c) \/ deadlinePasses(c) \/ \E r \in Requests : Begin(c, r)

\* A step of one call is not a step of another.
LEMMA OwnStep ==
    ASSUME TypeOK, NEW c \in Calls, NEW q \in Calls, q # c,
           Own(c)
    PROVE  Same(q)
<1> USE DEF TypeOK, Same, goto, fire, holdVars, hookUnchanged, entryVars
<1>1. ASSUME NEW r \in Requests, Begin(c, r) PROVE Same(q)
  BY <1>1 DEF Begin
<1>2. CASE deadlinePasses(c) \/ ViewCallTool(c) \/ lookupServer(c) \/ snapshotEntry(c)
  BY <1>2 DEF deadlinePasses, ViewCallTool, lookupServer, snapshotEntry
<1>3. CASE beforeContinues(c) \/ beforeAborts(c) \/ beforeShortCircuits(c)
  BY <1>3 DEF beforeContinues, beforeAborts, beforeShortCircuits
<1>4. CASE cacheHits(c) \/ dispatches(c) \/ stores(c)
  BY <1>4 DEF cacheHits, dispatches, stores
<1>5. CASE upstreamAnswers(c) \/ upstreamFails(c) \/ upstreamTimesOut(c) \/ reportsFailure(c)
  BY <1>5 DEF upstreamAnswers, upstreamFails, upstreamTimesOut, reportsFailure
<1>6. CASE transformContinues(c)
  BY <1>6 DEF transformContinues
<1>7. CASE transformAborts(c) \/ fireRejected(c) \/ runAfterCall(c) \/ safeRecordCall(c)
  BY <1>7 DEF transformAborts, fireRejected, runAfterCall, safeRecordCall
<1> QED BY <1>1, <1>2, <1>3, <1>4, <1>5, <1>6, <1>7 DEF Own, CallTool

\* The rest of the multiplexer does not touch a call.
LEMMA OtherStep ==
    ASSUME NEW q \in Calls,
           \/ \E s \in Servers : \/ ServerGained(s) \/ ServerLost(s) \/ ToolsRefreshed(s)
                               \/ FallsSilent(s) \/ AnswersAgain(s)
           \/ CacheForgets \/ Close \/ CloseReturns \/ UNCHANGED vars
    PROVE  Same(q)
BY DEF Same, ServerGained, ServerLost, ToolsRefreshed, FallsSilent, AnswersAgain,
       CacheForgets, Close, CloseReturns,
       envUnchanged, vars, callVars, holdVars

-----------------------------------------------------------------------------
(* The steps *)

\* The part of the type that belongs to the calls, but for the counters.
CallType ==
    /\ pc \in [Calls -> Locations]
    /\ req \in [Calls -> Requests \cup {NoRequest}]
    /\ scope \in [Calls -> Scopes \cup {NoText}]
    /\ DOMAIN snap = Calls
    /\ hook \in [Calls -> Nat]
    /\ result \in [Calls -> Results]
    /\ err \in [Calls -> Errors]
    /\ expired \in [Calls -> BOOLEAN]
    /\ \A c \in Calls : pc[c] # "new" => req[c] \in Requests /\ scope[c] \in Scopes

\* A hook counts itself and the transformations of the result.
LEMMA HookCounts ==
    ASSUME TypeOK, NEW c \in Calls
    PROVE  hook[c] + 1 \in Nat /\ result[c].passed + 1 \in Nat
<1>1. hook[c] \in Nat
  BY DEF TypeOK
<1>2. result[c] \in Results
  BY DEF TypeOK
<1>3. result[c].passed \in Nat
  BY <1>2 DEF Results
<1> QED BY <1>1, <1>3

\* A step of a call keeps the types of what calls hold.
LEMMA CallTypeStep ==
    ASSUME TypeOK, NEW c \in Calls,
           Own(c)
    PROVE  CallType'
<1> USE DEF TypeOK, CallType, goto, holdVars, hookUnchanged, Locations
<1>1. ASSUME NEW r \in Requests, Begin(c, r) PROVE CallType'
  BY <1>1, CallPathAssumption DEF Begin
<1>2. CASE deadlinePasses(c)
  BY <1>2 DEF deadlinePasses
<1>3. CASE ViewCallTool(c) \/ lookupServer(c)
  BY <1>3 DEF ViewCallTool, lookupServer, Errors
<1>4. CASE snapshotEntry(c)
  <2>1. checkFails(req[c], status[req[c].server], tools[req[c].server]) \in Errors
    BY DEF checkFails, Errors
  <2> QED BY <1>4, <2>1 DEF snapshotEntry
<1>5. CASE beforeContinues(c)
  BY <1>5, HookCounts DEF beforeContinues
<1>6. CASE beforeAborts(c)
  BY <1>6 DEF beforeAborts, Errors
<1>7. CASE beforeShortCircuits(c)
  <2>1. <<>> \in Abouts
    BY DEF Abouts
  <2>2. Result("hook", <<>>, FALSE, 0) \in Results
    BY <2>1 DEF Result, Results
  <2> QED BY <1>7, <2>2 DEF beforeShortCircuits
<1>8. CASE cacheHits(c)
  <2>1. keyOf(c) \in DOMAIN cache
    BY <1>8 DEF cacheHits
  <2>2. cache[keyOf(c)] \in Results
    BY <2>1
  <2> QED BY <1>8, <2>2 DEF cacheHits
<1>9. CASE dispatches(c) \/ stores(c) \/ upstreamFails(c) \/ upstreamTimesOut(c)
  <2>1. pc' \in [Calls -> Locations] /\ UNCHANGED holdVars
    BY <1>9 DEF dispatches, stores, upstreamFails, upstreamTimesOut
  <2>2. pc[c] # "new" /\ \A q \in Calls \ {c} : pc'[q] = pc[q]
    BY <1>9 DEF dispatches, stores, upstreamFails, upstreamTimesOut
  <2> QED BY <2>1, <2>2
<1>10. CASE upstreamAnswers(c)
  <2>1. PICK e \in BOOLEAN : result' = [result EXCEPT ![c] = buildResult(c, e)]
    BY <1>10 DEF upstreamAnswers
  <2>2. buildResult(c, e) \in Results
    BY <1>10, AboutType, ResultType DEF buildResult, upstreamAnswers
  <2> QED BY <1>10, <2>1, <2>2 DEF upstreamAnswers
<1>11. CASE reportsFailure(c)
  BY <1>11 DEF reportsFailure, Errors
<1>12. CASE transformContinues(c)
  <2>1. PICK e \in BOOLEAN :
           result' = [result EXCEPT ![c].isError = e, ![c].passed = @ + 1]
    BY <1>12 DEF transformContinues
  <2>2. [result[c] EXCEPT !.isError = e, !.passed = @ + 1] \in Results
    <3>1. result[c] \in Results /\ result[c].passed + 1 \in Nat
      BY HookCounts
    <3>2. [result[c] EXCEPT !.isError = e] \in Results
      BY <3>1 DEF Results
    <3> QED BY <3>1, <3>2 DEF Results
  <2>3. result' \in [Calls -> Results]
    BY <2>1, <2>2
  <2> QED BY <1>12, <2>3, HookCounts DEF transformContinues
<1>13. CASE transformAborts(c)
  BY <1>13 DEF transformAborts, Errors
<1>14. CASE fireRejected(c) \/ runAfterCall(c) \/ safeRecordCall(c)
  BY <1>14 DEF fireRejected, runAfterCall, safeRecordCall
<1> QED
  BY <1>1, <1>2, <1>3, <1>4, <1>5, <1>6, <1>7, <1>8, <1>9, <1>10, <1>11, <1>12, <1>13,
     <1>14 DEF Own, CallTool

\* ... and of the counters and the cache.
LEMMA CountTypeStep ==
    ASSUME TypeOK, NEW c \in Calls,
           Own(c)
    PROVE  fired' \in [Calls -> [Events -> Nat]] /\ cache' \in [DOMAIN cache' -> Results]
<1>1. ASSUME NEW r \in Requests, Begin(c, r)
      PROVE UNCHANGED <<fired, cache>>
  BY <1>1 DEF Begin
<1>2. CASE \/ deadlinePasses(c) \/ ViewCallTool(c) \/ lookupServer(c) \/ snapshotEntry(c)
           \/ cacheHits(c) \/ upstreamAnswers(c) \/ upstreamFails(c) \/ upstreamTimesOut(c)
           \/ reportsFailure(c)
  <2>1. UNCHANGED <<fired, cache>>
    BY <1>2 DEF deadlinePasses, ViewCallTool, lookupServer, snapshotEntry, cacheHits,
        upstreamAnswers, upstreamFails, upstreamTimesOut, reportsFailure
  <2> QED BY <2>1 DEF TypeOK
<1>3. CASE \/ beforeContinues(c) \/ beforeAborts(c) \/ beforeShortCircuits(c)
           \/ dispatches(c) \/ transformContinues(c) \/ transformAborts(c)
           \/ fireRejected(c) \/ runAfterCall(c) \/ safeRecordCall(c)
  <2>1. cache' = cache /\ \E e \in Events : fire(c, e)
    BY <1>3, EventNames DEF beforeContinues, beforeAborts, beforeShortCircuits, dispatches,
        transformContinues, transformAborts, fireRejected, runAfterCall, safeRecordCall,
        hookUnchanged
  <2> QED BY <2>1, FireCounts DEF TypeOK
<1>4. CASE stores(c)
  BY <1>4 DEF stores, TypeOK
<1> QED BY <1>1, <1>2, <1>3, <1>4 DEF Own, CallTool, TypeOK

\* Every step keeps the types.
LEMMA TypeStep ==
    ASSUME TypeOK, [Next]_vars
    PROVE  TypeOK'
<1>1. ASSUME NEW c \in Calls,
             Own(c)
      PROVE TypeOK'
  <2>1. CallType' /\ fired' \in [Calls -> [Events -> Nat]] /\ cache' \in [DOMAIN cache' -> Results]
    BY <1>1, CallTypeStep, CountTypeStep
  <2> QED BY <2>1 DEF CallType, TypeOK
<1>2. CASE CacheForgets
  BY <1>2 DEF CacheForgets, TypeOK, callVars, holdVars
<1>3. CASE \/ \E s \in Servers : \/ ServerGained(s) \/ ServerLost(s) \/ ToolsRefreshed(s)
                                \/ FallsSilent(s) \/ AnswersAgain(s)
           \/ Close \/ CloseReturns \/ UNCHANGED vars
  <2>1. UNCHANGED <<cache, callVars>>
    BY <1>3 DEF ServerGained, ServerLost, ToolsRefreshed, FallsSilent, AnswersAgain,
        Close, CloseReturns, envUnchanged, vars
  <2> QED BY <2>1 DEF TypeOK, callVars, holdVars
<1> QED BY <1>1, <1>2, <1>3 DEF Next, Own

\* A step of a call keeps what its observers have been told in order.
LEMMA ObservedStep ==
    ASSUME TypeOK, NEW c \in Calls, ObservedOf(c),
           Own(c)
    PROVE  ObservedOf(c)'
<1> DEFINE n == fired[c]
           m == fired'[c]
<1>0. /\ n["AfterCall"] \in Nat /\ n["RecordCall"] \in Nat
      /\ n["OnRejectedCall"] \in Nat /\ n["upstream"] \in Nat
  BY EventNames DEF TypeOK
<1>1. ASSUME NEW r \in Requests, Begin(c, r) PROVE ObservedOf(c)'
  <2>1. pc[c] = "new" /\ pc'[c] = "lookup" /\ err'[c] = err[c] /\ fired' = fired
    BY <1>1 DEF Begin, goto, TypeOK
  <2> QED BY <2>1 DEF ObservedOf, Reported, Settled
<1>2. CASE deadlinePasses(c)
  <2>1. pc' = pc /\ req' = req /\ err' = err /\ fired' = fired
    BY <1>2 DEF deadlinePasses
  <2> QED BY <2>1 DEF ObservedOf, Reported
<1>3. CASE ViewCallTool(c)
  <2>1. /\ pc[c] = "lookup" /\ pc'[c] = "done" /\ err'[c] = "ErrServerNotFound"
        /\ req' = req /\ req[c].view /\ fired' = fired
    BY <1>3 DEF ViewCallTool, goto, TypeOK
  <2> QED BY <2>1 DEF ObservedOf, Reported, Settled
<1>4. CASE lookupServer(c)
  <2>1. /\ pc[c] = "lookup" /\ fired' = fired
        /\ \/ pc'[c] = "snapshot" /\ err'[c] = err[c]
           \/ pc'[c] = "reject" /\ err'[c] = "ErrServerNotFound"
    BY <1>4 DEF lookupServer, goto, TypeOK
  <2> QED BY <2>1 DEF ObservedOf, Reported, Settled
<1>5. CASE snapshotEntry(c)
  <2>1. /\ pc[c] = "snapshot" /\ fired' = fired
        /\ pc'[c] = IF err'[c] = "nil" THEN "before" ELSE "reject"
    BY <1>5 DEF snapshotEntry, goto, TypeOK
  <2> QED BY <2>1 DEF ObservedOf, Reported, Settled
<1>6. CASE beforeContinues(c) \/ beforeAborts(c) \/ beforeShortCircuits(c)
  <2>1. fire(c, "BeforeCall")
    BY <1>6 DEF beforeContinues, beforeAborts, beforeShortCircuits
  <2>2. \A x \in {"AfterCall", "RecordCall", "OnRejectedCall", "upstream"} : m[x] = n[x]
    BY <2>1, FireCounts DEF Events
  <2>3. /\ pc[c] = "before"
        /\ \/ pc'[c] = "before" /\ err'[c] = err[c]
           \/ pc'[c] = "reject" /\ err'[c] = "hook"
           \/ pc'[c] = "after" /\ err'[c] = err[c]
    BY <1>6 DEF beforeContinues, beforeAborts, beforeShortCircuits, goto, TypeOK
  <2> QED BY <2>2, <2>3 DEF ObservedOf, Reported, Settled
<1>7. CASE cacheHits(c)
  <2>1. pc[c] = "before" /\ pc'[c] = "after" /\ err' = err /\ fired' = fired
    BY <1>7 DEF cacheHits, goto, TypeOK
  <2> QED BY <2>1 DEF ObservedOf, Reported, Settled
<1>8. CASE dispatches(c)
  <2>1. /\ m["upstream"] = n["upstream"] + 1
        /\ \A x \in {"AfterCall", "RecordCall", "OnRejectedCall"} : m[x] = n[x]
    BY <1>8, FireCounts DEF Events, dispatches
  <2>2. pc[c] = "before" /\ pc'[c] = "upstream" /\ err' = err
    BY <1>8 DEF dispatches, goto, TypeOK, holdVars
  <2> QED BY <2>1, <2>2 DEF ObservedOf, Reported, Settled
<1>9. CASE \/ upstreamAnswers(c) \/ upstreamFails(c) \/ upstreamTimesOut(c)
           \/ reportsFailure(c) \/ stores(c)
  <2>1. /\ pc[c] \in {"upstream", "failed", "transform"} /\ fired' = fired
        /\ \/ pc'[c] \in {"failed", "transform"} /\ err'[c] = err[c]
           \/ pc'[c] = "after"
    BY <1>9 DEF upstreamAnswers, upstreamFails, upstreamTimesOut, reportsFailure, stores,
        goto, TypeOK, holdVars
  <2> QED BY <2>1 DEF ObservedOf, Reported, Settled
<1>10. CASE transformContinues(c) \/ transformAborts(c)
  <2>1. fire(c, "ResultTransform")
    BY <1>10 DEF transformContinues, transformAborts
  <2>2. \A x \in {"AfterCall", "RecordCall", "OnRejectedCall", "upstream"} : m[x] = n[x]
    BY <2>1, FireCounts DEF Events
  <2>3. /\ pc[c] = "transform"
        /\ \/ pc'[c] = "transform" /\ err'[c] = err[c]
           \/ pc'[c] = "after"
    BY <1>10 DEF transformContinues, transformAborts, goto, TypeOK
  <2> QED BY <2>2, <2>3 DEF ObservedOf, Reported, Settled
<1>11. CASE fireRejected(c)
  <2>1. /\ m["OnRejectedCall"] = n["OnRejectedCall"] + 1
        /\ \A x \in {"AfterCall", "RecordCall", "upstream"} : m[x] = n[x]
    BY <1>11, FireCounts DEF Events, fireRejected
  <2>2. pc[c] = "reject" /\ pc'[c] = "after" /\ err' = err
    BY <1>11 DEF fireRejected, goto, TypeOK, holdVars
  <2> QED BY <2>1, <2>2 DEF ObservedOf, Reported, Settled
<1>12. CASE runAfterCall(c)
  <2>1. /\ m["AfterCall"] = n["AfterCall"] + 1
        /\ \A x \in {"OnRejectedCall", "RecordCall", "upstream"} : m[x] = n[x]
    BY <1>12, FireCounts DEF Events, runAfterCall
  <2>2. pc[c] = "after" /\ pc'[c] \in {"record", "done"} /\ err' = err
    BY <1>12 DEF runAfterCall, goto, TypeOK, holdVars
  <2> QED BY <2>1, <2>2 DEF ObservedOf, Reported, Settled
<1>13. CASE safeRecordCall(c)
  <2>1. /\ m["RecordCall"] = n["RecordCall"] + 1
        /\ \A x \in {"OnRejectedCall", "AfterCall", "upstream"} : m[x] = n[x]
    BY <1>13, FireCounts DEF Events, safeRecordCall
  <2>2. pc[c] = "record" /\ pc'[c] = "done" /\ err' = err
    BY <1>13 DEF safeRecordCall, goto, TypeOK, holdVars
  <2> QED BY <2>1, <2>2 DEF ObservedOf, Reported, Settled
<1> QED
  BY <1>1, <1>2, <1>3, <1>4, <1>5, <1>6, <1>7, <1>8, <1>9, <1>10, <1>11, <1>12, <1>13
  DEF Own, CallTool

\* A call that is settled stays so, with the same outcome.
LEMMA SettledStays ==
    ASSUME TypeOK, NEW c \in Calls, pc[c] \in Settled,
           Own(c)
    PROVE  /\ pc'[c] \in Settled
           /\ req' = req /\ scope' = scope /\ snap' = snap
           /\ result' = result /\ err' = err
           /\ \A e \in Events \ {"AfterCall", "RecordCall"} : fired'[c][e] = fired[c][e]
           /\ cache' = cache
<1>1. runAfterCall(c) \/ safeRecordCall(c)
  BY DEF Own, CallTool, Settled, deadlinePasses, Begin, ViewCallTool, lookupServer, snapshotEntry,
     beforeContinues, beforeAborts, beforeShortCircuits, cacheHits, dispatches,
     upstreamAnswers, upstreamFails, upstreamTimesOut, reportsFailure, transformContinues,
     transformAborts, stores, fireRejected
<1>2. fire(c, "AfterCall") \/ fire(c, "RecordCall")
  BY <1>1 DEF runAfterCall, safeRecordCall
<1>3. \A e \in Events \ {"AfterCall", "RecordCall"} : fired'[c][e] = fired[c][e]
  BY <1>2, FireCounts, EventNames
<1> QED BY <1>1, <1>3 DEF runAfterCall, safeRecordCall, goto, TypeOK, Settled, holdVars

\* Each step is a call's own or leaves it as it is.
LEMMA OwnOrSame ==
    ASSUME TypeOK, NEW q \in Calls, [Next]_vars
    PROVE  Own(q) \/ Same(q)
BY OwnStep, OtherStep DEF Next, Own

\* What a settled call asked for, got and was allowed to keep is settled, too.
LEMMA SettledSame ==
    ASSUME TypeOK, NEW d \in Calls, pc[d] \in Settled, [Next]_vars
    PROVE  /\ pc'[d] \in Settled /\ snap'[d] = snap[d]
           /\ result'[d] = result[d] /\ err'[d] = err[d]
           /\ fired'[d]["upstream"] = fired[d]["upstream"]
           /\ About(d)' = About(d) /\ keyOf(d)' = keyOf(d)
<1>1. CASE Same(d)
  BY <1>1 DEF Same, About, keyOf
<1>2. CASE Own(d)
  <2>1. /\ pc'[d] \in Settled /\ req' = req /\ scope' = scope /\ snap' = snap
        /\ result' = result /\ err' = err
        /\ \A e \in Events \ {"AfterCall", "RecordCall"} : fired'[d][e] = fired[d][e]
    BY <1>2, SettledStays
  <2> QED BY <2>1, EventNames DEF About, keyOf
<1> QED BY <1>1, <1>2, OwnOrSame

\* What could be kept stays so.
LEMMA KeptStays ==
    ASSUME TypeOK, NEW d \in Calls, Kept(d), [Next]_vars
    PROVE  Kept(d)' /\ About(d)' = About(d) /\ keyOf(d)' = keyOf(d)
BY SettledSame DEF Kept

\* Calls with the same key ask the same question, if the key tells.
LEMMA SameKey ==
    ASSUME KeyTells, TypeOK, NEW c \in Calls, NEW d \in Calls,
           pc[c] # "new", pc[d] # "new", keyOf(c) = keyOf(d)
    PROVE  About(c) = About(d)
<1>1. req[c] \in Requests /\ req[d] \in Requests /\ scope[c] \in Scopes /\ scope[d] \in Scopes
  BY DEF TypeOK
<1>2. /\ scope[c] = scope[d] /\ Ask(req[c]) = Ask(req[d])
      /\ canonicalJSON(finalArgs(req[c].server, req[c].args))
            = canonicalJSON(finalArgs(req[d].server, req[d].args))
  BY <1>1 DEF keyOf, KeyTells, Tells
<1>3. req[c].server = req[d].server /\ req[c].tool = req[d].tool
  BY <1>2 DEF Ask
<1> QED BY <1>2, <1>3 DEF About

\* A hit is the transformed answer another call with the same key got.
LEMMA HitIsKept ==
    ASSUME IInv, NEW c \in Calls, cacheHits(c)
    PROVE  /\ result'[c].of = "upstream" /\ ~result'[c].isError
           /\ result'[c].passed = TransformHooks
           /\ KeyTells => result'[c].about = About(c)
           /\ ~snap[c].info.Destructive
           /\ \E d \in Calls \ {c} : Kept(d) /\ keyOf(d) = keyOf(c)
<1>1. /\ pc[c] = "before" /\ keyOf(c) \in DOMAIN cache /\ usesCache(c)
      /\ result'[c] = cache[keyOf(c)]
  BY DEF cacheHits, IInv, TypeOK
<1>2. EntryOf(keyOf(c))
  BY <1>1 DEF IInv
<1>3. PICK d \in Calls : Kept(d) /\ keyOf(d) = keyOf(c) /\ cache[keyOf(c)].about = About(d)
  BY <1>2 DEF EntryOf
<1>4. d # c /\ pc[d] # "new"
  BY <1>1, <1>3 DEF Kept, Settled
<1>5. KeyTells => About(d) = About(c)
  BY <1>1, <1>3, <1>4, SameKey DEF IInv
<1>6. ~snap[c].info.Destructive
  BY <1>1 DEF usesCache, isCacheable
<1> QED BY <1>1, <1>2, <1>3, <1>4, <1>5, <1>6 DEF EntryOf

\* A step of a call keeps its result the answer to its question, with every
\* transformation that is due.
LEMMA ResultStep ==
    ASSUME IInv, NEW c \in Calls, Own(c)
    PROVE  ResultOf(c)'
<1>0. TypeOK /\ ObservedOf(c) /\ ResultOf(c)
  BY DEF IInv
<1>1. ASSUME NEW r \in Requests, Begin(c, r) PROVE ResultOf(c)'
  <2>1. pc[c] = "new" /\ pc'[c] = "lookup" /\ result' = result
    BY <1>0, <1>1 DEF Begin, goto, TypeOK
  <2> QED BY <1>0, <2>1 DEF ResultOf, Settled
<1>2. CASE deadlinePasses(c)
  <2>1. UNCHANGED <<pc, req, scope, hook, result, err>>
    BY <1>2 DEF deadlinePasses
  <2> QED BY <1>0, <2>1 DEF ResultOf, About
<1>3. CASE ViewCallTool(c) \/ fireRejected(c)
  <2>1. pc'[c] \in Settled /\ err'[c] # "nil"
    BY <1>0, <1>3 DEF ViewCallTool, fireRejected, goto, TypeOK, ObservedOf, holdVars, Settled
  <2> QED BY <2>1 DEF ResultOf, Settled
<1>4. CASE \/ lookupServer(c) \/ snapshotEntry(c) \/ beforeContinues(c) \/ beforeAborts(c)
  <2>1. /\ pc[c] \in {"lookup", "snapshot", "before"} /\ result' = result
        /\ pc'[c] \in {"snapshot", "before", "reject"}
    BY <1>0, <1>4 DEF lookupServer, snapshotEntry, beforeContinues, beforeAborts, goto, TypeOK
  <2> QED BY <1>0, <2>1 DEF ResultOf, Settled
<1>5. CASE beforeShortCircuits(c)
  <2>1. pc'[c] = "after" /\ result'[c].of = "hook"
    BY <1>0, <1>5 DEF beforeShortCircuits, goto, TypeOK, Result
  <2> QED BY <2>1 DEF ResultOf
<1>6. CASE cacheHits(c)
  <2>1. pc'[c] = "after" /\ UNCHANGED <<req, scope>>
    BY <1>0, <1>6 DEF cacheHits, goto, TypeOK
  <2> QED BY <1>6, <2>1, HitIsKept DEF ResultOf, About
<1>7. CASE dispatches(c) \/ upstreamFails(c) \/ upstreamTimesOut(c)
  <2>1. pc'[c] \in {"upstream", "failed"}
    BY <1>0, <1>7 DEF dispatches, upstreamFails, upstreamTimesOut, goto, TypeOK
  <2> QED BY <2>1 DEF ResultOf, Settled
<1>8. CASE upstreamAnswers(c)
  <2>1. /\ pc'[c] = "transform" /\ hook'[c] = 0 /\ UNCHANGED <<req, scope>>
        /\ \E e \in BOOLEAN : result'[c] = buildResult(c, e)
    BY <1>0, <1>8 DEF upstreamAnswers, goto, TypeOK
  <2>2. 0 <= TransformHooks
    BY CallPathAssumption
  <2> QED BY <2>1, <2>2 DEF ResultOf, Settled, buildResult, Result, About
<1>9. CASE reportsFailure(c) \/ transformAborts(c)
  <2>1. pc'[c] = "after" /\ err'[c] # "nil"
    BY <1>0, <1>9 DEF reportsFailure, transformAborts, goto, TypeOK
  <2> QED BY <2>1 DEF ResultOf
<1>10. CASE transformContinues(c)
  <2>1. PICK e \in BOOLEAN :
           result' = [result EXCEPT ![c].isError = e, ![c].passed = @ + 1]
    BY <1>10 DEF transformContinues
  <2>2. result[c] \in Results
    BY <1>0 DEF TypeOK
  <2>3. /\ result'[c].of = result[c].of /\ result'[c].about = result[c].about
        /\ result'[c].passed = result[c].passed + 1
    BY <1>0, <2>1, <2>2 DEF TypeOK, Results
  <2>4. /\ pc[c] = "transform" /\ pc' = pc /\ hook[c] < TransformHooks
        /\ hook'[c] = hook[c] + 1 /\ UNCHANGED <<req, scope>>
    BY <1>0, <1>10 DEF transformContinues, TypeOK, hookUnchanged
  <2>5. hook[c] \in Nat /\ TransformHooks \in Nat
    BY <1>0, CallPathAssumption DEF TypeOK
  <2>6. hook[c] + 1 <= TransformHooks
    BY <2>4, <2>5
  <2> QED BY <1>0, <2>3, <2>4, <2>6 DEF ResultOf, About, Settled
<1>11. CASE stores(c)
  <2>1. /\ pc[c] = "transform" /\ pc'[c] = "after" /\ hook[c] = TransformHooks
        /\ UNCHANGED holdVars
    BY <1>0, <1>11 DEF stores, goto, TypeOK
  <2> QED BY <1>0, <2>1 DEF ResultOf, About, holdVars
<1>12. CASE runAfterCall(c) \/ safeRecordCall(c)
  <2>1. pc[c] \in Settled /\ pc'[c] \in Settled /\ UNCHANGED holdVars
    BY <1>0, <1>12 DEF runAfterCall, safeRecordCall, goto, TypeOK, Settled
  <2> QED BY <1>0, <2>1 DEF ResultOf, About, holdVars, Settled
<1> QED
  BY <1>1, <1>2, <1>3, <1>4, <1>5, <1>6, <1>7, <1>8, <1>9, <1>10, <1>11, <1>12
  DEF Own, CallTool

\* The cached results stay, but for one that is forgotten or stored anew.
LEMMA CacheStep ==
    ASSUME [Next]_vars, NEW k \in DOMAIN cache'
    PROVE  \/ k \in DOMAIN cache /\ cache'[k] = cache[k]
           \/ \E c \in Calls : stores(c) /\ keeps(c) /\ k = keyOf(c) /\ cache'[k] = result[c]
<1>1. ASSUME NEW c \in Calls, stores(c)
      PROVE  \/ k \in DOMAIN cache /\ cache'[k] = cache[k]
             \/ stores(c) /\ keeps(c) /\ k = keyOf(c) /\ cache'[k] = result[c]
  BY <1>1 DEF stores
<1>2. ASSUME NEW c \in Calls, Own(c), ~stores(c) PROVE cache' = cache
  BY <1>2 DEF Own, CallTool, Begin, deadlinePasses, ViewCallTool, lookupServer,
      snapshotEntry, beforeContinues, beforeAborts, beforeShortCircuits, cacheHits, dispatches,
      upstreamAnswers, upstreamFails, upstreamTimesOut, reportsFailure, transformContinues,
      transformAborts, fireRejected, runAfterCall, safeRecordCall, hookUnchanged
<1>3. CASE CacheForgets
  BY <1>3 DEF CacheForgets
<1>4. CASE \/ \E s \in Servers : \/ ServerGained(s) \/ ServerLost(s) \/ ToolsRefreshed(s)
                                \/ FallsSilent(s) \/ AnswersAgain(s)
           \/ Close \/ CloseReturns \/ UNCHANGED vars
  BY <1>4 DEF ServerGained, ServerLost, ToolsRefreshed, FallsSilent, AnswersAgain,
        Close, CloseReturns, envUnchanged, vars
<1> QED BY <1>1, <1>2, <1>3, <1>4 DEF Next, Own

\* Every step leaves in the cache only answers of calls that are over.
LEMMA EntryStep ==
    ASSUME IInv, [Next]_vars, NEW k \in DOMAIN cache'
    PROVE  EntryOf(k)'
<1>0. TypeOK
  BY DEF IInv
<1>1. CASE k \in DOMAIN cache /\ cache'[k] = cache[k]
  <2>1. EntryOf(k)
    BY <1>1 DEF IInv
  <2>2. PICK d \in Calls : Kept(d) /\ keyOf(d) = k /\ cache[k].about = About(d)
    BY <2>1 DEF EntryOf
  <2>3. Kept(d)' /\ keyOf(d)' = k /\ cache'[k].about = About(d)'
    BY <1>0, <1>1, <2>2, KeptStays
  <2> QED BY <1>1, <2>1, <2>3 DEF EntryOf
<1>2. ASSUME NEW c \in Calls, stores(c), keeps(c), k = keyOf(c), cache'[k] = result[c]
      PROVE  EntryOf(k)'
  <2>1. /\ pc[c] = "transform" /\ pc'[c] = "after" /\ hook[c] = TransformHooks
        /\ UNCHANGED <<holdVars, fired>>
    BY <1>0, <1>2 DEF stores, goto, TypeOK
  <2>2. fired[c]["upstream"] = 1 /\ result[c].of = "upstream" /\ result[c].about = About(c)
            /\ result[c].passed = TransformHooks
    BY <2>1 DEF IInv, ObservedOf, ResultOf
  <2>3. ~result[c].isError /\ toolTTL(snap[c].info) = "some"
    BY <1>2 DEF keeps
  <2>4. Kept(c)' /\ keyOf(c)' = k /\ About(c)' = About(c)
    BY <1>2, <2>1, <2>2, <2>3 DEF Kept, keyOf, About, holdVars, Settled
  <2> QED BY <1>2, <2>2, <2>3, <2>4 DEF EntryOf
<1> QED BY <1>1, <1>2, CacheStep

\* What was served from the cache keeps its origin, and a hit has one.
LEMMA ServedStep ==
    ASSUME IInv, [Next]_vars, NEW c \in Calls
    PROVE  ServedOf(c)'
<1>0. TypeOK /\ ObservedOf(c) /\ ResultOf(c) /\ ServedOf(c)
  BY DEF IInv
<1>1. CASE pc[c] \in Settled
  <2>1. /\ snap'[c] = snap[c] /\ result'[c] = result[c] /\ err'[c] = err[c]
        /\ fired'[c]["upstream"] = fired[c]["upstream"] /\ keyOf(c)' = keyOf(c)
    BY <1>0, <1>1, SettledSame
  <2>2. ASSUME NEW d \in Calls \ {c}, Kept(d), keyOf(d) = keyOf(c)
        PROVE  Kept(d)' /\ keyOf(d)' = keyOf(c)'
    BY <1>0, <2>1, <2>2, KeptStays
  <2> QED BY <1>0, <1>1, <2>1, <2>2 DEF ServedOf
<1>2. CASE Same(c) /\ pc[c] \notin Settled
  BY <1>2 DEF ServedOf, Same
<1>3. CASE cacheHits(c)
  <2>1. /\ snap' = snap /\ keyOf(c)' = keyOf(c)
    BY <1>3 DEF cacheHits, keyOf
  <2>2. PICK d \in Calls \ {c} : Kept(d) /\ keyOf(d) = keyOf(c)
    BY <1>3, HitIsKept
  <2>3. Kept(d)' /\ keyOf(d)' = keyOf(c)'
    BY <1>0, <2>1, <2>2, KeptStays
  <2>4. ~result'[c].isError /\ ~snap'[c].info.Destructive
    BY <1>3, <2>1, HitIsKept
  <2> QED BY <2>3, <2>4 DEF ServedOf
<1>4. CASE ViewCallTool(c) \/ fireRejected(c) \/ reportsFailure(c) \/ transformAborts(c)
  <2>1. err'[c] # "nil"
    BY <1>0, <1>4 DEF ViewCallTool, fireRejected, reportsFailure, transformAborts, TypeOK,
        ObservedOf, holdVars
  <2> QED BY <2>1 DEF ServedOf
<1>5. CASE beforeShortCircuits(c)
  <2>1. result'[c].of = "hook"
    BY <1>0, <1>5 DEF beforeShortCircuits, TypeOK, Result
  <2> QED BY <2>1 DEF ServedOf
<1>6. CASE stores(c)
  <2>1. fired'[c]["upstream"] = 1
    BY <1>0, <1>6 DEF stores, ObservedOf
  <2> QED BY <2>1 DEF ServedOf
<1>7. CASE \/ lookupServer(c) \/ snapshotEntry(c) \/ beforeContinues(c) \/ beforeAborts(c)
           \/ dispatches(c) \/ upstreamAnswers(c) \/ upstreamFails(c) \/ upstreamTimesOut(c)
           \/ transformContinues(c) \/ deadlinePasses(c)
  <2>1. pc'[c] \notin Settled
    BY <1>0, <1>7 DEF lookupServer, snapshotEntry, beforeContinues, beforeAborts, dispatches,
        upstreamAnswers, upstreamFails, upstreamTimesOut, transformContinues, deadlinePasses,
        goto, TypeOK, Settled
  <2> QED BY <2>1 DEF ServedOf
<1>8. ASSUME NEW r \in Requests, Begin(c, r) PROVE ServedOf(c)'
  <2>1. pc'[c] = "lookup"
    BY <1>0, <1>8 DEF Begin, goto, TypeOK
  <2> QED BY <2>1 DEF ServedOf, Settled
<1>9. CASE runAfterCall(c) \/ safeRecordCall(c)
  BY <1>1, <1>9 DEF runAfterCall, safeRecordCall, Settled
<1>10. Own(c) \/ Same(c)
  BY <1>0, OwnOrSame
<1> QED
  BY <1>1, <1>2, <1>3, <1>4, <1>5, <1>6, <1>7, <1>8, <1>9, <1>10 DEF Own, CallTool

-----------------------------------------------------------------------------
(* The theorems *)

\* The inductive invariant holds initially.
LEMMA InitIInv == Init => IInv
<1> SUFFICES ASSUME Init PROVE IInv
  OBVIOUS
<1>1. nil \in Results
  <2>1. <<>> \in Abouts
    BY DEF Abouts
  <2> QED BY <2>1 DEF nil, Result, Results
<1>2. TypeOK
  BY <1>1 DEF Init, TypeOK, Locations, Errors
<1>3. ASSUME NEW c \in Calls PROVE ObservedOf(c) /\ ResultOf(c) /\ ServedOf(c)
  <2>1. /\ pc[c] = "new" /\ err[c] = "nil" /\ result[c].of = "nil"
        /\ \A e \in Events : fired[c][e] = 0
    BY DEF Init, nil, Result
  <2> QED BY <2>1, EventNames DEF ObservedOf, Reported, ResultOf, ServedOf, Settled
<1>4. DOMAIN cache = {}
  BY DEF Init
<1> QED BY <1>2, <1>3, <1>4 DEF IInv

\* ... and every step preserves it.
LEMMA NextIInv == IInv /\ [Next]_vars => IInv'
<1> SUFFICES ASSUME IInv, [Next]_vars PROVE IInv'
  OBVIOUS
<1>1. TypeOK
  BY DEF IInv
<1>2. TypeOK'
  BY <1>1, TypeStep
<1>3. ASSUME NEW c \in Calls PROVE ObservedOf(c)' /\ ResultOf(c)'
  <2>1. ObservedOf(c) /\ ResultOf(c)
    BY DEF IInv
  <2>2. CASE Own(c)
    BY <1>1, <2>1, <2>2, ObservedStep, ResultStep
  <2>3. CASE Same(c)
    BY <2>1, <2>3 DEF Same, ObservedOf, Reported, ResultOf, About
  <2> QED BY <1>1, <2>2, <2>3, OwnOrSame
<1>4. \A c \in Calls : ServedOf(c)'
  BY ServedStep
<1>5. \A k \in DOMAIN cache' : EntryOf(k)'
  BY EntryStep
<1> QED BY <1>2, <1>3, <1>4, <1>5 DEF IInv

\* The invariant that the rest follows from: who has been told of each call,
\* whose question its result answers and where every cached result came from.
THEOREM InductiveInvariant == Spec => []IInv
BY InitIInv, NextIInv, PTL DEF Spec

\* However calls, hooks and entries interleave, AfterCall is told of every call
\* that reaches the multiplexer exactly once before it returns.
THEOREM ObservedOnceHolds == Spec => []ObservedOnce
<1>1. IInv => ObservedOnce
  <2> SUFFICES ASSUME IInv, NEW c \in Calls
               PROVE  /\ fired[c]["AfterCall"] <= 1
                      /\ fired[c]["RecordCall"] <= fired[c]["AfterCall"]
                      /\ pc[c] = "done" /\ ~req[c].view => fired[c]["AfterCall"] = 1
    BY DEF ObservedOnce
  <2>1. ObservedOf(c) /\ pc[c] \in Locations
    BY DEF IInv, TypeOK
  <2> QED BY <2>1 DEF ObservedOf
<1> QED BY <1>1, InductiveInvariant, PTL

\* OnRejectedCall is told of exactly the calls that fail without going upstream,
\* and before AfterCall is.
THEOREM RejectedIsReportedHolds == Spec => []RejectedIsReported
<1>1. IInv => RejectedIsReported
  <2> SUFFICES ASSUME IInv, NEW c \in Calls, fired[c]["AfterCall"] = 1
               PROVE  Reported(c)
    BY DEF RejectedIsReported, Reported
  <2>1. ObservedOf(c)
    BY DEF IInv
  <2> QED BY <2>1 DEF ObservedOf
<1> QED BY <1>1, InductiveInvariant, PTL

\* After AfterCall, no hook and no upstream call follows and the outcome stands.
THEOREM AfterCallIsLastHolds == Spec => AfterCallIsLast
<1> DEFINE Stands(c) ==
             /\ <<result[c], err[c]>>' = <<result[c], err[c]>>
             /\ \A e \in Events \ {"RecordCall"} : fired'[c][e] = fired[c][e]
<1>1. IInv /\ [Next]_vars
        => [\A c \in Calls : fired[c]["AfterCall"] = 1 => Stands(c)]_vars
  <2> SUFFICES ASSUME IInv, [Next]_vars, NEW c \in Calls, fired[c]["AfterCall"] = 1
               PROVE  Stands(c)
    OBVIOUS
  <2>1. TypeOK /\ ObservedOf(c)
    BY DEF IInv
  <2>2. pc[c] \in {"record", "done"}
    BY <2>1 DEF ObservedOf
  <2>3. CASE Same(c)
    BY <2>3 DEF Same
  <2>4. CASE Own(c)
    <3>1. safeRecordCall(c)
      BY <2>2, <2>4 DEF Own, CallTool, deadlinePasses, Begin, ViewCallTool, lookupServer,
         snapshotEntry, beforeContinues, beforeAborts, beforeShortCircuits, cacheHits,
         dispatches, upstreamAnswers, upstreamFails, upstreamTimesOut, reportsFailure,
         transformContinues, transformAborts, stores, fireRejected, runAfterCall
    <3>2. fire(c, "RecordCall") /\ UNCHANGED holdVars
      BY <3>1 DEF safeRecordCall
    <3>3. \A e \in Events \ {"RecordCall"} : fired'[c][e] = fired[c][e]
      BY <2>1, <3>2, FireCounts, EventNames
    <3> QED BY <3>2, <3>3 DEF holdVars
  <2> QED BY <2>1, <2>3, <2>4, OwnOrSame
<1> QED BY <1>1, InductiveInvariant, PTL DEF Spec, AfterCallIsLast

\* If the cache key tells calls apart, a caller gets the answer to its own
\* question, from upstream or the cache.
THEOREM ResultIsOwnHolds == Spec => []ResultIsOwn
<1>1. IInv => ResultIsOwn
  BY DEF IInv, ResultIsOwn, ResultOf, Returned, Settled, nil, Result
<1> QED BY <1>1, InductiveInvariant, PTL

\* Whatever the key, it is a result that went through every ResultTransform
\* hook ...
THEOREM ResultIsTransformedHolds == Spec => []ResultIsTransformed
<1>1. IInv => ResultIsTransformed
  BY DEF IInv, ResultIsTransformed, ResultOf, Returned, Settled, nil, Result
<1> QED BY <1>1, InductiveInvariant, PTL

\* ... and from the cache only what another call was allowed to keep.
THEOREM OnlyKeptIsServedHolds == Spec => []OnlyKeptIsServed
<1>1. IInv => OnlyKeptIsServed
  <2> SUFFICES ASSUME IInv, NEW c \in Calls, pc[c] = "done", Returned(c).of = "upstream",
                      fired[c]["upstream"] = 0
               PROVE  /\ ~result[c].isError
                      /\ ~snap[c].info.Destructive
                      /\ \E d \in Calls \ {c} :
                              /\ fired[d]["upstream"] = 1
                              /\ keyOf(d) = keyOf(c)
                              /\ toolTTL(snap[d].info) = "some"
    BY DEF OnlyKeptIsServed
  <2>1. err[c] = "nil" /\ result[c].of = "upstream"
    BY DEF Returned, nil, Result
  <2>2. ServedOf(c)
    BY DEF IInv
  <2> QED BY <2>1, <2>2 DEF ServedOf, Kept, Settled
<1> QED BY <1>1, InductiveInvariant, PTL

-----------------------------------------------------------------------------
(* What the default key tells *)

Join(x, y, z, w) == x \o y \o z \o w

Short(x, y, z) == Len(x) = 1 /\ Len(y) = 1 /\ Len(z) = 1

Rest(k, w) == Len(k) = 3 + Len(w) /\ \A i \in 1..Len(w) : k[3 + i] = w[i]

Shape(k, x, y, z, w) == k[1] = x[1] /\ k[2] = y[1] /\ k[3] = z[1] /\ Rest(k, w)

\* Where the parts of a join are.
LEMMA JoinShape ==
    ASSUME NEW S, NEW x \in Seq(S), NEW y \in Seq(S), NEW z \in Seq(S), NEW w \in Seq(S),
           NEW k, k = Join(x, y, z, w)
    PROVE  Short(x, y, z) => Shape(k, x, y, z, w)
<1> DEFINE n == Len(x)
           m == Len(y)
           l == Len(z)
<1>1. /\ Len(k) = n + m + l + Len(w)
      /\ \A i \in 1..n : k[i] = x[i]
      /\ \A i \in 1..m : k[n + i] = y[i]
      /\ \A i \in 1..l : k[n + m + i] = z[i]
      /\ \A i \in 1..Len(w) : k[n + m + l + i] = w[i]
  BY DEF Join
<1> HIDE DEF n, m, l
<1>2. ASSUME n = 1, m = 1, l = 1
      PROVE  Shape(k, x, y, z, w)
  <2>1. 1 \in 1..n /\ 1 \in 1..m /\ 1 \in 1..l
    BY <1>2
  <2>2. k[1] = x[1] /\ k[n + 1] = y[1] /\ k[n + m + 1] = z[1]
    BY <1>1, <2>1
  <2>3. n + 1 = 2 /\ n + m + 1 = 3 /\ n + m + l = 3
    BY <1>2
  <2>4. k[1] = x[1] /\ k[2] = y[1] /\ k[3] = z[1]
    BY <2>2, <2>3
  <2>5. Len(k) = 3 + Len(w) /\ \A i \in 1..Len(w) : k[3 + i] = w[i]
    BY <1>1, <2>3
  <2> QED BY <2>4, <2>5 DEF Shape, Rest
<1> QED BY <1>2 DEF n, m, l, Short

\* Sequences of length one with the same element are the same, ...
LEMMA SameOne ==
    ASSUME NEW S, NEW s \in Seq(S), NEW t \in Seq(S)
    PROVE  Len(s) = 1 /\ Len(t) = 1 /\ s[1] = t[1] => s = t
<1>1. Len(s) = Len(t) /\ (\A i \in 1..Len(s) : s[i] = t[i]) => s = t
  BY SeqEqual
<1>2. \A i \in 1..1 : i = 1
  OBVIOUS
<1> QED BY <1>1, <1>2, Zenon

\* ... and so are two ends of a sequence that begin at the same place.
LEMMA SameEnd ==
    ASSUME NEW S, NEW s \in Seq(S), NEW t \in Seq(S), NEW k, Rest(k, s), Rest(k, t)
    PROVE  s = t
<1>1. Len(s) = Len(t) /\ (\A i \in 1..Len(s) : s[i] = t[i]) => s = t
  BY SeqEqual
<1>2. Len(s) \in Nat /\ Len(t) \in Nat
  OBVIOUS
<1>3. Len(s) = Len(t)
  BY <1>2 DEF Rest
<1> QED BY <1>1, <1>3 DEF Rest

\* If texts are told apart by their parts and no scope and no name of a server
\* or a tool has a bar in it, the default key tells calls apart, whatever bars
\* the arguments have (cache.go).
THEOREM DefaultKeyTells ==
    ASSUME NEW Texts, NEW Bare \in SUBSET Texts, NEW Piece,
           \A x \in Texts : Parts(x) \in Seq(Piece),
           \A x, y \in Texts : Parts(x) = Parts(y) => x = y,
           \A x \in Bare : Len(Parts(x)) = 1,
           Scopes \subseteq Bare,
           \A r \in Requests :
                /\ r.server \in Bare /\ r.tool \in Bare
                /\ canonicalJSON(finalArgs(r.server, r.args)) \in Texts
    PROVE  Tells(defaultCacheKey)
<1> SUFFICES ASSUME NEW r1 \in Requests, NEW r2 \in Requests, NEW s1 \in Scopes, NEW s2 \in Scopes,
                    defaultCacheKey(s1, r1.server, r1.tool, finalArgs(r1.server, r1.args))
                        = defaultCacheKey(s2, r2.server, r2.tool, finalArgs(r2.server, r2.args))
             PROVE  /\ s1 = s2 /\ Ask(r1) = Ask(r2)
                    /\ canonicalJSON(finalArgs(r1.server, r1.args))
                         = canonicalJSON(finalArgs(r2.server, r2.args))
  BY DEF Tells
<1> DEFINE a1 == finalArgs(r1.server, r1.args)
           a2 == finalArgs(r2.server, r2.args)
           v1 == r1.server
           v2 == r2.server
           t1 == r1.tool
           t2 == r2.tool
           w1 == Parts(canonicalJSON(a1))
           w2 == Parts(canonicalJSON(a2))
           k  == defaultCacheKey(s1, v1, t1, a1)
<1>1. /\ s1 \in Bare /\ v1 \in Bare /\ t1 \in Bare /\ canonicalJSON(a1) \in Texts
      /\ s2 \in Bare /\ v2 \in Bare /\ t2 \in Bare /\ canonicalJSON(a2) \in Texts
      /\ defaultCacheKey(s1, v1, t1, a1) = defaultCacheKey(s2, v2, t2, a2)
  OBVIOUS
<1>2. s1 = s2 /\ v1 = v2 /\ t1 = t2 /\ canonicalJSON(a1) = canonicalJSON(a2)
  <2> HIDE DEF a1, a2, v1, v2, t1, t2
  <2>1. /\ Parts(s1) \in Seq(Piece) /\ Parts(v1) \in Seq(Piece) /\ Parts(t1) \in Seq(Piece)
        /\ Parts(s2) \in Seq(Piece) /\ Parts(v2) \in Seq(Piece) /\ Parts(t2) \in Seq(Piece)
        /\ w1 \in Seq(Piece) /\ w2 \in Seq(Piece)
    BY <1>1
  <2>2. /\ Short(Parts(s1), Parts(v1), Parts(t1))
        /\ Short(Parts(s2), Parts(v2), Parts(t2))
    BY <1>1 DEF Short
  <2>3. /\ k = Join(Parts(s1), Parts(v1), Parts(t1), w1)
        /\ k = Join(Parts(s2), Parts(v2), Parts(t2), w2)
    BY <1>1 DEF defaultCacheKey, Join
  <2> HIDE DEF w1, w2, k
  <2>4. Shape(k, Parts(s1), Parts(v1), Parts(t1), w1)
    BY <2>1, <2>2, <2>3, JoinShape
  <2>5. Shape(k, Parts(s2), Parts(v2), Parts(t2), w2)
    BY <2>1, <2>2, <2>3, JoinShape
  <2>6. w1 = w2
    BY <2>1, <2>4, <2>5, SameEnd DEF Shape
  <2>7. /\ Parts(s1)[1] = Parts(s2)[1]
        /\ Parts(v1)[1] = Parts(v2)[1]
        /\ Parts(t1)[1] = Parts(t2)[1]
    BY <2>4, <2>5 DEF Shape
  <2>8. Parts(s1) = Parts(s2)
    BY <2>1, <2>2, <2>7, SameOne DEF Short
  <2>9. Parts(v1) = Parts(v2)
    BY <2>1, <2>2, <2>7, SameOne DEF Short
  <2>10. Parts(t1) = Parts(t2)
    BY <2>1, <2>2, <2>7, SameOne DEF Short
  <2> QED BY <1>1, <2>6, <2>8, <2>9, <2>10 DEF w1, w2
<1> QED BY <1>2 DEF Ask
=============================================================================
