-------------------------- MODULE HttpClientProofs --------------------------
(***************************************************************************)
(* Proofs about HttpClient, for any number of requests and retries, any    *)
(* auth blocks and any credentials.                                        *)
(***************************************************************************)
EXTENDS HttpClient, SequenceTheorems, TLAPS

-----------------------------------------------------------------------------
(* The inductive invariant *)

Locations == {"new", "auth", "send", "sent", "served", "check", "backoff", "done"}

\* What can be in the headers of a request: nothing, or what an AuthFunc sets.
Headers ==
    {{}} \cup (UNION {Bearer(b) : b \in AuthBlocks})
         \cup (UNION {HeaderToken(b) : b \in AuthBlocks}) \cup Credentials

TypeOK ==
    /\ auth \in {NoAuth} \cup {{b} : b \in AuthBlocks}
    /\ authFunc \in {"Bearer", "HeaderToken", "custom"}
    /\ credential \in Credentials
    /\ pc \in [Requests -> Locations]
    /\ ctx \in [Requests -> {"live", "done"}]
    /\ header \in [Requests -> Headers]
    /\ fnCalls \in [Requests -> Nat]
    /\ denied \in [Requests -> BOOLEAN]
    /\ attempt \in [Requests -> Nat]
    /\ answer \in [Requests -> Answers]
    /\ late \in [Requests -> Nat]
    /\ received \in [Requests -> Seq(Headers)]
    /\ err \in [Requests -> {"nil", "auth", "ctx", "gave up"}]

\* The headers an AuthFunc has let through.
Passed(headers) == authFunc # "custom" => Usable(headers)

\* The AuthFunc has not run before "auth" is left, and nothing goes on from
\* there without its consent and what it gave.
AuthOf(r) ==
    /\ pc[r] = "auth" => auth # NoAuth
    /\ auth = NoAuth => fnCalls[r] = 0
    /\ pc[r] # "done" => ~denied[r]
    /\ pc[r] \notin {"new", "auth", "done"} /\ auth # NoAuth =>
            fnCalls[r] > 0 /\ Passed(header[r])

\* Attempts are counted before a copy is sent, and only a request that is
\* still within the limit gets to "send".
AttemptsOf(r) ==
    /\ pc[r] \in {"new", "auth"} => attempt[r] = 0
    /\ pc[r] \in {"send", "backoff"} => attempt[r] <= RetryMax
    /\ attempt[r] <= RetryMax + 1

\* Copies that the server has: at most one per attempt, none yet of the one
\* under way, all with the same headers.
CopiesOf(r) ==
    /\ Len(received[r]) <= attempt[r]
    /\ pc[r] = "sent" => Len(received[r]) < attempt[r]
    /\ pc[r] = "served" => received[r] # <<>>
    /\ \A i \in DOMAIN received[r] : received[r][i] = header[r]
    /\ received[r] # <<>> => ~denied[r]
    /\ received[r] # <<>> /\ auth # NoAuth => fnCalls[r] > 0 /\ Passed(header[r])

\* What is known of the answer, and of a request that has returned.
AnswerOf(r) ==
    /\ answer[r] \in Final => pc[r] \in {"check", "done"}
    /\ pc[r] = "check" => answer[r] # "none"
    /\ pc[r] = "check" /\ answer[r] \in {"ok", "refused"} => received[r] # <<>>
    /\ pc[r] = "done" /\ err[r] = "nil" => received[r] # <<>>
    /\ err[r] # "nil" => pc[r] = "done"

\* An attempt begun too late is the last one.
LateOf(r) ==
    /\ late[r] <= 1
    /\ late[r] = 1 => ctx[r] = "done" /\ pc[r] \in {"check", "done"}

InvOf(r) == AuthOf(r) /\ AttemptsOf(r) /\ CopiesOf(r) /\ AnswerOf(r) /\ LateOf(r)

IInv == TypeOK /\ \A r \in Requests : InvOf(r)

-----------------------------------------------------------------------------
(* Lemmas *)

\* The name of the standard header is not empty.
LEMMA AuthorizationIsNotBlank == "Authorization" # Blank
BY Zenon DEF Blank

\* What an AuthFunc returns without an error is a header of the request, and what
\* the functions of package auth return is a usable one.
LEMMA AuthResultsUsable ==
    ASSUME TypeOK, NEW h \in AuthResults
    PROVE  h \in Headers /\ Passed(h)
<1> USE AuthorizationIsNotBlank
<1>0. (\A data \in auth : data \in AuthBlocks) /\ credential \in Credentials
  BY DEF TypeOK, NoAuth
<1>1. CASE authFunc = "Bearer"
  <2>1. PICK data \in auth : h \in Bearer(data)
    BY <1>1 DEF AuthResults
  <2>2. present(data, "token") /\ h = {<<"Authorization", data["token"]>>}
    BY <2>1 DEF Bearer
  <2>3. Usable(h)
    BY <2>2 DEF Usable, present
  <2> QED BY <1>0, <2>1, <2>3 DEF Headers, Passed
<1>2. CASE authFunc = "HeaderToken"
  <2>1. PICK data \in auth : h \in HeaderToken(data)
    BY <1>2 DEF AuthResults
  <2>2. /\ present(data, "tokenName") /\ present(data, "value")
        /\ h = {<<data["tokenName"], data["value"]>>}
    BY <2>1 DEF HeaderToken
  <2>3. Usable(h)
    BY <2>2 DEF Usable, present
  <2> QED BY <1>0, <2>1, <2>3 DEF Headers, Passed
<1>3. CASE authFunc = "custom"
  BY <1>0, <1>3 DEF AuthResults, Headers, Passed
<1> QED BY <1>1, <1>2, <1>3 DEF TypeOK

\* A request that a step does not touch keeps its part of the invariant.
LEMMA Untouched ==
    ASSUME NEW q \in Requests, InvOf(q), auth' = auth, authFunc' = authFunc,
           pc'[q] = pc[q], ctx'[q] = ctx[q], denied'[q] = denied[q],
           header'[q] = header[q], fnCalls'[q] = fnCalls[q], attempt'[q] = attempt[q],
           answer'[q] = answer[q], late'[q] = late[q], received'[q] = received[q],
           err'[q] = err[q]
    PROVE  InvOf(q)'
BY DEF InvOf, AuthOf, AttemptsOf, CopiesOf, AnswerOf, LateOf, Passed

\* A step of request r changes nothing that belongs to another request.
LEMMA OwnStep ==
    ASSUME IInv, NEW r \in Requests, RoundTrip(r) \/ Server(r) \/ ctxDone(r),
           NEW q \in Requests, q # r
    PROVE  InvOf(q)'
<1>1. /\ auth' = auth /\ authFunc' = authFunc /\ pc'[q] = pc[q] /\ ctx'[q] = ctx[q]
      /\ denied'[q] = denied[q]
      /\ header'[q] = header[q] /\ fnCalls'[q] = fnCalls[q] /\ attempt'[q] = attempt[q]
      /\ answer'[q] = answer[q] /\ late'[q] = late[q] /\ received'[q] = received[q]
      /\ err'[q] = err[q]
  BY DEF IInv, TypeOK, RoundTrip, Server, ctxDone, begins, authApplies, authFails, sends,
         returns, givesUp, backsOff, timerFires, backoffEnds, serverReceives, serverAnswers,
         connectionBreaks, cannotSend, goto, fails, attemptUnchanged, loopUnchanged, cfgVars
<1> QED BY <1>1, Untouched DEF IInv

\* The types, through every step of a request.
LEMMA TypeStep ==
    ASSUME IInv, NEW r \in Requests, RoundTrip(r) \/ Server(r) \/ ctxDone(r)
    PROVE  TypeOK'
<1>m. fnCalls[r] \in Nat /\ attempt[r] \in Nat /\ late[r] \in Nat
  BY DEF IInv, TypeOK
<1>n. fnCalls[r] + 1 \in Nat /\ attempt[r] + 1 \in Nat /\ late[r] + 1 \in Nat
  BY <1>m
<1> USE DEF IInv, TypeOK, Locations, Answers, Final, Hopeless, goto, fails, cfgVars
<1>1. CASE begins(r)
  BY <1>1 DEF begins
<1>2. CASE authApplies(r)
  <2>1. PICK h \in AuthResults : header' = [header EXCEPT ![r] = h]
    BY <1>2 DEF authApplies
  <2> QED BY <1>2, <1>n, <2>1, AuthResultsUsable DEF authApplies
<1>3. CASE authFails(r)
  BY <1>3, <1>n DEF authFails
<1>4. CASE sends(r)
  BY <1>4, <1>n DEF sends
<1>5. CASE returns(r) \/ givesUp(r) \/ backsOff(r) \/ timerFires(r) \/ backoffEnds(r)
  BY <1>5 DEF returns, givesUp, backsOff, timerFires, backoffEnds, loopUnchanged
<1>6. CASE serverReceives(r)
  <2>1. Append(received[r], header[r]) \in Seq(Headers)
    BY AppendProperties
  <2> QED BY <1>6, <2>1 DEF serverReceives, attemptUnchanged
<1>7. CASE serverAnswers(r) \/ connectionBreaks(r) \/ cannotSend(r)
  <2>1. CASE serverAnswers(r)
    BY <2>1 DEF serverAnswers, attemptUnchanged
  <2>2. CASE connectionBreaks(r)
    BY <2>2 DEF connectionBreaks, attemptUnchanged
  <2>3. CASE cannotSend(r)
    BY <2>3 DEF cannotSend, attemptUnchanged
  <2> QED BY <1>7, <2>1, <2>2, <2>3
<1>8. CASE ctxDone(r)
  BY <1>8 DEF ctxDone
<1> QED BY <1>1, <1>2, <1>3, <1>4, <1>5, <1>6, <1>7, <1>8 DEF RoundTrip, Server

\* Before the retry loop: the request is made and authenticated.
LEMMA AuthKeeps ==
    ASSUME IInv, NEW r \in Requests, begins(r) \/ authApplies(r) \/ authFails(r)
    PROVE  InvOf(r)'
<1> USE HttpClientAssumption
<1>i. InvOf(r) /\ fnCalls[r] \in Nat /\ attempt[r] \in Nat /\ Len(received[r]) \in Nat
  BY LenProperties DEF IInv, TypeOK
<1>e. Len(received[r]) = 0 => received[r] = <<>>
  BY EmptySeq DEF IInv, TypeOK
<1>1. CASE begins(r)
  <2>1. /\ pc[r] = "new" /\ pc'[r] = (IF auth = NoAuth THEN "send" ELSE "auth")
        /\ UNCHANGED <<auth, authFunc, ctx, header, fnCalls, denied, attempt, answer, late,
                       received, err>>
    BY <1>1 DEF begins, goto, cfgVars, IInv, TypeOK
  <2> QED BY <1>i, <1>e, <2>1
          DEF InvOf, AuthOf, AttemptsOf, CopiesOf, AnswerOf, LateOf, Passed
<1>2. CASE authApplies(r)
  <2>1. PICK h \in AuthResults : header' = [header EXCEPT ![r] = h]
    BY <1>2 DEF authApplies
  <2>2. /\ pc[r] = "auth" /\ pc'[r] = "send" /\ fnCalls'[r] = fnCalls[r] + 1 /\ header'[r] = h
        /\ UNCHANGED <<auth, authFunc, ctx, denied, attempt, answer, late, received, err>>
    BY <1>2, <2>1 DEF authApplies, goto, cfgVars, IInv, TypeOK
  <2>3. auth # NoAuth /\ attempt[r] = 0 /\ received[r] = <<>>
    BY <1>i, <1>e, <2>2 DEF InvOf, AuthOf, AttemptsOf, CopiesOf
  <2>4. Passed(h) /\ DOMAIN received[r] = {}
    BY <2>3, AuthResultsUsable DEF IInv
  <2> QED BY <1>i, <2>2, <2>3, <2>4
          DEF InvOf, AuthOf, AttemptsOf, CopiesOf, AnswerOf, LateOf, Passed
<1>3. CASE authFails(r)
  <2>1. /\ pc[r] = "auth" /\ pc'[r] = "done" /\ fnCalls'[r] = fnCalls[r] + 1
        /\ err'[r] = "auth" /\ denied'[r] = TRUE
        /\ UNCHANGED <<auth, authFunc, ctx, header, attempt, answer, late, received>>
    BY <1>3 DEF authFails, fails, goto, cfgVars, IInv, TypeOK
  <2> QED BY <1>i, <2>1
          DEF InvOf, AuthOf, AttemptsOf, CopiesOf, AnswerOf, LateOf, Passed
<1> QED BY <1>1, <1>2, <1>3

\* An attempt is begun, received, answered or lost.
LEMMA AttemptKeeps ==
    ASSUME IInv, NEW r \in Requests, sends(r) \/ Server(r)
    PROVE  InvOf(r)'
<1> USE HttpClientAssumption
<1>i. InvOf(r) /\ attempt[r] \in Nat /\ late[r] \in Nat /\ Len(received[r]) \in Nat
  BY LenProperties DEF IInv, TypeOK
<1>1. CASE sends(r)
  <2>1. /\ pc[r] = "send" /\ attempt'[r] = attempt[r] + 1
        /\ \/ /\ ctx[r] = "done" /\ pc'[r] = "check" /\ answer'[r] = "broken"
              /\ late'[r] = late[r] + 1
           \/ /\ ctx[r] # "done" /\ pc'[r] = "sent" /\ answer'[r] = "none" /\ late' = late
        /\ UNCHANGED <<auth, authFunc, ctx, header, fnCalls, denied, received, err>>
    BY <1>1 DEF sends, goto, cfgVars, IInv, TypeOK
  <2> QED BY <1>i, <2>1
          DEF InvOf, AuthOf, AttemptsOf, CopiesOf, AnswerOf, LateOf, Passed, Final, Hopeless
<1>2. CASE serverReceives(r)
  <2>1. /\ pc[r] = "sent" /\ pc'[r] = "served"
        /\ received'[r] = Append(received[r], header[r])
        /\ UNCHANGED <<auth, authFunc, ctx, header, fnCalls, denied, attempt, answer, late, err>>
    BY <1>2 DEF serverReceives, attemptUnchanged, goto, cfgVars, IInv, TypeOK
  <2>2. received[r] \in Seq(Headers) /\ header[r] \in Headers
    BY DEF IInv, TypeOK
  <2>3. /\ Len(received'[r]) = Len(received[r]) + 1 /\ received'[r] # <<>>
        /\ DOMAIN received'[r] = 1..(Len(received[r]) + 1)
        /\ \A i \in 1..Len(received[r]) : received'[r][i] = received[r][i]
        /\ received'[r][Len(received[r]) + 1] = header[r]
        /\ DOMAIN received[r] = 1..Len(received[r])
    BY <2>1, <2>2, AppendProperties, LenProperties
  <2>4. \A i \in DOMAIN received'[r] : received'[r][i] = header'[r]
    <3> SUFFICES ASSUME NEW i \in DOMAIN received'[r] PROVE received'[r][i] = header'[r]
      OBVIOUS
    <3>1. i \in 1..Len(received[r]) \/ i = Len(received[r]) + 1
      BY <1>i, <2>3
    <3> QED BY <1>i, <2>1, <2>3, <3>1 DEF InvOf, CopiesOf
  <2> QED BY <1>i, <2>1, <2>3, <2>4
          DEF InvOf, AuthOf, AttemptsOf, CopiesOf, AnswerOf, LateOf, Passed
<1>3. CASE serverAnswers(r) \/ connectionBreaks(r) \/ cannotSend(r)
  <2>1. /\ pc[r] \in {"sent", "served"} /\ pc'[r] = "check"
        /\ answer'[r] \in {"ok", "refused", "busy", "broken"} \cup Hopeless
        /\ answer'[r] \in {"ok", "refused"} => pc[r] = "served"
        /\ UNCHANGED <<auth, authFunc, ctx, header, fnCalls, denied, attempt, late, received, err>>
    <3>1. CASE serverAnswers(r)
      BY <3>1 DEF serverAnswers, attemptUnchanged, goto, cfgVars, IInv, TypeOK
    <3>2. CASE connectionBreaks(r)
      BY <3>2 DEF connectionBreaks, attemptUnchanged, goto, cfgVars, IInv, TypeOK
    <3>3. CASE cannotSend(r)
      BY <3>3 DEF cannotSend, Hopeless, attemptUnchanged, goto, cfgVars, IInv, TypeOK
    <3> QED BY <1>3, <3>1, <3>2, <3>3
  <2> QED BY <1>i, <2>1
          DEF InvOf, AuthOf, AttemptsOf, CopiesOf, AnswerOf, LateOf, Passed, Hopeless
<1> QED BY <1>1, <1>2, <1>3 DEF Server

\* After an attempt, and when the context is done.
LEMMA LoopKeeps ==
    ASSUME IInv, NEW r \in Requests,
           \/ returns(r) \/ givesUp(r) \/ backsOff(r) \/ timerFires(r) \/ backoffEnds(r)
           \/ ctxDone(r)
    PROVE  InvOf(r)'
<1> USE HttpClientAssumption
<1>i. InvOf(r) /\ attempt[r] \in Nat /\ late[r] \in Nat /\ Len(received[r]) \in Nat
  BY LenProperties DEF IInv, TypeOK
<1>c. ctx[r] \in {"live", "done"} /\ answer[r] \in Answers
  BY DEF IInv, TypeOK
<1>1. CASE returns(r)
  <2>1. /\ pc[r] = "check" /\ pc'[r] = "done"
        /\ \/ err'[r] # "nil"
           \/ /\ ctx[r] # "done" /\ answer[r] \notin Hopeless /\ ~shouldRetry(r)
              /\ err' = err
        /\ UNCHANGED <<auth, authFunc, ctx, header, fnCalls, denied, attempt, answer, late,
                       received>>
    BY <1>1 DEF returns, fails, loopUnchanged, goto, cfgVars, IInv, TypeOK
  <2>2. \/ err'[r] # "nil"
        \/ answer[r] \in {"ok", "refused"} /\ received[r] # <<>>
    BY <1>i, <1>c, <2>1 DEF shouldRetry, Final, Answers, InvOf, AnswerOf
  <2> QED BY <1>i, <2>1, <2>2
          DEF InvOf, AuthOf, AttemptsOf, CopiesOf, AnswerOf, LateOf, Passed
<1>2. CASE givesUp(r) \/ backoffEnds(r)
  <2>1. /\ pc[r] \in {"check", "backoff"} /\ pc'[r] = "done" /\ err'[r] # "nil"
        /\ UNCHANGED <<auth, authFunc, ctx, header, fnCalls, denied, attempt, answer, late,
                       received>>
    BY <1>2 DEF givesUp, backoffEnds, fails, loopUnchanged, goto, cfgVars, IInv, TypeOK
  <2> QED BY <1>i, <2>1
          DEF InvOf, AuthOf, AttemptsOf, CopiesOf, AnswerOf, LateOf, Passed
<1>3. CASE backsOff(r)
  <2>1. /\ pc[r] = "check" /\ shouldRetry(r) /\ attempt[r] <= RetryMax /\ pc'[r] = "backoff"
        /\ UNCHANGED <<auth, authFunc, ctx, header, fnCalls, denied, attempt, answer, late,
                       received, err>>
    BY <1>3 DEF backsOff, loopUnchanged, goto, cfgVars, IInv, TypeOK
  <2>2. ctx[r] = "live" /\ answer[r] \notin Final
    BY <2>1 DEF shouldRetry
  <2> QED BY <1>i, <2>1, <2>2
          DEF InvOf, AuthOf, AttemptsOf, CopiesOf, AnswerOf, LateOf, Passed
<1>4. CASE timerFires(r)
  <2>1. /\ pc[r] = "backoff" /\ pc'[r] = "send"
        /\ UNCHANGED <<auth, authFunc, ctx, header, fnCalls, denied, attempt, answer, late,
                       received, err>>
    BY <1>4 DEF timerFires, loopUnchanged, goto, cfgVars, IInv, TypeOK
  <2> QED BY <1>i, <2>1
          DEF InvOf, AuthOf, AttemptsOf, CopiesOf, AnswerOf, LateOf, Passed
<1>5. CASE ctxDone(r)
  <2>1. /\ ctx'[r] = "done"
        /\ UNCHANGED <<auth, authFunc, pc, header, fnCalls, denied, attempt, answer, late,
                       received, err>>
    BY <1>5 DEF ctxDone, cfgVars, IInv, TypeOK
  <2> QED BY <1>i, <2>1
          DEF InvOf, AuthOf, AttemptsOf, CopiesOf, AnswerOf, LateOf, Passed
<1> QED BY <1>1, <1>2, <1>3, <1>4, <1>5

-----------------------------------------------------------------------------
(* Theorems *)

\* Every step of the client, of the servers and of the callers keeps IInv.
LEMMA StepKeeps == ASSUME IInv, [Next]_vars PROVE IInv'
<1>1. ASSUME NEW r \in Requests, RoundTrip(r) \/ Server(r) \/ ctxDone(r) PROVE IInv'
  <2>1. InvOf(r)'
    BY <1>1, AuthKeeps, AttemptKeeps, LoopKeeps DEF RoundTrip
  <2>2. \A q \in Requests : InvOf(q)'
    BY <1>1, <2>1, OwnStep
  <2> QED BY <1>1, <2>2, TypeStep DEF IInv
<1>2. CASE Renew
  <2>1. /\ credential' \in Credentials
        /\ UNCHANGED <<auth, authFunc, pc, ctx, header, fnCalls, denied, attempt, answer, late,
                       received, err>>
    BY <1>2 DEF Renew, cfgVars
  <2>2. TypeOK'
    BY <2>1 DEF IInv, TypeOK
  <2>3. \A q \in Requests : InvOf(q)'
    BY <2>1, Untouched DEF IInv
  <2> QED BY <2>2, <2>3 DEF IInv
<1>3. CASE UNCHANGED vars
  <2>1. UNCHANGED <<auth, authFunc, credential, pc, ctx, header, fnCalls, denied, attempt, answer,
                    late, received, err>>
    BY <1>3 DEF vars, cfgVars
  <2>2. TypeOK'
    BY <2>1 DEF IInv, TypeOK
  <2>3. \A q \in Requests : InvOf(q)'
    BY <2>1, Untouched DEF IInv
  <2> QED BY <2>2, <2>3 DEF IInv
<1> QED BY <1>1, <1>2, <1>3 DEF Next

\* Where a request is determines what has been sent of it: the invariant from
\* which everything about authentication and retries follows.
THEOREM InductiveInvariant == Spec => []IInv
<1>1. Init => IInv
  <2> SUFFICES ASSUME Init PROVE IInv
    OBVIOUS
  <2>1. TypeOK
    BY EmptySeq DEF Init, TypeOK, Locations, Headers, Answers, Final, Hopeless
  <2>2. ASSUME NEW r \in Requests PROVE InvOf(r)
    BY HttpClientAssumption
       DEF Init, InvOf, AuthOf, AttemptsOf, CopiesOf, AnswerOf, LateOf, Passed, Final,
       Hopeless
  <2> QED BY <2>1, <2>2 DEF IInv
<1>2. IInv /\ [Next]_vars => IInv'
  BY StepKeeps
<1> QED BY <1>1, <1>2, PTL DEF Spec

\* Retries send a request at most RetryMax + 1 times, and a request that comes
\* back with an answer did reach the server.
THEOREM BoundedDeliveryHolds == Spec => []BoundedDelivery
<1>1. IInv => BoundedDelivery
  BY DEF IInv, InvOf, AttemptsOf, CopiesOf, AnswerOf, BoundedDelivery
<1> QED BY <1>1, InductiveInvariant, PTL

\* Nothing is sent for an AuthFunc that failed or has not run, whatever the auth
\* block and whatever a custom AuthFunc sets, and nothing without a credential past
\* auth.Bearer and auth.HeaderToken.
THEOREM AuthenticatedOrUnsentHolds == Spec => []AuthenticatedOrUnsent
<1>1. IInv => AuthenticatedOrUnsent
  <2> SUFFICES ASSUME IInv, NEW r \in Requests, received[r] # <<>>
               PROVE  AuthenticatedOrUnsent!(r)!2
    BY DEF AuthenticatedOrUnsent
  <2>1. CopiesOf(r) /\ AuthOf(r) /\ fnCalls[r] \in Nat
    BY DEF IInv, InvOf, TypeOK
  <2>2. ~denied[r] /\ (auth # NoAuth <=> fnCalls[r] > 0)
    BY <2>1 DEF CopiesOf, AuthOf
  <2>3. ASSUME auth # NoAuth, authFunc # "custom", NEW i \in DOMAIN received[r]
        PROVE  Usable(received[r][i])
    <3>1. received[r][i] = header[r] /\ Passed(header[r])
      BY <2>1, <2>3 DEF CopiesOf
    <3> QED BY <2>3, <3>1 DEF Passed
  <2> QED BY <2>2, <2>3
<1> QED BY <1>1, InductiveInvariant, PTL

\* After its context is done a request is attempted at most once more.
THEOREM QuietAfterDeadlineHolds == Spec => []QuietAfterDeadline
<1>1. IInv => QuietAfterDeadline
  BY DEF IInv, InvOf, LateOf, QuietAfterDeadline
<1> QED BY <1>1, InductiveInvariant, PTL

\* A final answer ends the attempts: only "send" begins one, only "sent"
\* delivers one, and a request with a final answer is past both.
THEOREM AnswerIsFinalHolds == Spec => AnswerIsFinal
<1>1. ASSUME IInv, [Next]_vars, NEW r \in Requests, answer[r] \in Final
      PROVE  attempt'[r] = attempt[r] /\ received'[r] = received[r]
  <2>1. pc[r] \in {"check", "done"}
    BY <1>1 DEF IInv, InvOf, AnswerOf
  <2>2. ASSUME NEW q \in Requests, sends(q) PROVE UNCHANGED <<attempt[r], received[r]>>
    BY <1>1, <2>1, <2>2 DEF sends, IInv, TypeOK
  <2>3. ASSUME NEW q \in Requests, serverReceives(q)
        PROVE  UNCHANGED <<attempt[r], received[r]>>
    BY <1>1, <2>1, <2>3 DEF serverReceives, attemptUnchanged, IInv, TypeOK
  <2>4. CASE UNCHANGED <<attempt, received>>
    BY <2>4
  <2>5. \/ \E q \in Requests : sends(q) \/ serverReceives(q)
        \/ UNCHANGED <<attempt, received>>
    BY <1>1 DEF Next, RoundTrip, Server, Renew, ctxDone, begins, authApplies, authFails,
                returns, givesUp, backsOff, timerFires, backoffEnds, serverAnswers,
                connectionBreaks, cannotSend, attemptUnchanged, loopUnchanged, vars
  <2> QED BY <2>2, <2>3, <2>4, <2>5
<1>2. IInv /\ [Next]_vars => [\A r \in Requests :
          answer[r] \in Final => attempt'[r] = attempt[r] /\ received'[r] = received[r]]_vars
  BY <1>1
<1> QED BY <1>2, InductiveInvariant, PTL DEF Spec, AnswerIsFinal
=============================================================================
