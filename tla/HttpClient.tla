----------------------------- MODULE HttpClient -----------------------------
(***************************************************************************)
(* The HTTP client that retryableHTTPClient builds for a server: the       *)
(* authentication round tripper on the outside, the retry loop of the      *)
(* vendored retryablehttp on the inside.  A request is one POST of the SDK *)
(* for one call, made under the context of that call; any number of them   *)
(* are under way at once.  The server, the network and the retry loop are  *)
(* not code of the repository.                                             *)
(***************************************************************************)
EXTENDS Naturals, Sequences

CONSTANTS
    Requests,     \* HTTP requests, each made once
    RetryMax,     \* opts.httpRetryMax
    AuthBlocks,   \* values of ServerConfig.Auth: functions from keys to values
    Credentials   \* sets of headers that a custom AuthFunc may set; it may set none

NotAString == "not a string"      \* a JSON value of another type
NoAuth == {}                      \* cfg.Auth == nil
Blank == ""

ASSUME HttpClientAssumption == RetryMax \in Nat /\ Credentials # {}

VARIABLES
    auth,        \* cfg.Auth: NoAuth, or the set of its one block, which may be empty
    authFunc,    \* opts.authFunc: "Bearer", "HeaderToken" or "custom"
    credential,  \* the headers a custom AuthFunc would set now
    \* per request
    pc, ctx,     \* where it is; its context: "live" or "done"
    header,      \* authentication headers of the clone: name and value pairs
    fnCalls,     \* calls of the AuthFunc
    denied,      \* whether one of them returned an error
    attempt,     \* attempts begun
    answer,      \* how the last attempt ended
    late,        \* attempts begun after the context was done
    received,    \* headers of each copy that reached the server, oldest first
    err          \* what the caller of the client gets: "nil" or the error

cfgVars == <<auth, authFunc>>
vars == <<cfgVars, credential, pc, ctx, header, fnCalls, denied, attempt, answer, late,
          received, err>>

\* Answers that the retry policy tells apart.  "ok" and "refused" (4xx, 501)
\* are final, "busy" (429, 0, 5xx) and a connection that breaks are not, and
\* neither a bad scheme or header or an untrusted certificate gets better, nor
\* does an address that redirects once too often.
Hopeless == {"unsendable", "redirected"}
Final == {"ok", "refused"} \cup Hopeless
Answers == Final \cup {"none", "busy", "broken"}

Init ==
    /\ auth \in {NoAuth} \cup {{b} : b \in AuthBlocks}
    /\ authFunc \in {"Bearer", "HeaderToken", "custom"}
    /\ credential \in Credentials
    /\ pc = [r \in Requests |-> "new"]
    /\ ctx = [r \in Requests |-> "live"]
    /\ header = [r \in Requests |-> {}]
    /\ fnCalls = [r \in Requests |-> 0]
    /\ denied = [r \in Requests |-> FALSE]
    /\ attempt = [r \in Requests |-> 0]
    /\ answer = [r \in Requests |-> "none"]
    /\ late = [r \in Requests |-> 0]
    /\ received = [r \in Requests |-> <<>>]
    /\ err = [r \in Requests |-> "nil"]

goto(r, l) == pc' = [pc EXCEPT ![r] = l]

\* The request leaves the client with error e.
fails(r, e) == goto(r, "done") /\ err' = [err EXCEPT ![r] = e]

-----------------------------------------------------------------------------
(* authFuncRoundTripper.RoundTrip: the AuthFunc fills in the headers of a   *)
(* clone, or fails the request.  A set of headers stands for what an        *)
(* AuthFunc may produce; the helpers of package auth have one outcome.      *)

present(data, k) == k \in DOMAIN data /\ data[k] \notin {NotAString, Blank}

Bearer(data) ==
    IF present(data, "token") THEN {{<<"Authorization", data["token"]>>}} ELSE {}

HeaderToken(data) ==
    IF present(data, "tokenName") /\ present(data, "value")
    THEN {{<<data["tokenName"], data["value"]>>}} ELSE {}

AuthResults ==
    CASE authFunc = "Bearer" -> UNION {Bearer(data) : data \in auth}
      [] authFunc = "HeaderToken" -> UNION {HeaderToken(data) : data \in auth}
      [] OTHER -> {credential}

\* The SDK makes a request; without an auth block it goes to the retry loop.
begins(r) ==
    /\ pc[r] = "new"
    /\ goto(r, IF auth = NoAuth THEN "send" ELSE "auth")
    /\ UNCHANGED <<cfgVars, credential, ctx, header, fnCalls, denied, attempt, answer,
                   late, received, err>>

authApplies(r) ==
    /\ pc[r] = "auth"
    /\ \E h \in AuthResults : header' = [header EXCEPT ![r] = h]
    /\ fnCalls' = [fnCalls EXCEPT ![r] = @ + 1]
    /\ goto(r, "send")
    /\ UNCHANGED <<cfgVars, credential, ctx, denied, attempt, answer, late, received,
                   err>>

\* Variant: the error is only logged.
authFailsOpen(r) ==
    /\ pc[r] = "auth"
    /\ authFunc = "custom" \/ AuthResults = {}
    /\ fnCalls' = [fnCalls EXCEPT ![r] = @ + 1]
    /\ denied' = [denied EXCEPT ![r] = TRUE]
    /\ goto(r, "send")
    /\ UNCHANGED <<cfgVars, credential, ctx, header, attempt, answer, late,
                   received, err>>

authFails(r) ==
    /\ pc[r] = "auth"
    /\ authFunc = "custom" \/ AuthResults = {}
    /\ fnCalls' = [fnCalls EXCEPT ![r] = @ + 1]
    /\ denied' = [denied EXCEPT ![r] = TRUE]
    /\ fails(r, "auth")
    /\ UNCHANGED <<cfgVars, credential, ctx, header, attempt, answer, late, received>>

-----------------------------------------------------------------------------
(* One attempt.  net/http does not send under a context that is done.       *)

sends(r) ==
    /\ pc[r] = "send"
    /\ attempt' = [attempt EXCEPT ![r] = @ + 1]
    /\ IF ctx[r] = "done"
       THEN /\ goto(r, "check")
            /\ answer' = [answer EXCEPT ![r] = "broken"]
            /\ late' = [late EXCEPT ![r] = @ + 1]
       ELSE /\ goto(r, "sent")
            /\ answer' = [answer EXCEPT ![r] = "none"]
            /\ UNCHANGED late
    /\ UNCHANGED <<cfgVars, credential, ctx, header, fnCalls, denied, received, err>>

attemptUnchanged ==
    UNCHANGED <<cfgVars, credential, ctx, header, fnCalls, denied, attempt, late, err>>

\* The server has the request and works on it ...
serverReceives(r) ==
    /\ pc[r] = "sent"
    /\ received' = [received EXCEPT ![r] = Append(@, header[r])]
    /\ goto(r, "served")
    /\ UNCHANGED answer
    /\ attemptUnchanged

serverAnswers(r) ==
    /\ pc[r] = "served"
    /\ \E a \in {"ok", "refused", "busy"} : answer' = [answer EXCEPT ![r] = a]
    /\ goto(r, "check")
    /\ UNCHANGED received
    /\ attemptUnchanged

\* ... but the connection may break before, during and after that.
connectionBreaks(r) ==
    /\ pc[r] \in {"sent", "served"}
    /\ answer' = [answer EXCEPT ![r] = "broken"]
    /\ goto(r, "check")
    /\ UNCHANGED received
    /\ attemptUnchanged

\* The attempt ends in an error of the request itself, or net/http, which follows
\* redirects within the attempt, stops after ten of them.
cannotSend(r) ==
    /\ pc[r] = "sent"
    /\ \E a \in Hopeless : answer' = [answer EXCEPT ![r] = a]
    /\ goto(r, "check")
    /\ UNCHANGED received
    /\ attemptUnchanged

-----------------------------------------------------------------------------
(* What follows an attempt: DefaultRetryPolicy, the limit, the backoff.     *)

\* Variant: everything but a success is tried again.
retriesRefused(r) == ctx[r] = "live" /\ answer[r] # "ok"

\* Variant: the policy does not look at the context.
retriesForEver(r) == answer[r] \notin Final

shouldRetry(r) == ctx[r] = "live" /\ answer[r] \notin Final

loopUnchanged ==
    UNCHANGED <<cfgVars, credential, ctx, header, fnCalls, denied, attempt, answer, late,
                received>>

\* A context that is done turns even a good answer into an error.
returns(r) ==
    /\ pc[r] = "check"
    /\ ~shouldRetry(r)
    /\ IF ctx[r] = "done" THEN fails(r, "ctx")
       ELSE IF answer[r] \in Hopeless THEN fails(r, "gave up")
       ELSE goto(r, "done") /\ UNCHANGED err
    /\ loopUnchanged

givesUp(r) ==
    /\ pc[r] = "check"
    /\ shouldRetry(r)
    /\ attempt[r] > RetryMax
    /\ fails(r, "gave up")
    /\ loopUnchanged

\* Variant: RetryMax counts the retries from one.
backsOffOnceMore(r) ==
    /\ pc[r] = "check"
    /\ shouldRetry(r)
    /\ attempt[r] <= RetryMax + 1
    /\ goto(r, "backoff")
    /\ UNCHANGED err
    /\ loopUnchanged

backsOff(r) ==
    /\ pc[r] = "check"
    /\ shouldRetry(r)
    /\ attempt[r] <= RetryMax
    /\ goto(r, "backoff")
    /\ UNCHANGED err
    /\ loopUnchanged

\* Min(2^i s, 8 s) later, or whenever the Retry-After header of a 429 or 503
\* says; if the context is done as well the select takes either case.
timerFires(r) ==
    /\ pc[r] = "backoff"
    /\ goto(r, "send")
    /\ UNCHANGED err
    /\ loopUnchanged

\* Variant: a plain sleep.
backoffSleeps(r) == FALSE /\ fails(r, "ctx") /\ loopUnchanged

backoffEnds(r) ==
    /\ pc[r] = "backoff"
    /\ ctx[r] = "done"
    /\ fails(r, "ctx")
    /\ loopUnchanged

-----------------------------------------------------------------------------
\* The deadline of the call passes, or its caller gives up.
ctxDone(r) ==
    /\ pc[r] # "new"
    /\ ctx[r] = "live"
    /\ ctx' = [ctx EXCEPT ![r] = "done"]
    /\ UNCHANGED <<cfgVars, credential, pc, header, fnCalls, denied, attempt, answer,
                   late, received, err>>

\* The token a custom AuthFunc hands out is replaced.
Renew ==
    /\ \E c \in Credentials \ {credential} : credential' = c
    /\ UNCHANGED <<cfgVars, pc, ctx, header, fnCalls, denied, attempt, answer, late,
                   received, err>>

RoundTrip(r) ==
    \/ begins(r) \/ authApplies(r) \/ authFails(r) \/ sends(r)
    \/ returns(r) \/ givesUp(r) \/ backsOff(r) \/ timerFires(r) \/ backoffEnds(r)

Server(r) ==
    serverReceives(r) \/ serverAnswers(r) \/ connectionBreaks(r) \/ cannotSend(r)

Next == Renew \/ \E r \in Requests : RoundTrip(r) \/ Server(r) \/ ctxDone(r)

Spec == Init /\ [][Next]_vars

-----------------------------------------------------------------------------
(* Properties *)

\* However connections break, however long the server is busy and whenever the
\* call gives up, a request reaches the server at most once per attempt and
\* is attempted at most RetryMax + 1 times: that many times a tool may run for
\* one CallTool. A request that comes back with an answer did reach it.
BoundedDelivery ==
    \A r \in Requests :
        /\ Len(received[r]) <= attempt[r] /\ attempt[r] <= RetryMax + 1
        /\ pc[r] = "done" /\ err[r] = "nil" => received[r] # <<>>

\* A header that says who is asking.
Usable(headers) == \E h \in headers : Blank \notin {h[1], h[2]}

\* auth_func.go:26-27: "Returning a non-nil error aborts the request: the upstream
\* server is NOT contacted".  Nothing of such a request is sent, nothing is sent to
\* a server with an auth block, an empty one included, before its AuthFunc has run,
\* and nothing of a server without one is touched by it; what auth.Bearer and
\* auth.HeaderToken let through has a credential, although the block may lack a
\* part or have it empty or of another type.
AuthenticatedOrUnsent ==
    \A r \in Requests : received[r] # <<>> =>
        /\ ~denied[r]
        /\ auth # NoAuth <=> fnCalls[r] > 0
        /\ auth # NoAuth /\ authFunc # "custom" =>
                \A i \in DOMAIN received[r] : Usable(received[r][i])

\* auth_func.go:11-12: "AuthFunc is invoked once per outbound HTTP request --
\* including each retry attempt performed by the underlying retryable HTTP client."
EveryAttemptAuthenticates ==
    auth # NoAuth => \A r \in Requests : attempt[r] <= fnCalls[r]

\* Once the server has given a final answer the request is not sent again,
\* whatever the caller's context does meanwhile.
AnswerIsFinal ==
    [][\A r \in Requests :
          answer[r] \in Final => attempt'[r] = attempt[r] /\ received'[r] = received[r]]_vars

\* When its context is done a request stops: the backoff may still lead to one
\* more attempt, because a select with both cases ready takes either, but to
\* no second one.
QuietAfterDeadline == \A r \in Requests : late[r] <= 1

\* The goroutine of the request runs, AuthFuncs return, and net/http abandons
\* an attempt whose context is done. Nothing is assumed about the server or
\* the length of a backoff: Retry-After is not capped by RetryWaitMax.
Fairness ==
    \A r \in Requests :
        /\ WF_vars(pc[r] # "backoff" /\ RoundTrip(r))
        /\ WF_vars(backoffEnds(r))
        /\ WF_vars(ctx[r] = "done" /\ connectionBreaks(r))

LiveSpec == Spec /\ Fairness

\* A request whose context is done returns, wherever it is: before it is
\* authenticated, with a server that does not answer, or in a backoff.
RequestEnds == \A r \in Requests : ctx[r] = "done" ~> pc[r] = "done"
=============================================================================
