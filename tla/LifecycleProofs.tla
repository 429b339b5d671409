--------------------------- MODULE LifecycleProofs --------------------------
(***************************************************************************)
(* Proofs about Lifecycle for any set of servers and any values of the     *)
(* other constants.                                                        *)
(***************************************************************************)
EXTENDS LifecycleProps, TLAPS

-----------------------------------------------------------------------------
(* Type correctness *)

\* The backoff computed from one in range is in range.
LEMMA BackoffInRange ==
    ASSUME NEW cur \in 0..BackoffCap
    PROVE  nextBackoff(cur) \in 0..BackoffCap
BY LifecycleAssumption DEF nextBackoff

\* The empty tool list is a tool list.
LEMMA NoToolsIsTools == NoTools \in Tools
BY DEF NoTools, Tools, NoSession

\* The steps of connect preserve the types.
LEMMA ConnectTypes ==
    ASSUME TypeOK, NEW s \in Servers, connect(s)
    PROVE  TypeOK'
<1> USE DEF TypeOK, SessionsTypeOK, Tools, connectUnchanged, newVars, entryVars, recVars,
            supVars, refVars, closeVars, serverVars, sessVars
<1>1. CASE connectDials(s)
  BY <1>1 DEF connectDials, Dial
<1>2. CASE connectDialFails(s)
  BY <1>2 DEF connectDialFails, Refuses
<1>3. CASE connectFetches(s)
  BY <1>3 DEF connectFetches
<1>4. CASE connectFetchFails(s)
  <2>1. faults' \in [Servers -> Nat]
    BY <1>4 DEF connectFetchFails, fetchToolsFails, Refuses
  <2>2. stuck' \in [Servers -> SUBSET (Nat \ {0})]
    BY <1>4 DEF connectFetchFails, Leftovers
  <2>3. /\ open' \in [Servers -> SUBSET (Nat \ {0})]
        /\ closing' \in [Servers -> SUBSET (Nat \ {0})]
    BY <1>4 DEF connectFetchFails, CloseBegins
  <2> QED BY <1>4, <2>1, <2>2, <2>3 DEF connectFetchFails
<1>5. CASE connectDiscards(s)
  BY <1>5 DEF connectDiscards, CloseReturns
<1> QED BY <1>1, <1>2, <1>3, <1>4, <1>5 DEF connect

\* The delivery of a list_changed notification does.
LEMMA HandlerTypes ==
    ASSUME TypeOK, NEW s \in Servers, ToolListChangedHandler(s)
    PROVE  TypeOK'
BY DEF TypeOK, SessionsTypeOK, ToolListChangedHandler, newVars, entryVars, connVars,
       recVars, supVars, refVars, closeVars, sessVars

\* The steps of New do.
LEMMA NewTypes ==
    ASSUME TypeOK, NewReturns \/ \E s \in Servers : NewRegisters(s)
    PROVE  TypeOK'
<1> USE NoToolsIsTools
    DEF TypeOK, SessionsTypeOK, newVars, entryVars, connVars, recVars, supVars, refVars,
        closeVars, envVars, serverVars, sessVars
<1>1. CASE NewReturns
  BY <1>1, LifecycleAssumption DEF NewReturns
<1>2. ASSUME NEW s \in Servers, NewRegisters(s)
      PROVE  TypeOK'
  <2>1. reconnecting' \in [Servers -> BOOLEAN]
    <3>1. CASE conn[s] = "ok"
      BY <1>2, <3>1 DEF NewRegisters
    <3>2. CASE conn[s] # "ok"
      <4>1. reconnecting' = [reconnecting EXCEPT ![s] = TRUE]
        BY <1>2, <3>2 DEF NewRegisters
      <4> QED BY <4>1
    <3> QED BY <3>1, <3>2
  <2>2. /\ session' \in [Servers -> Nat]
        /\ tools' \in [Servers -> Tools]
        /\ state' \in [Servers -> {"connected", "down"}]
    <3>1. CASE conn[s] = "ok"
      <4>1. /\ session' = [session EXCEPT ![s] = last[s]]
            /\ tools' = [tools EXCEPT ![s] = connTools[s]]
            /\ state' = [state EXCEPT ![s] = "connected"]
        BY <1>2, <3>1 DEF NewRegisters
      <4> QED BY <4>1
    <3>2. CASE conn[s] # "ok"
      BY <1>2, <3>2 DEF NewRegisters
    <3> QED BY <3>1, <3>2
  <2>3. conn' \in [Servers -> {"idle", "dial", "fetch", "discard", "ok", "err"}]
    BY <1>2 DEF NewRegisters
  <2>4. connTools' \in [Servers -> Tools] /\ registered' \subseteq Servers
    BY <1>2 DEF NewRegisters
  <2> QED BY <1>2, <2>1, <2>2, <2>3, <2>4 DEF NewRegisters
<1> QED BY <1>1, <1>2

\* The steps of reconnectServer do.
LEMMA ReconnectTypes ==
    ASSUME TypeOK, NEW s \in Servers, reconnectServer(s)
    PROVE  TypeOK'
<1> USE NoToolsIsTools
    DEF TypeOK, SessionsTypeOK, reconnectUnchanged, newVars, entryVars, connVars, recVars, supVars, refVars, closeVars, serverVars, sessVars
<1>0. nextBackoff(0) \in 0..BackoffCap /\ nextBackoff(backoff[s]) \in 0..BackoffCap
  BY BackoffInRange, LifecycleAssumption
<1>1. CASE reconnectMarksDown(s)
  <2>1. CASE session[s] = NoSession
    <3>1. rec'[s] = "backoff" /\ rec' = [rec EXCEPT ![s] = "backoff"]
      BY <1>1, <2>1 DEF reconnectMarksDown
    <3>2. backoff' = [backoff EXCEPT ![s] = nextBackoff(0)]
      BY <1>1, <2>1 DEF reconnectMarksDown
    <3>3. backoff' \in [Servers -> 0..BackoffCap]
      BY <1>0, <3>2
    <3> QED BY <1>1, <3>1, <3>3 DEF reconnectMarksDown
  <2>2. CASE session[s] # NoSession
    <3>1. rec' = [rec EXCEPT ![s] = "close"] /\ backoff' = backoff
      BY <1>1, <2>2 DEF reconnectMarksDown
    <3> QED BY <1>1, <3>1 DEF reconnectMarksDown
  <2> QED BY <2>1, <2>2
<1>2. CASE reconnectClosesOld(s)
  BY <1>2 DEF reconnectClosesOld, CloseBegins
<1>3. CASE reconnectClosedOld(s)
  BY <1>0, <1>3 DEF reconnectClosedOld, CloseReturns
<1>4. CASE reconnectGivesUp(s)
  BY <1>4, LifecycleAssumption DEF reconnectGivesUp
<1>5. CASE reconnectAttempts(s)
  BY <1>5 DEF reconnectAttempts
<1>6. CASE reconnectFails(s)
  BY <1>6 DEF reconnectFails
<1>7. CASE reconnectLoops(s)
  BY <1>0, <1>7 DEF reconnectLoops
<1>8. CASE reconnectSwaps(s)
  BY <1>8 DEF reconnectSwaps
<1>9. CASE reconnectClears(s)
  BY <1>9, LifecycleAssumption DEF reconnectClears
<1>10. CASE reconnectReports(s)
  BY <1>10 DEF reconnectReports
<1> QED
  BY <1>1, <1>2, <1>3, <1>4, <1>5, <1>6, <1>7, <1>8, <1>9, <1>10 DEF reconnectServer

\* The steps of runSupervisor and probeServer do.
LEMMA SupervisorTypes ==
    ASSUME TypeOK, runSupervisor
    PROVE  TypeOK'
<1> USE DEF TypeOK, SessionsTypeOK, Tools, NoSession, supervisorUnchanged, newVars,
            connVars, refVars, closeVars, serverVars, sessVars
<1>1. CASE supervisorTicks
  BY <1>1 DEF supervisorTicks
<1>2. CASE supervisorStops
  BY <1>2 DEF supervisorStops
<1>3. CASE supervisorRests
  BY <1>3 DEF supervisorRests
<1>4. ASSUME NEW s \in Servers, supervisorVisits(s)
      PROVE  TypeOK'
  BY <1>4 DEF supervisorVisits
<1>5. ASSUME NEW s \in Servers, probeReads(s)
      PROVE  TypeOK'
  BY <1>5 DEF probeReads
<1>6. ASSUME NEW s \in Servers, probeSucceeds(s)
      PROVE  TypeOK'
  BY <1>6 DEF probeSucceeds
<1>7. ASSUME NEW s \in Servers, probeFails(s)
      PROVE  TypeOK'
  <2>0. faults' = faults \/ faults' = [faults EXCEPT ![s] = @ + 1]
    BY <1>7 DEF probeFails, CallFails, Refuses
  <2>1. faults' \in [Servers -> Nat]
    BY <2>0
  <2>2. stuck' \in [Servers -> SUBSET (Nat \ {0})]
    BY <1>7 DEF probeFails, CallFails, Leftovers
  <2> QED BY <1>7, <2>1, <2>2 DEF probeFails, CallFails
<1>10. ASSUME NEW s \in Servers, probeOverdue(s)
       PROVE  TypeOK'
  BY <1>10 DEF probeOverdue, CallOverdue, Leftovers
<1>11. ASSUME NEW s \in Servers, probeReturns(s)
       PROVE  TypeOK'
  BY <1>11 DEF probeReturns, NoticeReturns
<1>8. ASSUME NEW s \in Servers, supervisorChecksCtx(s)
      PROVE  TypeOK'
  <2>1. CASE cancelled
    <3>1. sup' \in [Servers -> {"idle", "todo", "read", "probe", "overdue", "failed", "spawn"}]
      BY <1>8, <2>1 DEF supervisorChecksCtx
    <3>2. supSess' = [supSess EXCEPT ![s] = NoSession] /\ supervisor' = "off"
      BY <1>8, <2>1 DEF supervisorChecksCtx
    <3>3. supSess' \in [Servers -> Nat]
      BY <3>2
    <3> QED BY <1>8, <3>1, <3>2, <3>3 DEF supervisorChecksCtx
  <2>2. CASE ~cancelled
    <3>1. sup' = [sup EXCEPT ![s] = "spawn"] /\ UNCHANGED <<supervisor, supSess>>
      BY <1>8, <2>2 DEF supervisorChecksCtx
    <3> QED BY <1>8, <3>1 DEF supervisorChecksCtx
  <2> QED BY <2>1, <2>2
<1>9. ASSUME NEW s \in Servers, supervisorSpawns(s)
      PROVE  TypeOK'
  <2>1. reconnecting' \in [Servers -> BOOLEAN]
    <3>1. CASE reconnecting[s]
      BY <1>9, <3>1 DEF supervisorSpawns
    <3>2. CASE ~reconnecting[s]
      <4>1. reconnecting' = [reconnecting EXCEPT ![s] = TRUE]
        BY <1>9, <3>2 DEF supervisorSpawns
      <4> QED BY <4>1
    <3> QED BY <3>1, <3>2
  <2>2. rec' \in [Servers -> {"none", "start", "close", "closing", "backoff",
                             "connect", "errcb", "clear"}]
    <3>1. rec' = rec \/ rec' = [rec EXCEPT ![s] = "start"]
      BY <1>9 DEF supervisorSpawns
    <3> QED BY <3>1
  <2>3. /\ sup' \in [Servers -> {"idle", "todo", "read", "probe", "overdue", "failed", "spawn"}]
        /\ supSess' \in [Servers -> Nat]
    BY <1>9 DEF supervisorSpawns
  <2> QED BY <1>9, <2>1, <2>2, <2>3 DEF supervisorSpawns
<1> QED
  BY <1>1, <1>2, <1>3, <1>4, <1>5, <1>6, <1>7, <1>8, <1>9, <1>10, <1>11 DEF runSupervisor

\* The steps of runToolRefresh and applyToolRefresh do.
LEMMA RefreshTypes ==
    ASSUME TypeOK, NEW s \in Servers, runToolRefresh(s)
    PROVE  TypeOK'
<1> USE DEF TypeOK, SessionsTypeOK, Tools, NoTools, NoSession, refreshUnchanged, newVars,
            connVars, recVars, supVars, closeVars, serverVars, sessVars
<1>1. CASE refreshReceives(s)
  BY <1>1 DEF refreshReceives
<1>2. CASE refreshStops(s)
  BY <1>2 DEF refreshStops
<1>3. CASE refreshChecks(s)
  BY <1>3 DEF refreshChecks
<1>4. CASE refreshReads(s)
  BY <1>4 DEF refreshReads
<1>5. CASE refreshFetches(s)
  BY <1>5 DEF refreshFetches
<1>6. CASE refreshFails(s)
  <2>0. faults' = faults \/ faults' = [faults EXCEPT ![s] = @ + 1]
    BY <1>6 DEF refreshFails, CallFails, Refuses
  <2>1. faults' \in [Servers -> Nat]
    BY <2>0
  <2>2. stuck' \in [Servers -> SUBSET (Nat \ {0})]
    BY <1>6 DEF refreshFails, CallFails, Leftovers
  <2> QED BY <1>6, <2>1, <2>2 DEF refreshFails, CallFails
<1>7. CASE refreshSwaps(s)
  BY <1>7 DEF refreshSwaps
<1>8. CASE refreshOverdue(s)
  BY <1>8 DEF refreshOverdue, CallOverdue, Leftovers
<1>9. CASE refreshReturns(s)
  BY <1>9 DEF refreshReturns, NoticeReturns
<1> QED BY <1>1, <1>2, <1>3, <1>4, <1>5, <1>6, <1>7, <1>8, <1>9 DEF runToolRefresh

\* The steps of Close do.
LEMMA CloseTypes ==
    ASSUME TypeOK, CloseCancels \/ CloseStep
    PROVE  TypeOK'
<1> USE DEF TypeOK, SessionsTypeOK, Tools, NoSession, closeUnchanged, newVars, entryVars,
            connVars, recVars, supVars, refVars, serverVars, sessVars
<1>1. CASE CloseCancels
  BY <1>1 DEF CloseCancels
<1>2. CASE CloseLocks
  BY <1>2 DEF CloseLocks
<1>3. CASE CloseUnlocks
  BY <1>3 DEF CloseUnlocks
<1>4. ASSUME NEW s \in Servers, CloseCloses(s)
      PROVE  TypeOK'
  BY <1>4 DEF CloseCloses, CloseBegins
<1>5. ASSUME NEW s \in Servers, CloseClosed(s)
      PROVE  TypeOK'
  BY <1>5 DEF CloseClosed, CloseReturns
<1> QED BY <1>1, <1>2, <1>3, <1>4, <1>5 DEF CloseStep

\* The servers and the caller's context do.
LEMMA EnvironmentTypes ==
    ASSUME TypeOK, Environment
    PROVE  TypeOK'
<1> USE DEF TypeOK, SessionsTypeOK, Tools, newVars, entryVars, connVars, recVars, supVars,
            refVars, closeVars, serverVars, sessVars
<1>0. UNCHANGED <<newVars, entryVars, refreshCh, connVars, recVars, supVars, refVars, closeVars>>
  BY DEF Environment
<1>1. CASE CallerCancels
  BY <1>0, <1>1 DEF CallerCancels
<1>2. ASSUME NEW s \in Servers, Crash(s)
      PROVE  TypeOK'
  BY <1>0, <1>2 DEF Crash, SessionsBreak
<1>3. ASSUME NEW s \in Servers, Restart(s)
      PROVE  TypeOK'
  BY <1>0, <1>3 DEF Restart
<1>6. ASSUME NEW s \in Servers, Hang(s)
      PROVE  TypeOK'
  BY <1>0, <1>6 DEF Hang
<1>7. ASSUME NEW s \in Servers, Resume(s)
      PROVE  TypeOK'
  BY <1>0, <1>7 DEF Resume
<1>8. ASSUME NEW s \in Servers, KillProcess(s)
      PROVE  TypeOK'
  BY <1>0, <1>8 DEF KillProcess, SessionsBreak
<1>4. ASSUME NEW s \in Servers, AnswerLate(s)
      PROVE  TypeOK'
  BY <1>0, <1>4 DEF AnswerLate
<1>5. ASSUME NEW s \in Servers, ChangeTools(s)
      PROVE  TypeOK'
  BY <1>0, <1>5 DEF ChangeTools
<1> QED
  BY <1>1, <1>2, <1>3, <1>4, <1>5, <1>6, <1>7, <1>8 DEF Environment, ServerStep

\* The initial states are well typed.
LEMMA TypeInit == Init => TypeOK
<1> SUFFICES ASSUME Init PROVE TypeOK
  OBVIOUS
<1>1. SessionsTypeOK
  <2>1. health \in [Servers -> {"up", "down", "hung"}]
    BY DEF Init, SessionsInit
  <2>2. cancelled \in BOOLEAN
    BY DEF Init, SessionsInit
  <2>3. /\ open \in [Servers -> SUBSET (Nat \ {0})]
        /\ closing \in [Servers -> SUBSET (Nat \ {0})]
        /\ stuck \in [Servers -> SUBSET (Nat \ {0})]
        /\ notif \in [Servers -> SUBSET (Nat \ {0})]
    BY DEF Init, SessionsInit
  <2>4. /\ faults \in [Servers -> Nat]
        /\ remote \in [Servers -> Nat \ {0}]
        /\ last \in [Servers -> Nat]
    BY DEF Init, SessionsInit
  <2> QED BY <2>1, <2>2, <2>3, <2>4 DEF SessionsTypeOK
<1>2. NoSession \in Nat /\ 0 \in 0..BackoffCap
  BY LifecycleAssumption DEF NoSession
<1> QED BY <1>1, <1>2, NoToolsIsTools DEF Init, TypeOK

\* A step, or a stutter, leads from a well-typed state to a well-typed one.
LEMMA TypeStep == TypeOK /\ [Next]_vars => TypeOK'
<1> SUFFICES ASSUME TypeOK, [Next]_vars
             PROVE  TypeOK'
  OBVIOUS
<1>1. CASE UNCHANGED vars
  BY <1>1 DEF vars, TypeOK, SessionsTypeOK, Tools, newVars, entryVars, connVars, recVars,
              supVars, refVars, closeVars, serverVars, sessVars
<1> QED
  BY <1>1, ConnectTypes, HandlerTypes, NewTypes, ReconnectTypes, SupervisorTypes,
     RefreshTypes, CloseTypes, EnvironmentTypes DEF Next

\* Every reachable state is well typed; in particular the reconnect backoff
\* never exceeds its cap, however many attempts fail.
THEOREM TypeCorrect == Spec => []TypeOK
BY TypeInit, TypeStep, PTL DEF Spec

-----------------------------------------------------------------------------
(* The inductive invariant *)

\* Until New returns no goroutine works on an entry, and a server whose
\* connect is in progress has no session yet.
StartInv ==
    phase = "starting" =>
        /\ supervisor = "off"
        /\ \A s \in Servers :
              /\ rec[s] = "none" /\ sup[s] = "idle"
              /\ conn[s] # "idle" => session[s] = NoSession
              /\ s \in registered /\ state[s] = "down" => reconnecting[s]
              /\ reconnecting[s] => s \in registered
              /\ s \in registered => conn[s] = "idle"

\* Afterwards connect runs only inside a reconnect, and a server is down
\* with nobody working on it only once the context is done.
OwnerInv ==
    /\ ReconnectingIsOwned
    /\ phase = "running" =>
          \A s \in Servers :
              /\ conn[s] = "idle" <=> rec[s] # "connect"
              /\ rec[s] = "clear" => state[s] = "connected"
              /\ rec[s] = "none" /\ state[s] = "down" => cancelled

\* The entry's session is older than the one being connected and not in use
\* meanwhile, and it is gone when the reconnect loop starts.
SessionInv ==
    \A s \in Servers :
        /\ session[s] <= last[s]
        /\ conn[s] \in {"fetch", "discard", "ok"} => session[s] < last[s]
        /\ conn[s] # "idle" => state[s] = "down"
        /\ rec[s] \in {"close", "closing", "backoff", "connect", "errcb"} => state[s] = "down"
        /\ rec[s] = "closing" => session[s] \notin open[s]
        /\ rec[s] \in {"backoff", "connect", "errcb"} =>
              session[s] \notin open[s] \cup closing[s]

\* The supervisor works on a server only while nobody else owns its entry.
ProbeInv ==
    /\ ProbeIsCurrent
    /\ \A s \in Servers : sup[s] = "read" => ~reconnecting[s]

\* Close starts by cancelling the context.
CloseInv ==
    closePc # "open" => cancelled

\* No fault has hit server s since its last session was established.
Unhurt(s) == last[s] = 1 + faults[s]

\* While the context is live, an unhurt session is open, nobody has given it
\* up, and it is the entry's or about to become it.
FaultInv ==
    /\ OneSessionPerFault
    /\ \A s \in Servers :
          Unhurt(s) /\ ~cancelled =>
              /\ health[s] = "up"
              /\ last[s] \in open[s]
              /\ conn[s] \in {"idle", "fetch", "ok"}
              /\ conn[s] = "idle" => session[s] = last[s]
              /\ phase = "starting" => ~reconnecting[s]
              /\ rec[s] \in {"none", "connect", "clear"}
              /\ sup[s] \notin {"overdue", "failed", "spawn"}

IInv ==
    /\ TypeOK
    /\ StartInv
    /\ OwnerInv
    /\ SessionInv
    /\ ConnectedHasSession
    /\ NoLeakedSession
    /\ ProbeInv
    /\ CloseInv
    /\ FaultInv

\* The steps of connect preserve the invariant.
LEMMA ConnectInv ==
    ASSUME IInv, NEW s \in Servers, connect(s)
    PROVE  IInv'
<1> USE DEF connectUnchanged, newVars, entryVars, recVars, supVars, refVars, closeVars,
            serverVars, sessVars
<1>0. TypeOK /\ TypeOK'
  BY ConnectTypes DEF IInv
<1> USE DEF IInv, StartInv, OwnerInv, SessionInv, ProbeInv, CloseInv, FaultInv,
            ReconnectingIsOwned, ProbeIsCurrent, ConnectedHasSession, NoLeakedSession,
            OneSessionPerFault, Unhurt, NoSession
<1>1. CASE connectDials(s)
  <2> USE <1>0, <1>1 DEF connectDials, Dial, TypeOK, SessionsTypeOK
  <2>1. StartInv' /\ OwnerInv' /\ ProbeInv' /\ CloseInv' /\ ConnectedHasSession'
    OBVIOUS
  <2>2. SessionInv'
    OBVIOUS
  <2>3. NoLeakedSession'
    OBVIOUS
  <2>4. FaultInv'
    <3>1. last[s] <= faults[s]
      <4>1. conn[s] = "dial" /\ ~cancelled
        OBVIOUS
      <4>2. last[s] # 1 + faults[s]
        BY <4>1
      <4>3. last[s] <= 1 + faults[s] /\ last[s] \in Nat /\ faults[s] \in Nat
        OBVIOUS
      <4> QED BY <4>2, <4>3
    <3>2. phase = "starting" => ~reconnecting[s] /\ rec[s] = "none" /\ sup[s] = "idle"
      OBVIOUS
    <3>3. phase = "running" => rec[s] = "connect" /\ sup[s] \notin {"failed", "spawn"}
      OBVIOUS
    <3> QED BY <3>1, <3>2, <3>3
  <2> QED BY <2>1, <2>2, <2>3, <2>4
<1>2. CASE connectDialFails(s)
  <2> USE <1>0, <1>2 DEF connectDialFails, TypeOK, SessionsTypeOK
  <2>1. StartInv' /\ OwnerInv' /\ ProbeInv' /\ CloseInv' /\ ConnectedHasSession'
    OBVIOUS
  <2>2. SessionInv' /\ NoLeakedSession'
    OBVIOUS
  <2>3. FaultInv'
    <3>1. CASE UNCHANGED faults /\ (health[s] = "down" \/ cancelled)
      BY <3>1
    <3>2. CASE Refuses(s)
      BY <3>2 DEF Refuses
    <3> QED BY <3>1, <3>2
  <2> QED BY <2>1, <2>2, <2>3
<1>3. CASE connectFetches(s)
  BY <1>0, <1>3 DEF connectFetches, Answered, TypeOK, SessionsTypeOK
<1>4. CASE connectFetchFails(s)
  <2> USE <1>0, <1>4 DEF connectFetchFails, CloseBegins, TypeOK, SessionsTypeOK
  <2>1. StartInv' /\ OwnerInv' /\ ProbeInv' /\ CloseInv' /\ ConnectedHasSession'
    OBVIOUS
  <2>2. SessionInv' /\ NoLeakedSession'
    OBVIOUS
  <2>3. FaultInv'
    <3>1. CASE UNCHANGED faults /\ (last[s] \notin open[s] \/ cancelled)
      BY <3>1
    <3>2. CASE Refuses(s)
      BY <3>2 DEF Refuses
    <3> QED BY <3>1, <3>2 DEF fetchToolsFails
  <2> QED BY <2>1, <2>2, <2>3
<1>5. CASE connectDiscards(s)
  BY <1>0, <1>5 DEF connectDiscards, CloseReturns, TypeOK, SessionsTypeOK
<1> QED BY <1>1, <1>2, <1>3, <1>4, <1>5 DEF connect

\* The delivery of a notification does.
LEMMA HandlerInv ==
    ASSUME IInv, NEW s \in Servers, ToolListChangedHandler(s)
    PROVE  IInv'
<1>0. TypeOK /\ TypeOK'
  BY HandlerTypes DEF IInv
<1> USE <1>0 DEF newVars, entryVars, connVars, recVars, supVars, refVars,
                closeVars, sessVars
<1> USE DEF IInv, StartInv, OwnerInv, SessionInv, ProbeInv, CloseInv, FaultInv,
            ReconnectingIsOwned, ProbeIsCurrent, ConnectedHasSession, NoLeakedSession,
            OneSessionPerFault, Unhurt, NoSession
<1> QED BY DEF ToolListChangedHandler, TypeOK, SessionsTypeOK

\* The steps of New do.
LEMMA NewInv ==
    ASSUME IInv, NewReturns \/ \E s \in Servers : NewRegisters(s)
    PROVE  IInv'
<1>0. TypeOK /\ TypeOK'
  BY NewTypes DEF IInv
<1> USE <1>0 DEF newVars, entryVars, connVars, recVars, supVars, refVars,
                closeVars, envVars, serverVars, sessVars
<1> USE DEF IInv, StartInv, OwnerInv, SessionInv, ProbeInv, CloseInv, FaultInv,
            ReconnectingIsOwned, ProbeIsCurrent, ConnectedHasSession, NoLeakedSession,
            OneSessionPerFault, Unhurt, NoSession
<1>1. CASE NewReturns
  BY <1>1 DEF NewReturns, TypeOK, SessionsTypeOK
<1>2. ASSUME NEW s \in Servers, NewRegisters(s)
      PROVE  IInv'
  <2> USE <1>2 DEF NewRegisters, TypeOK, SessionsTypeOK
  <2>1. StartInv' /\ OwnerInv'
    OBVIOUS
  <2>2. SessionInv'
    OBVIOUS
  <2>3. ConnectedHasSession'
    <3>1. CASE conn[s] = "ok"
      <4>1. session[s] < last[s] /\ session[s] \in Nat /\ last[s] \in Nat
        BY <3>1
      <4>2. session' = [session EXCEPT ![s] = last[s]] /\ last[s] # 0
        BY <3>1, <4>1
      <4> QED BY <4>2
    <3>2. CASE conn[s] # "ok"
      <4>1. UNCHANGED <<session, state>>
        BY <3>2
      <4> QED BY <4>1
    <3> QED BY <3>1, <3>2
  <2>4. NoLeakedSession'
    OBVIOUS
  <2>5. ProbeInv' /\ CloseInv'
    OBVIOUS
  <2>6. FaultInv'
    OBVIOUS
  <2> QED BY <2>1, <2>2, <2>3, <2>4, <2>5, <2>6
<1> QED BY <1>1, <1>2 DEF NewReturns

\* The steps of reconnectServer do.
LEMMA ReconnectInv ==
    ASSUME IInv, NEW s \in Servers, reconnectServer(s)
    PROVE  IInv'
<1>0. TypeOK /\ TypeOK'
  BY ReconnectTypes DEF IInv
<1> USE <1>0 DEF reconnectUnchanged, newVars, entryVars, connVars, recVars, supVars,
                refVars, closeVars, serverVars, sessVars
<1> USE DEF IInv, StartInv, OwnerInv, SessionInv, ProbeInv, CloseInv, FaultInv,
            ReconnectingIsOwned, ProbeIsCurrent, ConnectedHasSession, NoLeakedSession,
            OneSessionPerFault, Unhurt, NoSession
<1>1. CASE reconnectMarksDown(s)
  BY <1>1 DEF reconnectMarksDown, TypeOK, SessionsTypeOK
<1>2. CASE reconnectClosesOld(s)
  BY <1>2 DEF reconnectClosesOld, CloseBegins, TypeOK, SessionsTypeOK
<1>3. CASE reconnectClosedOld(s)
  BY <1>3 DEF reconnectClosedOld, CloseReturns, TypeOK, SessionsTypeOK
<1>4. CASE reconnectGivesUp(s)
  BY <1>4 DEF reconnectGivesUp, TypeOK, SessionsTypeOK
<1>5. CASE reconnectAttempts(s)
  BY <1>5 DEF reconnectAttempts, TypeOK, SessionsTypeOK
<1>6. CASE reconnectFails(s)
  BY <1>6 DEF reconnectFails, TypeOK, SessionsTypeOK
<1>7. CASE reconnectLoops(s)
  BY <1>7 DEF reconnectLoops, TypeOK, SessionsTypeOK
<1>8. CASE reconnectSwaps(s)
  BY <1>8 DEF reconnectSwaps, TypeOK, SessionsTypeOK
<1>9. CASE reconnectClears(s)
  BY <1>9 DEF reconnectClears, TypeOK, SessionsTypeOK
<1>10. CASE reconnectReports(s)
  BY <1>10 DEF reconnectReports, TypeOK, SessionsTypeOK
<1> QED BY <1>1, <1>2, <1>3, <1>4, <1>5, <1>6, <1>7, <1>8, <1>9, <1>10 DEF reconnectServer

\* The steps of the supervisor do.
LEMMA SupervisorInv ==
    ASSUME IInv, runSupervisor
    PROVE  IInv'
<1>0. TypeOK /\ TypeOK'
  BY SupervisorTypes DEF IInv
<1> USE <1>0 DEF supervisorUnchanged, newVars, connVars, refVars, closeVars,
                serverVars, sessVars
<1> USE DEF IInv, StartInv, OwnerInv, SessionInv, ProbeInv, CloseInv, FaultInv,
            ReconnectingIsOwned, ProbeIsCurrent, ConnectedHasSession, NoLeakedSession,
            OneSessionPerFault, Unhurt, NoSession
<1>1. CASE supervisorTicks
  BY <1>1 DEF supervisorTicks, TypeOK, SessionsTypeOK
<1>2. CASE supervisorStops
  BY <1>2 DEF supervisorStops, TypeOK, SessionsTypeOK
<1>3. CASE supervisorRests
  BY <1>3 DEF supervisorRests, TypeOK, SessionsTypeOK
<1>4. ASSUME NEW s \in Servers, supervisorVisits(s)
      PROVE  IInv'
  BY <1>4 DEF supervisorVisits, TypeOK, SessionsTypeOK
<1>5. ASSUME NEW s \in Servers, probeReads(s)
      PROVE  IInv'
  BY <1>5 DEF probeReads, TypeOK, SessionsTypeOK
<1>6. ASSUME NEW s \in Servers, probeSucceeds(s)
      PROVE  IInv'
  BY <1>6 DEF probeSucceeds, TypeOK, SessionsTypeOK
<1>7. ASSUME NEW s \in Servers, probeFails(s)
      PROVE  IInv'
  <2>0. \/ UNCHANGED faults /\ (supSess[s] \notin open[s] \/ health[s] = "hung" \/ cancelled)
        \/ Refuses(s)
    BY <1>7 DEF probeFails, CallFails
  <2>1. UNCHANGED <<last, open, closing>>
    BY <1>7 DEF probeFails, CallFails
  <2> USE <1>7, <2>1 DEF probeFails, TypeOK, SessionsTypeOK
  <2>2. StartInv' /\ OwnerInv' /\ ProbeInv' /\ CloseInv' /\ ConnectedHasSession'
    OBVIOUS
  <2>3. SessionInv' /\ NoLeakedSession'
    OBVIOUS
  <2>4. FaultInv'
    <3>1. CASE Refuses(s)
      BY <3>1 DEF Refuses
    <3>2. CASE ~Refuses(s)
      BY <2>0, <3>2
    <3> QED BY <3>1, <3>2
  <2> QED BY <2>2, <2>3, <2>4
<1>10. ASSUME NEW s \in Servers, probeOverdue(s)
       PROVE  IInv'
  BY <1>10 DEF probeOverdue, CallOverdue, NoticeBlocks, TypeOK, SessionsTypeOK
<1>11. ASSUME NEW s \in Servers, probeReturns(s)
       PROVE  IInv'
  BY <1>11 DEF probeReturns, NoticeReturns, TypeOK, SessionsTypeOK
<1>8. ASSUME NEW s \in Servers, supervisorChecksCtx(s)
      PROVE  IInv'
  BY <1>8 DEF supervisorChecksCtx, TypeOK, SessionsTypeOK
<1>9. ASSUME NEW s \in Servers, supervisorSpawns(s)
      PROVE  IInv'
  <2>1. CASE reconnecting[s]
    BY <1>9, <2>1 DEF supervisorSpawns, TypeOK, SessionsTypeOK
  <2>2. CASE ~reconnecting[s]
    <3> USE <1>9, <2>2 DEF supervisorSpawns, TypeOK, SessionsTypeOK
    <3>1. /\ reconnecting' = [reconnecting EXCEPT ![s] = TRUE]
          /\ rec' = [rec EXCEPT ![s] = "start"]
      OBVIOUS
    <3>2. StartInv' /\ OwnerInv'
      BY <3>1
    <3>3. SessionInv' /\ CloseInv' /\ ConnectedHasSession' /\ NoLeakedSession'
      BY <3>1
    <3>4. ProbeInv'
      BY <3>1
    <3>5. FaultInv'
      BY <3>1
    <3> QED BY <3>2, <3>3, <3>4, <3>5
  <2> QED BY <2>1, <2>2
<1> QED
  BY <1>1, <1>2, <1>3, <1>4, <1>5, <1>6, <1>7, <1>8, <1>9, <1>10, <1>11 DEF runSupervisor

\* The steps of the tool refresh do.
LEMMA RefreshInv ==
    ASSUME IInv, NEW s \in Servers, runToolRefresh(s)
    PROVE  IInv'
<1>0. TypeOK /\ TypeOK'
  BY RefreshTypes DEF IInv
<1> USE <1>0 DEF refreshUnchanged, newVars, connVars, recVars, supVars, closeVars,
                serverVars, sessVars
<1> USE DEF IInv, StartInv, OwnerInv, SessionInv, ProbeInv, CloseInv, FaultInv,
            ReconnectingIsOwned, ProbeIsCurrent, ConnectedHasSession, NoLeakedSession,
            OneSessionPerFault, Unhurt, NoSession
<1>1. CASE refreshReceives(s)
  BY <1>1 DEF refreshReceives, TypeOK, SessionsTypeOK
<1>2. CASE refreshStops(s)
  BY <1>2 DEF refreshStops, TypeOK, SessionsTypeOK
<1>3. CASE refreshChecks(s)
  BY <1>3 DEF refreshChecks, TypeOK, SessionsTypeOK
<1>4. CASE refreshReads(s)
  BY <1>4 DEF refreshReads, TypeOK, SessionsTypeOK
<1>5. CASE refreshFetches(s)
  BY <1>5 DEF refreshFetches, TypeOK, SessionsTypeOK
<1>6. CASE refreshFails(s)
  <2>0. \/ UNCHANGED faults /\ (refSess[s] \notin open[s] \/ health[s] = "hung" \/ cancelled)
        \/ Refuses(s)
    BY <1>6 DEF refreshFails, CallFails
  <2>1. UNCHANGED <<last, open, closing>>
    BY <1>6 DEF refreshFails, CallFails
  <2> USE <1>6, <2>1 DEF refreshFails, TypeOK, SessionsTypeOK
  <2>2. StartInv' /\ OwnerInv' /\ ProbeInv' /\ CloseInv' /\ ConnectedHasSession'
    OBVIOUS
  <2>3. SessionInv' /\ NoLeakedSession'
    OBVIOUS
  <2>4. FaultInv'
    <3>1. CASE Refuses(s)
      BY <3>1 DEF Refuses
    <3>2. CASE ~Refuses(s)
      BY <2>0, <3>2
    <3> QED BY <3>1, <3>2
  <2> QED BY <2>2, <2>3, <2>4
<1>7. CASE refreshSwaps(s)
  BY <1>7 DEF refreshSwaps, TypeOK, SessionsTypeOK
<1>8. CASE refreshOverdue(s)
  BY <1>8 DEF refreshOverdue, CallOverdue, TypeOK, SessionsTypeOK
<1>9. CASE refreshReturns(s)
  BY <1>9 DEF refreshReturns, NoticeReturns, TypeOK, SessionsTypeOK
<1> QED BY <1>1, <1>2, <1>3, <1>4, <1>5, <1>6, <1>7, <1>8, <1>9 DEF runToolRefresh

\* The steps of Close do.
LEMMA CloseStepInv ==
    ASSUME IInv, CloseCancels \/ CloseStep
    PROVE  IInv'
<1>0. TypeOK /\ TypeOK'
  BY CloseTypes DEF IInv
<1> USE <1>0 DEF closeUnchanged, newVars, entryVars, connVars, recVars, supVars,
                refVars, serverVars, sessVars
<1> USE DEF IInv, StartInv, OwnerInv, SessionInv, ProbeInv, CloseInv, FaultInv,
            ReconnectingIsOwned, ProbeIsCurrent, ConnectedHasSession, NoLeakedSession,
            OneSessionPerFault, Unhurt, NoSession
<1>1. CASE CloseCancels
  BY <1>1 DEF CloseCancels, TypeOK, SessionsTypeOK
<1>2. CASE CloseLocks
  BY <1>2 DEF CloseLocks, TypeOK, SessionsTypeOK
<1>3. CASE CloseUnlocks
  BY <1>3 DEF CloseUnlocks, TypeOK, SessionsTypeOK
<1>4. ASSUME NEW s \in Servers, CloseCloses(s)
      PROVE  IInv'
  BY <1>4 DEF CloseCloses, CloseBegins, TypeOK, SessionsTypeOK
<1>5. ASSUME NEW s \in Servers, CloseClosed(s)
      PROVE  IInv'
  BY <1>5 DEF CloseClosed, CloseReturns, TypeOK, SessionsTypeOK
<1> QED BY <1>1, <1>2, <1>3, <1>4, <1>5 DEF CloseStep

\* The servers and the caller's context do.
LEMMA EnvironmentInv ==
    ASSUME IInv, Environment
    PROVE  IInv'
<1>0. TypeOK /\ TypeOK'
  BY EnvironmentTypes DEF IInv
<1> USE <1>0 DEF Environment, newVars, entryVars, connVars, recVars, supVars, refVars,
                closeVars, serverVars, sessVars
<1> USE DEF IInv, StartInv, OwnerInv, SessionInv, ProbeInv, CloseInv, FaultInv,
            ReconnectingIsOwned, ProbeIsCurrent, ConnectedHasSession, NoLeakedSession,
            OneSessionPerFault, Unhurt, NoSession
<1>1. CASE CallerCancels
  BY <1>1 DEF CallerCancels, TypeOK, SessionsTypeOK
<1>2. ASSUME NEW s \in Servers, Crash(s)
      PROVE  IInv'
  BY <1>2 DEF Crash, SessionsBreak, TypeOK, SessionsTypeOK
<1>3. ASSUME NEW s \in Servers, Restart(s)
      PROVE  IInv'
  BY <1>3 DEF Restart, TypeOK, SessionsTypeOK
<1>4. ASSUME NEW s \in Servers, Hang(s)
      PROVE  IInv'
  BY <1>4 DEF Hang, TypeOK, SessionsTypeOK
<1>5. ASSUME NEW s \in Servers, Resume(s)
      PROVE  IInv'
  BY <1>5 DEF Resume, TypeOK, SessionsTypeOK
<1>6. ASSUME NEW s \in Servers, AnswerLate(s)
      PROVE  IInv'
  BY <1>6 DEF AnswerLate, TypeOK, SessionsTypeOK
<1>7. ASSUME NEW s \in Servers, ChangeTools(s)
      PROVE  IInv'
  BY <1>7 DEF ChangeTools, TypeOK, SessionsTypeOK
<1>8. ASSUME NEW s \in Servers, KillProcess(s)
      PROVE  IInv'
  BY <1>8 DEF KillProcess, SessionsBreak, TypeOK, SessionsTypeOK
<1> QED BY <1>1, <1>2, <1>3, <1>4, <1>5, <1>6, <1>7, <1>8 DEF ServerStep

\* All of the invariant together: the steps above cover Next.
THEOREM InductiveInvariant == Spec => []IInv
<1>1. Init => IInv
  <2> SUFFICES ASSUME Init PROVE IInv
    OBVIOUS
  <2>1. TypeOK
    BY TypeInit
  <2> QED
    BY <2>1 DEF Init, SessionsInit, IInv, StartInv, OwnerInv, SessionInv, ProbeInv, CloseInv,
                FaultInv, ReconnectingIsOwned, ProbeIsCurrent, ConnectedHasSession,
                NoLeakedSession, OneSessionPerFault, Unhurt, NoSession
<1>2. IInv /\ [Next]_vars => IInv'
  <2> SUFFICES ASSUME IInv, [Next]_vars
               PROVE  IInv'
    OBVIOUS
  <2>1. CASE UNCHANGED vars
    <3>1. TypeOK'
      BY <2>1, TypeStep DEF IInv
    <3> QED
      BY <2>1, <3>1
         DEF vars, IInv, StartInv, OwnerInv, SessionInv, ProbeInv, CloseInv, FaultInv,
             ReconnectingIsOwned, ProbeIsCurrent, ConnectedHasSession, NoLeakedSession,
             OneSessionPerFault, Unhurt, newVars, entryVars, connVars, recVars, supVars,
             refVars, closeVars, serverVars, sessVars
  <2> QED
    BY <2>1, ConnectInv, HandlerInv, NewInv, ReconnectInv, SupervisorInv, RefreshInv,
       CloseStepInv, EnvironmentInv DEF Next
<1> QED BY <1>1, <1>2, PTL DEF Spec

-----------------------------------------------------------------------------
(* What follows from it *)

\* A connected entry has a session, so CallTool never calls through nil.
THEOREM ConnectedHasSessionHolds == Spec => []ConnectedHasSession
BY InductiveInvariant, PTL DEF IInv

\* reconnecting is set exactly while one reconnect goroutine owns the entry.
THEOREM ReconnectingIsOwnedHolds == Spec => []ReconnectingIsOwned
BY InductiveInvariant, PTL DEF IInv, OwnerInv

\* A failing probe is about the entry's current session.
THEOREM ProbeIsCurrentHolds == Spec => []ProbeIsCurrent
BY InductiveInvariant, PTL DEF IInv, ProbeInv

\* Every session but the first is paid for by a crash, a hang or an error
\* answer of the server.
THEOREM OneSessionPerFaultHolds == Spec => []OneSessionPerFault
BY InductiveInvariant, PTL DEF IInv, FaultInv

\* No path of connect or reconnectServer leaks an open session.
THEOREM NoLeakedSessionHolds == Spec => []NoLeakedSession
BY InductiveInvariant, PTL DEF IInv

\* A server that is down is being reconnected, until the context is done.
THEOREM DownIsBeingRepairedHolds == Spec => []DownIsBeingRepaired
<1>1. IInv => DownIsBeingRepaired
  BY DEF IInv, OwnerInv, DownIsBeingRepaired
<1> QED BY <1>1, InductiveInvariant, PTL

\* What a step does to the sessions and states of the entries: nothing, or
\* one server is lost, or one is regained through a younger session when the
\* old one is closed.
LEMMA EntryStep ==
    ASSUME IInv, [Next]_vars
    PROVE  \/ UNCHANGED <<session, state>>
           \/ \E s \in Servers :
                 /\ state[s] = "connected"
                 /\ state' = [state EXCEPT ![s] = "down"]
                 /\ session' = session
           \/ \E s \in Servers :
                 /\ state[s] = "down"
                 /\ state' = [state EXCEPT ![s] = "connected"]
                 /\ session' = [session EXCEPT ![s] = last[s]]
                 /\ session[s] < last[s]
                 /\ session[s] \notin open[s] \cup closing[s]
<1> USE DEF newVars, entryVars, connVars, recVars, supVars, refVars, closeVars, envVars,
            serverVars, sessVars
<1>1. CASE UNCHANGED vars
  BY <1>1 DEF vars
<1>2. CASE NewReturns
  BY <1>2 DEF NewReturns
<1>3. CASE runSupervisor
  BY <1>3 DEF runSupervisor, supervisorTicks, supervisorStops, supervisorRests,
              supervisorVisits, probeReads, probeSucceeds, probeFails, probeOverdue,
              probeReturns, supervisorChecksCtx, supervisorSpawns, supervisorUnchanged
<1>4. CASE CloseCancels \/ CloseStep
  BY <1>4 DEF CloseCancels, CloseStep, CloseLocks, CloseUnlocks, CloseCloses, CloseClosed,
              closeUnchanged
<1>5. CASE Environment
  BY <1>5 DEF Environment
<1>6. ASSUME NEW s \in Servers, connect(s)
      PROVE  UNCHANGED <<session, state>>
  BY <1>6 DEF connect, connectDials, connectDialFails, connectFetches, connectFetchFails,
              connectDiscards, connectUnchanged
<1>7. ASSUME NEW s \in Servers, ToolListChangedHandler(s) \/ runToolRefresh(s)
      PROVE  UNCHANGED <<session, state>>
  BY <1>7 DEF ToolListChangedHandler, runToolRefresh, refreshReceives, refreshStops,
              refreshChecks, refreshReads, refreshFetches, refreshFails, refreshOverdue,
              refreshReturns, refreshSwaps, refreshUnchanged
<1>8. ASSUME NEW s \in Servers, NewRegisters(s), conn[s] # "ok"
      PROVE  UNCHANGED <<session, state>>
  BY <1>8 DEF NewRegisters
<1>9. ASSUME NEW s \in Servers, NewRegisters(s), conn[s] = "ok"
      PROVE  /\ state[s] = "down"
             /\ state' = [state EXCEPT ![s] = "connected"]
             /\ session' = [session EXCEPT ![s] = last[s]]
             /\ session[s] < last[s]
             /\ session[s] \notin open[s] \cup closing[s]
  BY <1>9 DEF NewRegisters, IInv, StartInv, SessionInv, TypeOK, SessionsTypeOK, NoSession
<1>10. ASSUME NEW s \in Servers, reconnectMarksDown(s)
       PROVE  \/ UNCHANGED <<session, state>>
              \/ state[s] = "connected" /\ state' = [state EXCEPT ![s] = "down"] /\ session' = session
  BY <1>10 DEF reconnectMarksDown, IInv, TypeOK
<1>11. ASSUME NEW s \in Servers, reconnectSwaps(s)
       PROVE  /\ state[s] = "down"
              /\ state' = [state EXCEPT ![s] = "connected"]
              /\ session' = [session EXCEPT ![s] = last[s]]
              /\ session[s] < last[s]
              /\ session[s] \notin open[s] \cup closing[s]
  BY <1>11 DEF reconnectSwaps, IInv, SessionInv
<1>12. ASSUME NEW s \in Servers, reconnectServer(s),
              ~reconnectMarksDown(s), ~reconnectSwaps(s)
       PROVE  UNCHANGED <<session, state>>
  BY <1>12 DEF reconnectServer, reconnectClosesOld, reconnectClosedOld, reconnectGivesUp,
               reconnectAttempts, reconnectFails, reconnectLoops, reconnectClears,
               reconnectReports
<1> QED
  BY <1>1, <1>2, <1>3, <1>4, <1>5, <1>6, <1>7, <1>8, <1>9, <1>10, <1>11, <1>12 DEF Next

\* A session is replaced only when its Close has returned.
THEOREM ReplacedAfterCloseHolds == Spec => ReplacedAfterClose
<1>1. IInv /\ [Next]_vars =>
        [\A s \in Servers :
            session'[s] # session[s] => session[s] \notin open[s] \cup closing[s]]_vars
  BY EntryStep DEF IInv, TypeOK
<1> QED BY <1>1, InductiveInvariant, PTL DEF Spec, ReplacedAfterClose

\* The lifecycle implements the abstract specification of availability.
THEOREM Refinement == Spec => ImplementsAvailability
<1>1. Init => Contract!Init
  BY DEF Init, Contract!Init, NoSession
<1>2. IInv /\ [Next]_vars => [Contract!Next]_<<state, session>>
  <2> SUFFICES ASSUME IInv, [Next]_vars
               PROVE  [Contract!Next]_<<state, session>>
    OBVIOUS
  <2>0. session \in [Servers -> Nat] /\ last \in [Servers -> Nat]
    BY DEF IInv, TypeOK, SessionsTypeOK
  <2>1. CASE UNCHANGED <<session, state>>
    BY <2>1
  <2>2. ASSUME NEW s \in Servers,
               state[s] = "connected",
               state' = [state EXCEPT ![s] = "down"],
               session' = session
        PROVE  Contract!Next
    BY <2>2 DEF Contract!Next, Contract!Lose
  <2>3. ASSUME NEW s \in Servers,
               state[s] = "down",
               state' = [state EXCEPT ![s] = "connected"],
               session' = [session EXCEPT ![s] = last[s]],
               session[s] < last[s]
        PROVE  Contract!Next
    <3>1. session'[s] = last[s]
      BY <2>0, <2>3
    <3>2. session' = [session EXCEPT ![s] = session'[s]]
      BY <2>3, <3>1
    <3>3. Contract!Gain(s)
      BY <2>0, <2>3, <3>1, <3>2 DEF Contract!Gain
    <3> QED BY <3>3 DEF Contract!Next
  <2> QED BY <2>1, <2>2, <2>3, EntryStep
<1> QED BY <1>1, <1>2, InductiveInvariant, PTL DEF Spec, ImplementsAvailability, Contract!Spec
=============================================================================
