------------------------------ MODULE Lifecycle -----------------------------
(***************************************************************************)
(* The life of the server entries of a Multiplexer: New connects every     *)
(* server, and then four kinds of goroutines work on the entries: one      *)
(* health-check supervisor (runSupervisor), a reconnectServer goroutine    *)
(* for a server that is down, one runToolRefresh goroutine per server, and *)
(* the caller of Close.  Each step is a section of code between two points *)
(* where another goroutine can be seen: a lock, an atomic, a channel       *)
(* operation, a remote call, or a user callback.  A local variable that is *)
(* no longer used goes back to its initial value.                          *)
(***************************************************************************)
EXTENDS Sessions

CONSTANTS Supervised,   \* is WithHealthCheck given?
          BackoffCap    \* longest backoff, 60 (seconds) in the code

ASSUME LifecycleAssumption ==
    /\ Supervised \in BOOLEAN
    /\ BackoffCap \in Nat \ {0}

VARIABLES
    phase,        \* "starting" while New runs, "running" once it returned
    registered,   \* servers in mx.servers
    \* the fields of serverEntry, per server
    session,      \* entry.session: a session number or NoSession
    tools,        \* entry.tools: version, and the session it was fetched on
    state,        \* entry.state
    reconnecting, \* entry.reconnecting
    refreshCh,    \* entry.refreshCh (capacity 1) holds a signal
    \* a call of connect in progress (by New or reconnectServer), per server
    conn, connTools,
    \* reconnectServer, per server
    rec, backoff,
    okcb,         \* goroutines about to run onReconnect(name, nil)
    \* runSupervisor: its loop, and where it is with each server
    supervisor, sup, supSess,
    \* runToolRefresh / applyToolRefresh, per server
    ref, refSess, refTools,
    \* Close: its progress, and where it is with each entry
    closePc, cl, closeSess

newVars == <<phase, registered>>
entryVars == <<session, tools, state, reconnecting>>
connVars == <<conn, connTools>>
recVars == <<rec, backoff, okcb>>
supVars == <<supervisor, sup, supSess>>
refVars == <<ref, refSess, refTools>>
closeVars == <<closePc, cl, closeSess>>
envVars == <<cancelled, serverVars, sessVars>>
vars == <<newVars, entryVars, refreshCh, connVars, recVars, supVars, refVars,
          closeVars, cancelled, serverVars, sessVars>>

NoSession == 0
NoTools == [ver |-> 0, from |-> NoSession]
Tools == [ver : Nat, from : Nat]

\* Variant: the cap is forgotten.
nextBackoffUncapped(cur) == IF cur = 0 THEN 1 ELSE 2 * cur

\* nextBackoff doubles, starting at 1 s and capped.
nextBackoff(cur) ==
    IF cur = 0 THEN 1
    ELSE IF 2 * cur > BackoffCap THEN BackoffCap ELSE 2 * cur

\* mx.mu is write-locked only by Close, for as long as it closes sessions.
MuFree == closePc # "locked"

\* Type invariant; the backoff stays between 1 s and the cap.
TypeOK ==
    /\ SessionsTypeOK
    /\ phase \in {"starting", "running"}
    /\ registered \subseteq Servers
    /\ session \in [Servers -> Nat]
    /\ tools \in [Servers -> Tools]
    /\ state \in [Servers -> {"connected", "down"}]
    /\ reconnecting \in [Servers -> BOOLEAN]
    /\ refreshCh \in [Servers -> BOOLEAN]
    /\ conn \in [Servers -> {"idle", "dial", "fetch", "discard", "ok", "err"}]
    /\ connTools \in [Servers -> Tools]
    /\ rec \in [Servers -> {"none", "start", "close", "closing", "backoff",
                            "connect", "errcb", "clear"}]
    /\ backoff \in [Servers -> 0..BackoffCap]
    /\ okcb \in [Servers -> Nat]
    /\ supervisor \in {"off", "wait", "scan"}
    /\ sup \in [Servers -> {"idle", "todo", "read", "probe", "overdue",
                            "failed", "spawn"}]
    /\ supSess \in [Servers -> Nat]
    /\ ref \in [Servers -> {"off", "idle", "check", "read", "fetch", "overdue", "swap"}]
    /\ refSess \in [Servers -> Nat]
    /\ refTools \in [Servers -> Tools]
    /\ closePc \in {"open", "lock", "locked", "done"}
    /\ cl \in [Servers -> {"todo", "closing", "done"}]
    /\ closeSess \in [Servers -> Nat]

Init ==
    /\ SessionsInit
    /\ phase = "starting"
    /\ registered = {}
    /\ session = [s \in Servers |-> NoSession]
    /\ tools = [s \in Servers |-> NoTools]
    /\ state = [s \in Servers |-> "down"]
    /\ reconnecting = [s \in Servers |-> FALSE]
    /\ refreshCh = [s \in Servers |-> FALSE]
    /\ conn = [s \in Servers |-> "dial"]
    /\ connTools = [s \in Servers |-> NoTools]
    /\ rec = [s \in Servers |-> "none"]
    /\ backoff = [s \in Servers |-> 0]
    /\ okcb = [s \in Servers |-> 0]
    /\ supervisor = "off"
    /\ sup = [s \in Servers |-> "idle"]
    /\ supSess = [s \in Servers |-> NoSession]
    /\ ref = [s \in Servers |-> "off"]
    /\ refSess = [s \in Servers |-> NoSession]
    /\ refTools = [s \in Servers |-> NoTools]
    /\ closePc = "open"
    /\ cl = [s \in Servers |-> "done"]
    /\ closeSess = [s \in Servers |-> NoSession]

-----------------------------------------------------------------------------
(* connect: dial, list the tools, give the session up if that fails. *)

connectUnchanged ==
    UNCHANGED <<newVars, entryVars, refreshCh, recVars, supVars, refVars,
                closeVars, cancelled, serverVars>>

\* newTransport and client.Connect succeed.
connectDials(s) ==
    /\ conn[s] = "dial"
    /\ Dial(s)
    /\ conn' = [conn EXCEPT ![s] = "fetch"]
    /\ UNCHANGED connTools
    /\ connectUnchanged

\* ... or fail: there is no server, it answers with an error, or the context
\* is cancelled.  With no deadline of its own the dial waits out a hung
\* server, and over HTTP so does its cancellation.
connectDialFails(s) ==
    /\ conn[s] = "dial"
    /\ \/ /\ health[s] = "down" \/ cancelled
          /\ health[s] = "hung" => s \in Stdio
          /\ UNCHANGED faults
       \/ Refuses(s)
    /\ conn' = [conn EXCEPT ![s] = "err"]
    /\ UNCHANGED <<connTools, last, open, closing, stuck>>
    /\ connectUnchanged

\* fetchTools succeeds on the session just established.
connectFetches(s) ==
    /\ conn[s] = "fetch"
    /\ Answered(s, last[s])
    /\ conn' = [conn EXCEPT ![s] = "ok"]
    /\ connTools' = [connTools EXCEPT ![s] = [ver |-> remote[s], from |-> last[s]]]
    /\ UNCHANGED sessVars
    /\ connectUnchanged

\* fetchTools fails: the session broke, the context is cancelled (there is no
\* deadline either) or the server answers with an error.
fetchToolsFails(s) ==
    \/ /\ last[s] \notin open[s] \/ cancelled
       /\ ~NoticeBlocks(s, last[s])
       /\ UNCHANGED faults
    \/ last[s] \in open[s] /\ Refuses(s)

\* Variant: the session is not closed when listing its tools fails.
connectFetchFailsLeaking(s) ==
    /\ conn[s] = "fetch"
    /\ fetchToolsFails(s)
    /\ conn' = [conn EXCEPT ![s] = "err"]
    /\ UNCHANGED <<connTools, last, open, closing, stuck>>
    /\ connectUnchanged

\* fetchTools fails and the session is closed.
connectFetchFails(s) ==
    /\ conn[s] = "fetch"
    /\ fetchToolsFails(s)
    /\ conn' = [conn EXCEPT ![s] = "discard"]
    /\ CloseBegins(s, last[s])
    /\ \E left \in Leftovers(s, last[s]) : stuck' = [stuck EXCEPT ![s] = @ \cup left]
    /\ UNCHANGED <<connTools, last>>
    /\ connectUnchanged

connectDiscards(s) ==
    /\ conn[s] = "discard"
    /\ CloseReturns(s, last[s])
    /\ conn' = [conn EXCEPT ![s] = "err"]
    /\ UNCHANGED connTools
    /\ connectUnchanged

connect(s) ==
    \/ connectDials(s) \/ connectDialFails(s)
    \/ connectFetches(s) \/ connectFetchFails(s) \/ connectDiscards(s)

\* ToolListChangedHandler, run by the session's reader: a non-blocking send.
ToolListChangedHandler(s) ==
    \E n \in notif[s] \cap open[s] :
        /\ health[s] = "up"
        /\ notif' = [notif EXCEPT ![s] = @ \ {n}]
        /\ refreshCh' = [refreshCh EXCEPT ![s] = TRUE]
        /\ UNCHANGED <<newVars, entryVars, connVars, recVars, supVars, refVars,
                       closeVars, cancelled, health, remote, sessVars>>

-----------------------------------------------------------------------------
(* New: register an entry, or a stub, per server; then start the goroutines. *)

\* Variant: a stub registered as connected.
NewRegistersOptimistic(s) ==
    /\ phase = "starting"
    /\ conn[s] \in {"ok", "err"}
    /\ conn' = [conn EXCEPT ![s] = "idle"]
    /\ connTools' = [connTools EXCEPT ![s] = NoTools]
    /\ registered' = registered \cup {s}
    /\ session' = [session EXCEPT ![s] = IF conn[s] = "ok" THEN last[s] ELSE NoSession]
    /\ tools' = [tools EXCEPT ![s] = connTools[s]]
    /\ state' = [state EXCEPT ![s] = "connected"]
    /\ reconnecting' = [reconnecting EXCEPT ![s] = conn[s] = "err"]
    /\ UNCHANGED <<phase, refreshCh, recVars, supVars, refVars, closeVars, envVars>>

\* One goroutine of New's wait group ends.
NewRegisters(s) ==
    /\ phase = "starting"
    /\ conn[s] \in {"ok", "err"}
    /\ conn' = [conn EXCEPT ![s] = "idle"]
    /\ connTools' = [connTools EXCEPT ![s] = NoTools]
    /\ registered' = registered \cup {s}
    /\ IF conn[s] = "ok"
       THEN /\ session' = [session EXCEPT ![s] = last[s]]
            /\ tools' = [tools EXCEPT ![s] = connTools[s]]
            /\ state' = [state EXCEPT ![s] = "connected"]
            /\ UNCHANGED reconnecting
       ELSE /\ reconnecting' = [reconnecting EXCEPT ![s] = TRUE]
            /\ UNCHANGED <<session, tools, state>>
    /\ UNCHANGED <<phase, refreshCh, recVars, supVars, refVars,
                   closeVars, envVars>>

\* After wg.Wait: reconnect the failed servers, start the loops.
NewReturns ==
    /\ phase = "starting"
    /\ registered = Servers
    /\ phase' = "running"
    /\ rec' = [s \in Servers |-> IF reconnecting[s] THEN "start" ELSE "none"]
    /\ ref' = [s \in Servers |-> "idle"]
    /\ supervisor' = IF Supervised THEN "wait" ELSE "off"
    /\ UNCHANGED <<registered, entryVars, refreshCh, connVars, backoff, okcb,
                   sup, supSess, refSess, refTools, closeVars, envVars>>

-----------------------------------------------------------------------------
(* reconnectServer *)

reconnectUnchanged ==
    UNCHANGED <<newVars, refreshCh, supVars, refVars, closeVars, cancelled, serverVars>>

\* Variant: the old session is left alone.
reconnectMarksDownKeeping(s) ==
    /\ rec[s] = "start"
    /\ MuFree
    /\ state' = [state EXCEPT ![s] = "down"]
    /\ rec' = [rec EXCEPT ![s] = "backoff"]
    /\ backoff' = [backoff EXCEPT ![s] = nextBackoff(0)]
    /\ UNCHANGED <<session, tools, reconnecting, connVars, okcb, sessVars>>
    /\ reconnectUnchanged

\* Variant: the server keeps being shown as connected.
reconnectMarksDownSilently(s) ==
    /\ rec[s] = "start"
    /\ MuFree
    /\ IF session[s] = NoSession
       THEN /\ rec' = [rec EXCEPT ![s] = "backoff"]
            /\ backoff' = [backoff EXCEPT ![s] = nextBackoff(0)]
       ELSE /\ rec' = [rec EXCEPT ![s] = "close"]
            /\ UNCHANGED backoff
    /\ UNCHANGED <<entryVars, connVars, okcb, sessVars>>
    /\ reconnectUnchanged

\* Mark the server down and read the session to close.
reconnectMarksDown(s) ==
    /\ rec[s] = "start"
    /\ MuFree
    /\ state' = [state EXCEPT ![s] = "down"]
    /\ IF session[s] = NoSession
       THEN /\ rec' = [rec EXCEPT ![s] = "backoff"]
            /\ backoff' = [backoff EXCEPT ![s] = nextBackoff(0)]
       ELSE /\ rec' = [rec EXCEPT ![s] = "close"]
            /\ UNCHANGED backoff
    /\ UNCHANGED <<session, tools, reconnecting, connVars, okcb, sessVars>>
    /\ reconnectUnchanged

\* oldSession.Close(): oldSession is still entry.session, which only this
\* goroutine assigns.
reconnectClosesOld(s) ==
    /\ rec[s] = "close"
    /\ rec' = [rec EXCEPT ![s] = "closing"]
    /\ CloseBegins(s, session[s])
    /\ UNCHANGED <<entryVars, connVars, backoff, okcb, faults, last, stuck>>
    /\ reconnectUnchanged

reconnectClosedOld(s) ==
    /\ rec[s] = "closing"
    /\ CloseReturns(s, session[s])
    /\ rec' = [rec EXCEPT ![s] = "backoff"]
    /\ backoff' = [backoff EXCEPT ![s] = nextBackoff(0)]
    /\ UNCHANGED <<entryVars, connVars, okcb>>
    /\ reconnectUnchanged

\* Variant: the flag stays set when the goroutine ends.
reconnectGivesUpSilently(s) ==
    /\ rec[s] = "backoff"
    /\ cancelled
    /\ rec' = [rec EXCEPT ![s] = "none"]
    /\ backoff' = [backoff EXCEPT ![s] = 0]
    /\ UNCHANGED <<entryVars, connVars, okcb, sessVars>>
    /\ reconnectUnchanged

\* Variant: the backoff is slept without watching the context.
reconnectGivesUpNever(s) ==
    /\ FALSE
    /\ UNCHANGED <<entryVars, connVars, recVars, sessVars>>
    /\ reconnectUnchanged

\* case <-ctx.Done()
reconnectGivesUp(s) ==
    /\ rec[s] = "backoff"
    /\ cancelled
    /\ reconnecting' = [reconnecting EXCEPT ![s] = FALSE]
    /\ rec' = [rec EXCEPT ![s] = "none"]
    /\ backoff' = [backoff EXCEPT ![s] = 0]
    /\ UNCHANGED <<session, tools, state, connVars, okcb, sessVars>>
    /\ reconnectUnchanged

\* case <-time.After(backoff), then entry.config is read under mx.mu
reconnectAttempts(s) ==
    /\ rec[s] = "backoff"
    /\ MuFree
    /\ rec' = [rec EXCEPT ![s] = "connect"]
    /\ conn' = [conn EXCEPT ![s] = "dial"]
    /\ UNCHANGED <<entryVars, connTools, backoff, okcb, sessVars>>
    /\ reconnectUnchanged

\* connect returned an error: onReconnect(name, err) runs ...
reconnectFails(s) ==
    /\ rec[s] = "connect"
    /\ conn[s] = "err"
    /\ conn' = [conn EXCEPT ![s] = "idle"]
    /\ rec' = [rec EXCEPT ![s] = "errcb"]
    /\ UNCHANGED <<entryVars, connTools, backoff, okcb, sessVars>>
    /\ reconnectUnchanged

\* Variant: one attempt and no more.
reconnectLoopsOnce(s) ==
    /\ rec[s] = "errcb"
    /\ rec' = [rec EXCEPT ![s] = "none"]
    /\ reconnecting' = [reconnecting EXCEPT ![s] = FALSE]
    /\ UNCHANGED <<session, tools, state, connVars, backoff, okcb, sessVars>>
    /\ reconnectUnchanged

\* Variant: the goroutine ends after a failure with the flag still set, so
\* that the supervisor skips the server for ever.
reconnectLoopsAbandoning(s) ==
    /\ rec[s] = "errcb"
    /\ rec' = [rec EXCEPT ![s] = "none"]
    /\ UNCHANGED <<entryVars, connVars, backoff, okcb, sessVars>>
    /\ reconnectUnchanged

\* ... and the loop starts again with a longer backoff.
reconnectLoops(s) ==
    /\ rec[s] = "errcb"
    /\ rec' = [rec EXCEPT ![s] = "backoff"]
    /\ backoff' = [backoff EXCEPT ![s] = nextBackoff(backoff[s])]
    /\ UNCHANGED <<entryVars, connVars, okcb, sessVars>>
    /\ reconnectUnchanged

\* The new session, its tools and the state are stored under entry.mu.
reconnectSwaps(s) ==
    /\ rec[s] = "connect"
    /\ conn[s] = "ok"
    /\ session' = [session EXCEPT ![s] = last[s]]
    /\ tools' = [tools EXCEPT ![s] = connTools[s]]
    /\ state' = [state EXCEPT ![s] = "connected"]
    /\ conn' = [conn EXCEPT ![s] = "idle"]
    /\ connTools' = [connTools EXCEPT ![s] = NoTools]
    /\ rec' = [rec EXCEPT ![s] = "clear"]
    /\ UNCHANGED <<reconnecting, backoff, okcb, sessVars>>
    /\ reconnectUnchanged

\* entry.reconnecting.Store(false); the goroutine only has its callback left.
reconnectClears(s) ==
    /\ rec[s] = "clear"
    /\ reconnecting' = [reconnecting EXCEPT ![s] = FALSE]
    /\ rec' = [rec EXCEPT ![s] = "none"]
    /\ backoff' = [backoff EXCEPT ![s] = 0]
    /\ okcb' = [okcb EXCEPT ![s] = @ + 1]
    /\ UNCHANGED <<session, tools, state, connVars, sessVars>>
    /\ reconnectUnchanged

\* onReconnect(name, nil) has run and the goroutine ends.
reconnectReports(s) ==
    /\ okcb[s] > 0
    /\ okcb' = [okcb EXCEPT ![s] = @ - 1]
    /\ UNCHANGED <<entryVars, connVars, rec, backoff, sessVars>>
    /\ reconnectUnchanged

reconnectServer(s) ==
    \/ reconnectMarksDown(s) \/ reconnectClosesOld(s) \/ reconnectClosedOld(s)
    \/ reconnectGivesUp(s) \/ reconnectAttempts(s) \/ reconnectFails(s)
    \/ reconnectLoops(s) \/ reconnectSwaps(s) \/ reconnectClears(s)
    \/ reconnectReports(s)

-----------------------------------------------------------------------------
(* runSupervisor and probeServer *)

supervisorUnchanged ==
    UNCHANGED <<newVars, session, tools, state, refreshCh, connVars, backoff,
                okcb, refVars, closeVars, cancelled, serverVars>>

\* case <-ticker.C: list the servers to visit in this round.
supervisorTicks ==
    /\ supervisor = "wait"
    /\ MuFree
    /\ supervisor' = "scan"
    /\ sup' = [s \in Servers |-> "todo"]
    /\ UNCHANGED <<supSess, reconnecting, rec, sessVars>>
    /\ supervisorUnchanged

\* case <-ctx.Done()
supervisorStops ==
    /\ supervisor = "wait"
    /\ cancelled
    /\ supervisor' = "off"
    /\ UNCHANGED <<sup, supSess, reconnecting, rec, sessVars>>
    /\ supervisorUnchanged

\* Variant: servers being reconnected are probed as well.
supervisorVisitsAll(s) ==
    /\ sup[s] = "todo"
    /\ \A t \in Servers : sup[t] \in {"idle", "todo"}
    /\ MuFree
    /\ sup' = [sup EXCEPT ![s] = "read"]
    /\ UNCHANGED <<supervisor, supSess, reconnecting, rec, sessVars>>
    /\ supervisorUnchanged

\* Take the next server, in any order; skip it if it is being reconnected.
supervisorVisits(s) ==
    /\ sup[s] = "todo"
    /\ \A t \in Servers : sup[t] \in {"idle", "todo"}
    /\ MuFree
    /\ sup' = [sup EXCEPT ![s] = IF reconnecting[s] THEN "idle" ELSE "read"]
    /\ UNCHANGED <<supervisor, supSess, reconnecting, rec, sessVars>>
    /\ supervisorUnchanged

\* probeServer reads the session; with none the probe fails at once.
probeReads(s) ==
    /\ sup[s] = "read"
    /\ MuFree
    /\ sup' = [sup EXCEPT ![s] = IF session[s] = NoSession THEN "failed" ELSE "probe"]
    /\ supSess' = [supSess EXCEPT ![s] = session[s]]
    /\ UNCHANGED <<supervisor, reconnecting, rec, sessVars>>
    /\ supervisorUnchanged

probeSucceeds(s) ==
    /\ sup[s] = "probe"
    /\ Answered(s, supSess[s])
    /\ sup' = [sup EXCEPT ![s] = "idle"]
    /\ supSess' = [supSess EXCEPT ![s] = NoSession]
    /\ UNCHANGED <<supervisor, reconnecting, rec, sessVars>>
    /\ supervisorUnchanged

probeFails(s) ==
    /\ sup[s] = "probe"
    /\ CallFails(s, supSess[s])
    /\ sup' = [sup EXCEPT ![s] = "failed"]
    /\ UNCHANGED <<supervisor, supSess, reconnecting, rec>>
    /\ supervisorUnchanged

\* The probe's timeout passes over HTTP: its cancel notice has to go out first.
probeOverdue(s) ==
    /\ sup[s] = "probe"
    /\ CallOverdue(s, supSess[s])
    /\ sup' = [sup EXCEPT ![s] = "overdue"]
    /\ UNCHANGED <<supervisor, supSess, reconnecting, rec>>
    /\ supervisorUnchanged

probeReturns(s) ==
    /\ sup[s] = "overdue"
    /\ NoticeReturns(s)
    /\ sup' = [sup EXCEPT ![s] = "failed"]
    /\ UNCHANGED <<supervisor, supSess, reconnecting, rec>>
    /\ supervisorUnchanged

\* if ctx.Err() != nil return
supervisorChecksCtx(s) ==
    /\ sup[s] = "failed"
    /\ IF cancelled
       THEN /\ supervisor' = "off"
            /\ sup' = [t \in Servers |-> "idle"]
            /\ supSess' = [supSess EXCEPT ![s] = NoSession]
       ELSE /\ sup' = [sup EXCEPT ![s] = "spawn"]
            /\ UNCHANGED <<supervisor, supSess>>
    /\ UNCHANGED <<reconnecting, rec, sessVars>>
    /\ supervisorUnchanged

\* CompareAndSwap(false, true), and on success go reconnectServer.
supervisorSpawns(s) ==
    /\ sup[s] = "spawn"
    /\ sup' = [sup EXCEPT ![s] = "idle"]
    /\ supSess' = [supSess EXCEPT ![s] = NoSession]
    /\ IF reconnecting[s]
       THEN UNCHANGED <<reconnecting, rec>>
       ELSE /\ reconnecting' = [reconnecting EXCEPT ![s] = TRUE]
            /\ rec' = [rec EXCEPT ![s] = "start"]
    /\ UNCHANGED <<supervisor, sessVars>>
    /\ supervisorUnchanged

\* All servers visited: back to the select.
supervisorRests ==
    /\ supervisor = "scan"
    /\ \A s \in Servers : sup[s] = "idle"
    /\ supervisor' = "wait"
    /\ UNCHANGED <<sup, supSess, reconnecting, rec, sessVars>>
    /\ supervisorUnchanged

runSupervisor ==
    \/ supervisorTicks \/ supervisorStops \/ supervisorRests
    \/ \E s \in Servers :
          \/ supervisorVisits(s) \/ probeReads(s) \/ probeSucceeds(s)
          \/ probeFails(s) \/ probeOverdue(s) \/ probeReturns(s)
          \/ supervisorChecksCtx(s) \/ supervisorSpawns(s)

-----------------------------------------------------------------------------
(* runToolRefresh and applyToolRefresh *)

refreshUnchanged ==
    UNCHANGED <<newVars, session, state, reconnecting, connVars, recVars,
                supVars, closeVars, cancelled, serverVars>>

\* case <-entry.refreshCh
refreshReceives(s) ==
    /\ ref[s] = "idle"
    /\ refreshCh[s]
    /\ refreshCh' = [refreshCh EXCEPT ![s] = FALSE]
    /\ ref' = [ref EXCEPT ![s] = "check"]
    /\ UNCHANGED <<tools, refSess, refTools, sessVars>>
    /\ refreshUnchanged

\* case <-ctx.Done()
refreshStops(s) ==
    /\ ref[s] = "idle"
    /\ cancelled
    /\ ref' = [ref EXCEPT ![s] = "off"]
    /\ UNCHANGED <<refreshCh, tools, refSess, refTools, sessVars>>
    /\ refreshUnchanged

\* A no-op while a reconnect is in progress.
refreshChecks(s) ==
    /\ ref[s] = "check"
    /\ ref' = [ref EXCEPT ![s] = IF reconnecting[s] THEN "idle" ELSE "read"]
    /\ UNCHANGED <<refreshCh, tools, refSess, refTools, sessVars>>
    /\ refreshUnchanged

refreshReads(s) ==
    /\ ref[s] = "read"
    /\ ref' = [ref EXCEPT ![s] = IF session[s] = NoSession THEN "idle" ELSE "fetch"]
    /\ refSess' = [refSess EXCEPT ![s] = session[s]]
    /\ UNCHANGED <<refreshCh, tools, refTools, sessVars>>
    /\ refreshUnchanged

\* fetchTools is answered; the enrichers run before the list is stored.
refreshFetches(s) ==
    /\ ref[s] = "fetch"
    /\ Answered(s, refSess[s])
    /\ ref' = [ref EXCEPT ![s] = "swap"]
    /\ refTools' = [refTools EXCEPT ![s] = [ver |-> remote[s], from |-> refSess[s]]]
    /\ refSess' = [refSess EXCEPT ![s] = NoSession]
    /\ UNCHANGED <<refreshCh, tools, sessVars>>
    /\ refreshUnchanged

\* fetchTools fails or times out: the old list stays.
refreshFails(s) ==
    /\ ref[s] = "fetch"
    /\ CallFails(s, refSess[s])
    /\ ref' = [ref EXCEPT ![s] = "idle"]
    /\ refSess' = [refSess EXCEPT ![s] = NoSession]
    /\ UNCHANGED <<refreshCh, tools, refTools>>
    /\ refreshUnchanged

\* The timeout passes over HTTP: as for a probe.
refreshOverdue(s) ==
    /\ ref[s] = "fetch"
    /\ CallOverdue(s, refSess[s])
    /\ ref' = [ref EXCEPT ![s] = "overdue"]
    /\ UNCHANGED <<refreshCh, tools, refSess, refTools>>
    /\ refreshUnchanged

refreshReturns(s) ==
    /\ ref[s] = "overdue"
    /\ NoticeReturns(s)
    /\ ref' = [ref EXCEPT ![s] = "idle"]
    /\ refSess' = [refSess EXCEPT ![s] = NoSession]
    /\ UNCHANGED <<refreshCh, tools, refTools>>
    /\ refreshUnchanged

\* Variant: the channel is drained once more after the refresh.
refreshSwapsDraining(s) ==
    /\ ref[s] = "swap"
    /\ tools' = [tools EXCEPT ![s] = refTools[s]]
    /\ ref' = [ref EXCEPT ![s] = "idle"]
    /\ refTools' = [refTools EXCEPT ![s] = NoTools]
    /\ refreshCh' = [refreshCh EXCEPT ![s] = FALSE]
    /\ UNCHANGED <<refSess, sessVars>>
    /\ refreshUnchanged

\* Store the list; onToolsChanged changes no state of the multiplexer.
refreshSwaps(s) ==
    /\ ref[s] = "swap"
    /\ tools' = [tools EXCEPT ![s] = refTools[s]]
    /\ ref' = [ref EXCEPT ![s] = "idle"]
    /\ refTools' = [refTools EXCEPT ![s] = NoTools]
    /\ UNCHANGED <<refreshCh, refSess, sessVars>>
    /\ refreshUnchanged

runToolRefresh(s) ==
    \/ refreshReceives(s) \/ refreshStops(s) \/ refreshChecks(s) \/ refreshReads(s)
    \/ refreshFetches(s) \/ refreshFails(s) \/ refreshOverdue(s) \/ refreshReturns(s)
    \/ refreshSwaps(s)

-----------------------------------------------------------------------------
(* Close: cancel, lock mx.mu, close the sessions one after the other. *)

closeUnchanged ==
    UNCHANGED <<newVars, entryVars, refreshCh, connVars, recVars, supVars,
                refVars, serverVars>>

CloseCancels ==
    /\ phase = "running"
    /\ closePc = "open"
    /\ closePc' = "lock"
    /\ cancelled' = TRUE
    /\ UNCHANGED <<cl, closeSess, sessVars>>
    /\ closeUnchanged

CloseLocks ==
    /\ closePc = "lock"
    /\ closePc' = "locked"
    /\ cl' = [s \in Servers |-> "todo"]
    /\ UNCHANGED <<closeSess, cancelled, sessVars>>
    /\ closeUnchanged

\* Read entry.session and call its Close, if there is one.
CloseCloses(s) ==
    /\ closePc = "locked"
    /\ cl[s] = "todo"
    /\ \A t \in Servers : cl[t] # "closing"
    /\ closeSess' = [closeSess EXCEPT ![s] = session[s]]
    /\ cl' = [cl EXCEPT ![s] = IF session[s] = NoSession THEN "done" ELSE "closing"]
    /\ CloseBegins(s, session[s])
    /\ UNCHANGED <<closePc, cancelled, faults, last, stuck>>
    /\ closeUnchanged

CloseClosed(s) ==
    /\ cl[s] = "closing"
    /\ CloseReturns(s, closeSess[s])
    /\ cl' = [cl EXCEPT ![s] = "done"]
    /\ closeSess' = [closeSess EXCEPT ![s] = NoSession]
    /\ UNCHANGED <<closePc, cancelled>>
    /\ closeUnchanged

\* Variant: Close joins the reconnect goroutines before it lets go of mx.mu.
CloseUnlocksJoining ==
    /\ closePc = "locked"
    /\ \A s \in Servers : cl[s] = "done" /\ rec[s] = "none"
    /\ closePc' = "done"
    /\ UNCHANGED <<cl, closeSess, cancelled, sessVars>>
    /\ closeUnchanged

CloseUnlocks ==
    /\ closePc = "locked"
    /\ \A s \in Servers : cl[s] = "done"
    /\ closePc' = "done"
    /\ UNCHANGED <<cl, closeSess, cancelled, sessVars>>
    /\ closeUnchanged

\* What Close does once it was called.
CloseStep ==
    CloseLocks \/ CloseUnlocks \/ \E s \in Servers : CloseCloses(s) \/ CloseClosed(s)

-----------------------------------------------------------------------------
Environment ==
    /\ CallerCancels \/ \E s \in Servers : ServerStep(s)
    /\ UNCHANGED <<newVars, entryVars, refreshCh, connVars, recVars, supVars,
                   refVars, closeVars>>

Next ==
    \/ NewReturns
    \/ runSupervisor
    \/ CloseCancels \/ CloseStep
    \/ Environment
    \/ \E s \in Servers :
          \/ connect(s) \/ ToolListChangedHandler(s) \/ NewRegisters(s)
          \/ reconnectServer(s) \/ runToolRefresh(s)

Spec == Init /\ [][Next]_vars
=============================================================================
