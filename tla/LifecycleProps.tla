--------------------------- MODULE LifecycleProps ---------------------------
(***************************************************************************)
(* What the goroutines of Lifecycle promise each other and the caller.     *)
(***************************************************************************)
EXTENDS Lifecycle

-----------------------------------------------------------------------------
(* Safety *)

\* An entry in state connected has a session: CallTool calls through the
\* session it snapshots once the state is not down, without a nil check.
ConnectedHasSession ==
    \A s \in Servers : state[s] = "connected" => session[s] # NoSession

\* entry.reconnecting is true exactly while a reconnectServer goroutine owns
\* the entry, so that there is never a second one.
ReconnectingIsOwned ==
    phase = "running" => \A s \in Servers : reconnecting[s] <=> rec[s] # "none"

\* A probe, from the moment it read the session to the moment its failure
\* starts a reconnect, is about the entry's current session: the supervisor
\* never tears down a session that replaced the one it found dead.
ProbeIsCurrent ==
    \A s \in Servers :
        sup[s] \in {"probe", "overdue", "failed", "spawn"} =>
            session[s] = supSess[s] /\ ~reconnecting[s]

\* Every session beyond the first is paid for by a crash, a hang or an error
\* answer of the server of its own: reconnecting never replaces a session
\* that answers its probes, and never opens two where one is needed.
OneSessionPerFault ==
    \A s \in Servers : last[s] <= 1 + faults[s]

\* An open session is the entry's, or the one connect is still working on:
\* no failure path of connect or reconnectServer leaks one.
NoLeakedSession ==
    \A s \in Servers : \A n \in open[s] :
        \/ n = session[s]
        \/ n = last[s] /\ conn[s] \in {"fetch", "ok"}

\* Until the context is cancelled, a server that is down always has a
\* reconnectServer goroutine working on it.
DownIsBeingRepaired ==
    phase = "running" /\ ~cancelled =>
        \A s \in Servers : state[s] = "down" => rec[s] # "none"

\* entry.session is replaced only once the Close of the old one returned.
ReplacedAfterClose ==
    [][\A s \in Servers :
          session'[s] # session[s] => session[s] \notin open[s] \cup closing[s]]_vars

Contract == INSTANCE Availability WITH status <- state, epoch <- session

\* ServerStatus and the session CallTool snapshots follow the abstract
\* specification: the session changes only from down to connected, and only
\* to a session younger than all before it.
ImplementsAvailability == Contract!Spec

\* Nothing is under way for server s: all signals about its tool list have
\* been consumed and acted on.
Settled(s) ==
    /\ phase = "running" /\ ~cancelled
    /\ state[s] = "connected" /\ session[s] \in open[s]
    /\ rec[s] = "none" /\ ref[s] = "idle"
    /\ ~refreshCh[s] /\ notif[s] = {}

\* applyToolRefresh is a no-op during a reconnect because reconnectServer
\* supplies fresh tools: a settled server's cached list is the one it serves.
SettledIsFresh ==
    \A s \in Servers : Settled(s) => tools[s].ver = remote[s]

-----------------------------------------------------------------------------
(* Liveness, for a multiplexer whose goroutines keep being scheduled. *)

\* Go's scheduler runs every goroutine that can run; a select with several
\* ready cases picks among them at random, hence the strong fairness of the
\* cases that end a loop.  Servers owe nothing but the delivery of a
\* notification on a healthy session; the operating system kills a
\* subprocess whose context is done.
Fairness ==
    /\ WF_vars(NewReturns)
    /\ WF_vars(runSupervisor) /\ SF_vars(supervisorStops)
    /\ WF_vars(CloseStep)
    /\ \A s \in Servers :
          /\ WF_vars(connect(s))
          /\ WF_vars(NewRegisters(s))
          /\ WF_vars(ToolListChangedHandler(s))
          /\ WF_vars(reconnectServer(s)) /\ SF_vars(reconnectGivesUp(s))
          /\ WF_vars(reconnectReports(s))
          /\ WF_vars(runToolRefresh(s)) /\ SF_vars(refreshStops(s))
          /\ WF_vars(Environment /\ KillProcess(s))

LiveSpec == Spec /\ Fairness

\* No HTTP server is silent: one that is keeps the goroutines that call it
\* waiting, whatever their timeouts.
NoneSilent == \A s \in Servers \ Stdio : health[s] # "hung" /\ stuck[s] = {}

\* With health checks on, a server that stays up, having answered or dropped
\* what it was asked before, is from some time on connected through an open
\* session, unless the context is cancelled or the supervisor is kept waiting
\* by a silent HTTP server.
Recovers ==
    \A s \in Servers :
        <>[](health[s] = "up" /\ stuck[s] = {} /\ ~cancelled /\ NoneSilent)
            => <>[](state[s] = "connected" /\ session[s] \in open[s])

\* Close returns, whatever the reconnect, probe and refresh goroutines are
\* doing and however often servers crash or hang meanwhile, unless an HTTP
\* server stays silent for ever; subprocesses, which are killed, may hang.
CloseTerminates == <>[]NoneSilent => (closePc = "lock" ~> closePc = "done")

AllStopped ==
    /\ phase = "running"
    /\ supervisor = "off"
    /\ \A s \in Servers : rec[s] = "none" /\ ref[s] = "off" /\ okcb[s] = 0

\* Once the context is cancelled every goroutine that New started ends, and so
\* does every subprocess, a hung one included, for good.
CancelEndsEverything ==
    /\ cancelled ~> AllStopped
    /\ cancelled ~> [](\A s \in Stdio : open[s] \cup closing[s] = {})

\* However many list_changed signals are merged in the refresh channel, the
\* cached tool list of a server that is never reconnected and never fails a
\* request catches up with the server's last list.  (A refresh that fails
\* keeps the old list and is not repeated.)
ToolsCatchUp ==
    \A s \in Servers :
        [](~cancelled /\ rec[s] = "none" /\ faults[s] = 0)
            => <>[](tools[s].ver = remote[s])

-----------------------------------------------------------------------------
(* What comments of the code say and the code does not keep. *)

\* Close shuts down all MCP sessions: when it has returned and every
\* goroutine has ended, no session is open.
CloseShutsDownAllSessions ==
    closePc = "done" /\ AllStopped => \A s \in Servers : open[s] = {}

\* reconnectServer marks the server as down and then loops until it
\* reconnects or the context is cancelled: it gets to its first attempt.
ReconnectAttempts ==
    \A s \in Servers : rec[s] = "close" ~> (rec[s] = "connect" \/ cancelled)

\* probeServer uses a probe timeout: a probe comes back.
ProbesTimeOut ==
    \A s \in Servers : sup[s] = "probe" ~> sup[s] \notin {"probe", "overdue"}
=============================================================================
