------------------------------ MODULE Sessions ------------------------------
(***************************************************************************)
(* The upstream MCP servers and the client sessions of the vendored go-sdk *)
(* as the multiplexer uses them.  None of this is code of the repository:  *)
(* it is the environment the modules that EXTEND this one run in.          *)
(*                                                                         *)
(* The sessions of a server are numbered 1, 2, ... in the order they were  *)
(* established; 0 is the nil session.  A session is open, closing (Close   *)
(* was called and waits for outstanding calls) or neither: never created,  *)
(* closed, or broken by the server's death.                                *)
(***************************************************************************)
EXTENDS Naturals, FiniteSets

CONSTANTS Servers,      \* names of the configured servers
          Stdio,        \* those run as subprocesses (exec.CommandContext)
          Faulty,       \* bound: those that may crash, hang or answer with errors
          CanHang,      \* may a server stop answering without dying?
          MaxFaults,    \* bound: crashes, hangs and error answers per server
          MaxVersion    \* bound: versions of a server's tool list

ASSUME SessionsAssumption ==
    /\ Stdio \subseteq Servers
    /\ Faulty \subseteq Servers
    /\ CanHang \in BOOLEAN
    /\ MaxFaults \in Nat
    /\ MaxVersion \in Nat \ {0}

VARIABLES cancelled,  \* the context made by New is done
          health,     \* per server: "up", "down" (not running) or "hung"
          faults,     \* per server: crashes, hangs and error answers so far
          remote,     \* per server: version of the tool list it serves
          last,       \* per server: number of sessions established so far
          open,       \* per server: its open sessions
          closing,    \* per server: sessions whose Close has not returned
          stuck,      \* per server: sessions with a call given up by its
                      \* caller and still awaiting the server's answer
          notif       \* per server: sessions with an undelivered
                      \* notifications/tools/list_changed

sessVars == <<faults, last, open, closing, stuck>>
serverVars == <<health, remote, notif>>

SessionsTypeOK ==
    /\ cancelled \in BOOLEAN
    /\ health \in [Servers -> {"up", "down", "hung"}]
    /\ faults \in [Servers -> Nat]
    /\ remote \in [Servers -> Nat \ {0}]
    /\ last \in [Servers -> Nat]
    /\ open \in [Servers -> SUBSET (Nat \ {0})]
    /\ closing \in [Servers -> SUBSET (Nat \ {0})]
    /\ stuck \in [Servers -> SUBSET (Nat \ {0})]
    /\ notif \in [Servers -> SUBSET (Nat \ {0})]

SessionsInit ==
    /\ cancelled = FALSE
    /\ health \in [Servers -> {"up", "down"}]
    /\ faults = [s \in Servers |-> 0]
    /\ remote = [s \in Servers |-> 1]
    /\ last = [s \in Servers |-> 0]
    /\ open = [s \in Servers |-> {}]
    /\ closing = [s \in Servers |-> {}]
    /\ stuck = [s \in Servers |-> {}]
    /\ notif = [s \in Servers |-> {}]

-----------------------------------------------------------------------------
(* What the multiplexer's goroutines do to a session. *)

\* client.Connect succeeds: the initialize handshake is answered.
Dial(s) ==
    /\ health[s] = "up"
    /\ ~cancelled
    /\ last' = [last EXCEPT ![s] = @ + 1]
    /\ open' = [open EXCEPT ![s] = @ \cup {last[s] + 1}]
    /\ UNCHANGED <<faults, closing, stuck>>

\* A call on session n of s is answered; one sent before Close was called
\* may still be answered while the session is closing.
Answered(s, n) ==
    /\ n \in open[s] \cup closing[s]
    /\ health[s] = "up"
    /\ ~cancelled

\* What a call given up by its caller leaves behind on an unresponsive
\* server: over a pipe the request is out and stays outstanding, over HTTP
\* it may have been aborted before the server took it.
Leftovers(s, n) ==
    {left \in {{}, {n}} :
        /\ left = {n} => health[s] = "hung" /\ n \in open[s] \cup closing[s]
        /\ health[s] = "hung" /\ n \in open[s] /\ s \in Stdio => left = {n}}

\* A server that is up answers a request with an error.
Refuses(s) ==
    /\ health[s] = "up"
    /\ s \in Faulty
    /\ faults[s] < MaxFaults
    /\ faults' = [faults EXCEPT ![s] = @ + 1]

\* A call whose context is done tells the server so before it returns, on a
\* context without a deadline.  Over a pipe the notice is only written; over
\* HTTP it is a request, and on an open session a hung server leaves it, and
\* with it the caller, waiting.
NoticeBlocks(s, n) == s \notin Stdio /\ health[s] = "hung" /\ n \in open[s]

\* A call on session n of s returns an error: the session is closed or
\* broken, the deadline passes with no answer, the context is cancelled, or
\* the server answers with an error.
CallFails(s, n) ==
    /\ \/ /\ n \notin open[s] \/ health[s] = "hung" \/ cancelled
          /\ ~NoticeBlocks(s, n)
          /\ UNCHANGED faults
       \/ n \in open[s] /\ Refuses(s)
    /\ \E left \in Leftovers(s, n) : stuck' = [stuck EXCEPT ![s] = @ \cup left]
    /\ UNCHANGED <<last, open, closing>>

\* The deadline of a call passes and its cancel notice blocks ...
CallOverdue(s, n) ==
    /\ NoticeBlocks(s, n)
    /\ \E left \in Leftovers(s, n) : stuck' = [stuck EXCEPT ![s] = @ \cup left]
    /\ UNCHANGED <<faults, last, open, closing>>

\* ... until the server answers again or is gone.
NoticeReturns(s) == health[s] # "hung" /\ UNCHANGED sessVars

\* ClientSession.Close is called; it is idempotent.
CloseBegins(s, n) ==
    /\ open' = [open EXCEPT ![s] = @ \ {n}]
    /\ closing' = [closing EXCEPT ![s] = @ \cup ({n} \cap open[s])]

\* ClientSession.Close returns: no call is outstanding and, over HTTP, the
\* closing DELETE request was answered or refused.
CloseReturns(s, n) ==
    /\ n \in closing[s] => n \notin stuck[s] /\ (s \in Stdio \/ health[s] # "hung")
    /\ closing' = [closing EXCEPT ![s] = @ \ {n}]
    /\ UNCHANGED <<faults, last, open, stuck>>

-----------------------------------------------------------------------------
(* What the servers do by themselves. *)

\* The sessions of s end: their calls are retired with an error.
SessionsBreak(s) ==
    /\ open' = [open EXCEPT ![s] = {}]
    /\ closing' = [closing EXCEPT ![s] = {}]
    /\ stuck' = [stuck EXCEPT ![s] = {}]
    /\ notif' = [notif EXCEPT ![s] = {}]
    /\ UNCHANGED last

Crash(s) ==
    /\ s \in Faulty
    /\ health[s] # "down"
    /\ faults[s] < MaxFaults
    /\ health' = [health EXCEPT ![s] = "down"]
    /\ faults' = [faults EXCEPT ![s] = @ + 1]
    /\ SessionsBreak(s)
    /\ UNCHANGED <<cancelled, remote>>

Restart(s) ==
    /\ health[s] = "down"
    /\ health' = [health EXCEPT ![s] = "up"]
    /\ UNCHANGED <<cancelled, remote, notif, sessVars>>

Hang(s) ==
    /\ CanHang
    /\ s \in Faulty
    /\ health[s] = "up"
    /\ faults[s] < MaxFaults
    /\ health' = [health EXCEPT ![s] = "hung"]
    /\ faults' = [faults EXCEPT ![s] = @ + 1]
    /\ UNCHANGED <<cancelled, remote, notif, last, open, closing, stuck>>

Resume(s) ==
    /\ health[s] = "hung"
    /\ health' = [health EXCEPT ![s] = "up"]
    /\ UNCHANGED <<cancelled, remote, notif, sessVars>>

\* A resumed server answers a call nobody waits for any more.
AnswerLate(s) ==
    /\ health[s] = "up"
    /\ \E n \in stuck[s] : stuck' = [stuck EXCEPT ![s] = @ \ {n}]
    /\ UNCHANGED <<cancelled, serverVars, faults, last, open, closing>>

\* The server's tool list changes and its open sessions are notified.
ChangeTools(s) ==
    /\ health[s] # "hung"
    /\ remote[s] < MaxVersion
    /\ remote' = [remote EXCEPT ![s] = @ + 1]
    /\ notif' = [notif EXCEPT ![s] = open[s]]
    /\ UNCHANGED <<cancelled, health, sessVars>>

\* exec.CommandContext kills the subprocess once the context is done.
KillProcess(s) ==
    /\ s \in Stdio
    /\ cancelled
    /\ open[s] \cup closing[s] # {}
    /\ SessionsBreak(s)
    /\ UNCHANGED <<cancelled, health, faults, remote>>

\* The caller of New cancels the context it passed in.
CallerCancels ==
    /\ ~cancelled
    /\ cancelled' = TRUE
    /\ UNCHANGED <<serverVars, sessVars>>

ServerStep(s) ==
    \/ Crash(s) \/ Restart(s) \/ Hang(s) \/ Resume(s)
    \/ AnswerLate(s) \/ ChangeTools(s) \/ KillProcess(s)
=============================================================================
