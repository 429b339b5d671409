---------------------------- MODULE Availability ----------------------------
(***************************************************************************)
(* What a user of the multiplexer may rely on about each server, without   *)
(* any of the goroutines behind it: a server is connected or down, and     *)
(* what it is connected through is an epoch.  An epoch never changes while *)
(* the server is shown as connected, and never comes back.                 *)
(***************************************************************************)
EXTENDS Naturals

CONSTANT Servers

VARIABLES status, epoch

Init ==
    /\ status = [s \in Servers |-> "down"]
    /\ epoch = [s \in Servers |-> 0]

\* The server becomes usable, through something new.
Gain(s) ==
    /\ status[s] = "down"
    /\ status' = [status EXCEPT ![s] = "connected"]
    /\ epoch'[s] \in Nat /\ epoch'[s] > epoch[s]
    /\ epoch' = [epoch EXCEPT ![s] = epoch'[s]]

\* The server is found dead.
Lose(s) ==
    /\ status[s] = "connected"
    /\ status' = [status EXCEPT ![s] = "down"]
    /\ UNCHANGED epoch

Next == \E s \in Servers : Gain(s) \/ Lose(s)

Spec == Init /\ [][Next]_<<status, epoch>>
=============================================================================
