------------------------------- MODULE MCTimer -------------------------------
(* Two clients, which can stop and cancel the timer or schedule and remove a   *)
(* task at the same time, and two tasks, of which one hides the other.         *)
EXTENDS Timer

CONSTANTS c1, c2

MCClients == {c1, c2}
NoSlips == {}
OnlyWindow == {"window"}
=============================================================================
