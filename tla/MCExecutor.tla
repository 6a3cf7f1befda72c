----------------------------- MODULE MCExecutor -----------------------------
(* Two clients and two futures for one pooled thread, so that the second one   *)
(* is rejected while the first one runs.                                       *)
EXTENDS Executor

CONSTANTS f1, f2, c1, c2

MCFutures == {f1, f2}
MCClients == {c1, c2}
AllHandlers == {"simple", "fork", "abort", "terminate", "wait", "push"}

\* One future and one client are enough for a future cancelled too late.
OneFuture == {f1}
OneClient == {c1}
SimpleOnly == {"simple"}
OwnThreads == {"simple", "fork"}
=============================================================================
