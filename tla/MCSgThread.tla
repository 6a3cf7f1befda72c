------------------------------ MODULE MCSgThread ------------------------------
(* Two threads that use every operation on the target.                        *)
EXTENDS SgThread

AllOps == {"start", "join", "suspend", "resume", "terminate", "end"}

\* A thread that is suspended is not resumed.
HideOps == {"start", "join", "suspend", "terminate"}
=============================================================================
