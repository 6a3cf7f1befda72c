----------------------------- MODULE MCThreadPool -----------------------------
(* Two pooled threads, one of which may be replaced, and two clients.         *)
EXTENDS ThreadPool
=============================================================================
