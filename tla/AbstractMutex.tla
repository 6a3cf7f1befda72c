---------------------------- MODULE AbstractMutex ----------------------------
(* What a mutex promises to the libraries built on it: at most one holder, who *)
(* alone may give it up, and whose end frees it at the most.                   *)
CONSTANTS Threads, NoThread

VARIABLES holder,  \* the thread that holds the mutex, or NoThread
          ended    \* the threads that have ended

Init == holder = NoThread /\ ended = {}

Acquire(t) ==
  /\ holder = NoThread /\ t \notin ended
  /\ holder' = t
  /\ UNCHANGED ended

Release(t) ==
  /\ holder = t /\ t \notin ended
  /\ holder' = NoThread
  /\ UNCHANGED ended

\* A mutex locked in nobody's name stays locked when its holder ends.
End(t) ==
  /\ t \notin ended
  /\ ended' = ended \cup {t}
  /\ holder' = holder \/ (holder = t /\ holder' = NoThread)

Next == \E t \in Threads : Acquire(t) \/ Release(t) \/ End(t)

Spec == Init /\ [][Next]_<<holder, ended>>
=============================================================================
