-------------------------------- MODULE Timer --------------------------------
(***************************************************************************)
(* The timer of sitelib/util/timer.scm: a worker thread that runs the      *)
(* tasks of a heap when they are due, and clients that schedule,           *)
(* reschedule and remove tasks and start, stop and cancel the worker.  The *)
(* heap, the table of active tasks and the state are shared under one      *)
(* mutex; a second mutex and its condition variable hold the stopped       *)
(* worker.                                                                 *)
(*                                                                         *)
(* A client's critical section is two steps, taking the lock and the body  *)
(* up to the unlock, so that the worker can run in between when it does    *)
(* not hold the lock.                                                      *)
(***************************************************************************)
EXTENDS Integers, FiniteSets

CONSTANTS Clients,    \* the threads that call the procedures of the library
          Worker,     \* the thread of make-timer
          Nobody,
          Delays,     \* the delays and periods the clients pass
          MaxTasks,   \* how many tasks are scheduled
          MaxTime,    \* the last instant of the clock
          Tolerated   \* the slips after which an execution is followed further

ASSUME ThreadsAssumption == Worker \notin Clients /\ Nobody \notin Clients \cup {Worker}
ASSUME NumbersAssumption == Delays \subseteq Nat /\ MaxTasks \in Nat /\ MaxTime \in Nat

Ids == 1..MaxTasks
NoTask == 0

VARIABLES state,            \* the field state
          lock, stopLock,   \* who holds the mutexes
          active,           \* the ids in the table of active tasks
          queue,            \* how often each task is in the heap
          next, period,     \* the fields of each task
          running,          \* the tasks whose field running? is true
          nextId,           \* the field next-id
          now,              \* current-time
          wpc,              \* where the worker is
          first,            \* the task the worker has picked
          until,            \* the time it has read from that task; -1: none
          pc,               \* where each client is
          slips             \* history: see below

worker == <<wpc, first, until>>
tasks == <<active, queue, next, period, running, nextId>>
vars == <<state, lock, stopLock, tasks, now, worker, pc, slips>>

(***************************************************************************)
(* What the library does not provide for, recorded when it happens:        *)
(*   window   a client is in its critical section while the worker, whose  *)
(*            timed wait has run out, goes on without the lock;            *)
(*   requeue  a task is rescheduled while it runs;                         *)
(*   raise    timer-start! raises and leaves the lock taken;               *)
(*   stop     timer-stop! finds no running worker that would answer;       *)
(*   cancel   timer-cancel! finds a worker that was never started, or goes *)
(*            on without the lock;                                         *)
(*   asleep   the stopped worker is resumed or cancelled by a broadcast    *)
(*            that it does not sleep to hear, or no longer;                *)
(*   unseen   a timer is resumed or cancelled while a timer-stop! still    *)
(*            looks for the state stopped;                                 *)
(*   spurious the stopped worker wakes up without a broadcast;             *)
(*   uncaught a thunk raises and there is no error-handler, or it raises   *)
(*            too, which ends the worker.                                  *)
(***************************************************************************)
Slips == {"window", "requeue", "raise", "stop", "cancel", "asleep", "unseen", "spurious",
          "uncaught"}
Slip(s, happens) == IF happens THEN {s} ELSE {}

\* A task rescheduled while it runs changes its key in the heap, which the heap of this
\* module does not have.
ASSUME ToleratedAssumption == Tolerated \subseteq Slips \ {"requeue"}

\* The worker's places: new, not started; enter, relock, done: waits for the lock at
\* the start, after a wait, after a thunk; loop: at the head of main-loop; due: has
\* picked a task; run: in its thunk; wait: on waiter; stopping, stopped: has given up
\* the lock, has set the state; sleep: on stop-waiter; ended.

\* The worker's steps between the end of a timed wait and its next unlock.
Unlocked(wp, l) == wp \in {"loop", "due"} /\ l # Worker

Window(wp, l) == Slip("window", Unlocked(wp, l) /\ l # Nobody)

\* condition-variable-broadcast! on waiter and on stop-waiter.
WakeWaiting(wp) == IF wp = "wait" THEN "relock" ELSE wp
WakeSleeping(wp) == IF wp = "sleep" THEN "relock" ELSE wp

Earlier(i, j) == next[i] < next[j] \/ (next[i] = next[j] /\ i < j)

Queued == {i \in Ids : queue[i] > 0}

\* heap-min
HeapMin == CHOOSE i \in Queued : \A j \in Queued \ {i} : Earlier(i, j)

Init ==
  /\ state = "created" /\ lock = Nobody /\ stopLock = Nobody
  /\ active = {} /\ queue = [i \in Ids |-> 0] /\ running = {} /\ nextId = 1
  /\ next = [i \in Ids |-> 0] /\ period = [i \in Ids |-> 0]
  /\ now = 0
  /\ wpc = "new" /\ first = NoTask /\ until = -1
  /\ pc = [c \in Clients |-> "idle"]
  /\ slips = {}

(***************************************************************************)
(* The worker.                                                             *)
(***************************************************************************)
\* mutex-lock! of dynamic-wind and of wait-cv after a wake-up.
WorkerLock ==
  /\ wpc \in {"enter", "relock"} /\ lock = Nobody
  /\ lock' = Worker /\ wpc' = "loop"
  /\ UNCHANGED <<state, stopLock, tasks, now, first, until, pc, slips>>

WorkerWait(time) ==
  /\ wpc' = "wait" /\ until' = time /\ lock' = Nobody
  /\ UNCHANGED <<state, first>>

\* One turn of main-loop, up to the next unlock, wait or run.
WorkerLoop ==
  /\ wpc = "loop"
  /\ \/ /\ state \in {"cancelling", "cancelled"}
        /\ state' = "cancelled" /\ wpc' = "ended" /\ lock' = Nobody
        /\ UNCHANGED <<first, until>>
     \/ /\ state = "stopping"
        /\ wpc' = "stopping" /\ lock' = Nobody
        /\ UNCHANGED <<state, first, until>>
     \/ /\ state \notin {"cancelling", "cancelled", "stopping"}
        /\ \/ Queued = {} /\ WorkerWait(-1)
           \/ Queued # {} /\ now < next[HeapMin] /\ WorkerWait(next[HeapMin])
           \/ /\ Queued # {} /\ now >= next[HeapMin]
              /\ wpc' = "due" /\ first' = HeapMin /\ until' = next[HeapMin]
              /\ UNCHANGED <<state, lock>>
  /\ UNCHANGED <<stopLock, tasks, now, pc, slips>>

\* The task is marked and the minimum extracted: the same task, if the worker has the
\* lock.  An empty heap raises and ends the worker, which opens the lock as well.
WorkerRun ==
  /\ wpc = "due"
  /\ running' = running \cup {first}
  /\ queue' = IF Queued = {} THEN queue ELSE [queue EXCEPT ![HeapMin] = @ - 1]
  /\ wpc' = IF Queued = {} THEN "ended" ELSE "run"
  /\ lock' = Nobody
  /\ UNCHANGED <<state, stopLock, active, next, period, nextId, now, first, until, pc, slips>>

\* The thunk returns, or raises and the error-handler returns.
WorkerReturn ==
  /\ wpc = "run"
  /\ wpc' = "done"
  /\ UNCHANGED <<state, lock, stopLock, tasks, now, first, until, pc, slips>>

\* The raise leaves main-loop; dynamic-wind opens the lock, whoever holds it.
WorkerRaise ==
  /\ wpc = "run"
  /\ wpc' = "ended" /\ lock' = Nobody
  /\ slips' = slips \cup {"uncaught"}
  /\ UNCHANGED <<state, stopLock, tasks, now, first, until, pc>>

\* Mutated: without the look at running?.
WorkerDoneAlways ==
  /\ wpc = "done" /\ lock = Nobody
  /\ lock' = Worker /\ wpc' = "loop" /\ first' = NoTask /\ until' = -1
  /\ running' = running \ {first}
  /\ IF period[first] > 0
     THEN /\ next' = [next EXCEPT ![first] = until + period[first]]
          /\ queue' = [queue EXCEPT ![first] = @ + 1]
          /\ UNCHANGED active
     ELSE /\ active' = active \ {first}
          /\ UNCHANGED <<next, queue>>
  /\ UNCHANGED <<state, stopLock, period, nextId, now, pc, slips>>

\* A periodic task goes back to the heap, unless timer-remove! has cleared running?.
WorkerDone ==
  /\ wpc = "done" /\ lock = Nobody
  /\ lock' = Worker /\ wpc' = "loop" /\ first' = NoTask /\ until' = -1
  /\ running' = running \ {first}
  /\ IF first \in running /\ period[first] > 0
     THEN /\ next' = [next EXCEPT ![first] = until + period[first]]
          /\ queue' = [queue EXCEPT ![first] = @ + 1]
          /\ UNCHANGED active
     ELSE /\ active' = active \ {first}
          /\ UNCHANGED <<next, queue>>
  /\ UNCHANGED <<state, stopLock, period, nextId, now, pc, slips>>

\* The state is set after the unlock, and the worker sleeps after that.
WorkerStopped ==
  /\ wpc = "stopping"
  /\ state' = "stopped" /\ wpc' = "stopped"
  /\ UNCHANGED <<lock, stopLock, tasks, now, first, until, pc, slips>>

WorkerSleep ==
  /\ wpc = "stopped"
  /\ stopLock' = Nobody /\ wpc' = "sleep"
  /\ UNCHANGED <<state, lock, tasks, now, first, until, pc, slips>>

\* mutex-unlock! returns #f when the wait runs out, and wait-cv leaves the lock alone.
WorkerTimeout ==
  /\ wpc = "wait" /\ until >= 0 /\ now >= until
  /\ wpc' = "loop"
  /\ slips' = slips \cup Window("loop", lock)
  /\ UNCHANGED <<state, lock, stopLock, tasks, now, first, until, pc>>

SpuriousWakeup ==
  /\ wpc \in {"wait", "sleep"}
  /\ wpc' = "relock"
  /\ slips' = slips \cup Slip("spurious", wpc = "sleep")
  /\ UNCHANGED <<state, lock, stopLock, tasks, now, first, until, pc>>

Tick ==
  /\ now < MaxTime
  /\ now' = now + 1
  /\ UNCHANGED <<state, lock, stopLock, tasks, worker, pc, slips>>

(***************************************************************************)
(* The clients.                                                            *)
(***************************************************************************)
\* mutex-lock! at the head of every procedure.
Enter(c) ==
  /\ pc[c] = "idle" /\ lock = Nobody
  /\ lock' = c /\ pc' = [pc EXCEPT ![c] = "in"]
  /\ slips' = slips \cup Window(wpc, c)
  /\ UNCHANGED <<state, stopLock, tasks, now, worker>>

\* Mutated: without the broadcast.
LeaveSilently(c, place, wp) ==
  /\ pc' = [pc EXCEPT ![c] = place]
  /\ lock' = Nobody
  /\ wpc' = wp
  /\ UNCHANGED <<now, first, until>>

\* The body of a procedure ends with the broadcast on waiter and the unlock.
Leave(c, place, wp) ==
  /\ pc' = [pc EXCEPT ![c] = place]
  /\ lock' = Nobody
  /\ wpc' = WakeWaiting(wp)
  /\ UNCHANGED <<now, first, until>>

Schedule(c, delay, p) ==
  /\ pc[c] = "in" /\ nextId <= MaxTasks
  /\ nextId' = nextId + 1
  /\ next' = [next EXCEPT ![nextId] = now + delay]
  /\ period' = [period EXCEPT ![nextId] = p]
  /\ active' = active \cup {nextId}
  /\ queue' = [queue EXCEPT ![nextId] = 1]
  /\ Leave(c, "idle", wpc)
  /\ UNCHANGED <<state, stopLock, running, slips>>

Reschedule(c, i, delay, p) ==
  /\ pc[c] = "in" /\ i \in active
  /\ next' = [next EXCEPT ![i] = now + delay]
  /\ period' = [period EXCEPT ![i] = p]
  /\ queue' = [queue EXCEPT ![i] = IF i \in running \/ @ = 0 THEN @ + 1 ELSE @]
  /\ slips' = slips \cup Slip("requeue", i \in running)
  /\ Leave(c, "idle", wpc)
  /\ UNCHANGED <<state, stopLock, active, running, nextId>>

\* Mutated: the task stays in the heap.
RemoveFromTable(c, i) ==
  /\ pc[c] = "in" /\ i \in active
  /\ running' = running \ {i}
  /\ active' = active \ {i}
  /\ Leave(c, "idle", wpc)
  /\ UNCHANGED <<state, stopLock, queue, next, period, nextId, slips>>

Remove(c, i) ==
  /\ pc[c] = "in" /\ i \in active
  /\ IF i \in running
     THEN running' = running \ {i} /\ UNCHANGED queue
     ELSE queue' = [queue EXCEPT ![i] = @ - 1] /\ UNCHANGED running
  /\ active' = active \ {i}
  /\ Leave(c, "idle", wpc)
  /\ UNCHANGED <<state, stopLock, next, period, nextId, slips>>

\* timer-reschedule! and timer-remove! of a task that is not active, timer-exists?.
Look(c) ==
  /\ pc[c] = "in"
  /\ pc' = [pc EXCEPT ![c] = "idle"] /\ lock' = Nobody
  /\ UNCHANGED <<state, stopLock, tasks, now, worker, slips>>

Polled == \E c \in Clients : pc[c] = "poll"

\* The last case raises with the lock taken.
Start(c) ==
  /\ pc[c] = "in"
  /\ \/ /\ state = "stopped"
        /\ state' = "running" /\ stopLock' = Nobody
        /\ Leave(c, "idle", WakeSleeping(wpc))
        /\ slips' = slips \cup Slip("asleep", wpc = "stopped") \cup Slip("unseen", Polled)
     \/ /\ state = "created"
        /\ state' = "running"
        /\ wpc' = "enter" /\ lock' = Nobody /\ pc' = [pc EXCEPT ![c] = "idle"]
        /\ UNCHANGED <<stopLock, now, first, until, slips>>
     \/ /\ state \notin {"stopped", "created"}
        /\ pc' = [pc EXCEPT ![c] = "idle"]
        /\ slips' = slips \cup {"raise"}
        /\ UNCHANGED <<state, lock, stopLock, now, worker>>
  /\ UNCHANGED tasks

Stop(c) ==
  /\ pc[c] = "in"
  /\ state' = "stopping" /\ pc' = [pc EXCEPT ![c] = "stop"]
  /\ slips' = slips \cup Slip("stop", state # "running")
  /\ UNCHANGED <<lock, stopLock, tasks, now, worker>>

StopLocked(c) ==
  /\ pc[c] = "stop" /\ stopLock = Nobody
  /\ stopLock' = c
  /\ Leave(c, "poll", wpc)
  /\ UNCHANGED <<state, tasks, slips>>

Poll(c) ==
  /\ pc[c] = "poll" /\ state = "stopped"
  /\ pc' = [pc EXCEPT ![c] = "idle"]
  /\ UNCHANGED <<state, lock, stopLock, tasks, now, worker, slips>>

\* Mutated: without the new state.
CancellingUnset(c, wp) ==
  /\ Leave(c, "join", wp)
  /\ UNCHANGED <<state, tasks>>

\* The end of timer-cancel!, with the lock or, after a retry, perhaps without it.
Cancelling(c, wp) ==
  /\ state' = "cancelling"
  /\ Leave(c, "join", wp)
  /\ UNCHANGED tasks

Cancel(c) ==
  /\ pc[c] = "in"
  /\ \/ /\ state = "stopped"
        /\ stopLock' = Nobody
        /\ Cancelling(c, WakeSleeping(wpc))
        /\ slips' = slips \cup Slip("asleep", wpc = "stopped") \cup Slip("unseen", Polled)
     \/ /\ state = "stopping"
        /\ Leave(c, "retry", wpc)
        /\ UNCHANGED <<state, stopLock, tasks, slips>>
     \/ /\ state \notin {"stopped", "stopping"}
        /\ Cancelling(c, wpc)
        /\ slips' = slips \cup Slip("cancel", wpc = "new")
        /\ UNCHANGED stopLock

\* The retry looks at the state without the lock, until it is no longer stopping.
Retry(c) ==
  /\ pc[c] = "retry"
  /\ \/ /\ state = "stopped"
        /\ wpc' = WakeSleeping(wpc) /\ pc' = [pc EXCEPT ![c] = "cancel"]
        /\ slips' = slips \cup Slip("asleep", wpc = "stopped")
        /\ UNCHANGED <<state, lock, stopLock, tasks, now, first, until>>
     \/ /\ state \notin {"stopped", "stopping"}
        /\ Cancelling(c, wpc)
        /\ slips' = slips \cup {"cancel"}
        /\ UNCHANGED stopLock

CancelLocked(c) ==
  /\ pc[c] = "cancel" /\ lock = Nobody
  /\ stopLock' = Nobody
  /\ Cancelling(c, wpc)
  /\ slips' = slips \cup Window(wpc, c) \cup Slip("unseen", Polled)
                   \cup Slip("asleep", wpc \in {"stopped", "sleep"})

Join(c) ==
  /\ pc[c] = "join" /\ wpc = "ended"
  /\ pc' = [pc EXCEPT ![c] = "idle"]
  /\ UNCHANGED <<state, lock, stopLock, tasks, now, worker, slips>>

WorkerStep ==
  \/ WorkerLock \/ WorkerLoop \/ WorkerRun \/ WorkerReturn \/ WorkerRaise \/ WorkerDone
  \/ WorkerStopped \/ WorkerSleep \/ WorkerTimeout

ClientStep(c) ==
  \/ \E d, p \in Delays : Schedule(c, d, p) \/ \E i \in Ids : Reschedule(c, i, d, p)
  \/ \E i \in Ids : Remove(c, i)
  \/ Look(c) \/ Start(c) \/ Stop(c) \/ StopLocked(c) \/ Poll(c)
  \/ Cancel(c) \/ Retry(c) \/ CancelLocked(c) \/ Join(c)

Next ==
  /\ slips \subseteq Tolerated
  /\ WorkerStep \/ SpuriousWakeup \/ Tick \/ \E c \in Clients : Enter(c) \/ ClientStep(c)

Spec == Init /\ [][Next]_vars

\* The scheduler runs the worker and the clients inside a procedure, the thunks return
\* and a timed wait ends after its time.
FairSpec ==
  /\ Spec
  /\ WF_vars(WorkerStep /\ slips \subseteq Tolerated)
  /\ \A c \in Clients : WF_vars(ClientStep(c) /\ slips \subseteq Tolerated)

(***************************************************************************)
(* Properties.                                                             *)
(***************************************************************************)
\* No task is lost or doubled: the heap has each active task that does not run exactly
\* once and nothing else, and what runs is the task the worker has picked, though the
\* clients schedule, reschedule and remove while it runs.
TasksAccounted ==
  slips = {} =>
    /\ \A i \in Ids : queue[i] = IF i \in active \ running THEN 1 ELSE 0
    /\ running \subseteq active \cap {first}

\* The worker starts a task only when it is due and has not been removed, and while the
\* timer runs; a timer-cancel! that retries wakes the stopped worker before it has the
\* lock, so that a task may still start then.
StartsProperly ==
  [][slips = {} /\ wpc # "run" /\ wpc' = "run"
       => /\ first \in active /\ next[first] <= now
          /\ state = "running" \/ \E c \in Clients : pc[c] = "cancel"]_vars

\* A due task of a running timer is started, removed or put off, once the clients
\* leave the lock to the worker: no wake-up of the worker is lost.
DueTaskRuns ==
  [](slips = {}) /\ <>[](state = "running" /\ \A c \in Clients : pc[c] # "in")
    => \A i \in Ids : queue[i] = 1 /\ next[i] <= now ~> queue[i] = 0 \/ next[i] > now

\* timer-stop! and timer-cancel! return: the worker always comes to see the new state,
\* whether it waits, runs a task or has just been resumed.
CallsReturn ==
  [](slips = {}) /\ <>[](\A c \in Clients : pc[c] # "in")
    => \A c \in Clients : pc[c] \in {"stop", "poll", "join"} ~> pc[c] = "idle"

\* The timer executes a task after its delay: one that is due while the timer runs is
\* started, unless it is removed or put off first, also when clients call while the
\* worker's timed wait ends.
ScheduledTaskRuns ==
  [](slips \subseteq {"window"}) /\ <>[](state = "running" /\ \A c \in Clients : pc[c] # "in")
    => \A i \in Ids : i \in active /\ next[i] <= now
                       ~> i \in running \/ i \notin active \/ next[i] > now
=============================================================================
