----------------------------- MODULE TimerProofs -----------------------------
(***************************************************************************)
(* Proofs about Timer, for any clients, delays, number of tasks and length *)
(* of time, as long as nothing happens that the library does not provide   *)
(* for.                                                                    *)
(***************************************************************************)
EXTENDS Timer, InductionLemmas, TLAPS

(***************************************************************************)
(* The inductive invariant.                                                *)
(***************************************************************************)
WorkerPlaces ==
  {"new", "enter", "relock", "loop", "due", "run", "done", "wait", "stopping", "stopped",
   "sleep", "ended"}

ClientPlaces == {"idle", "in", "stop", "poll", "retry", "cancel", "join"}

States == {"created", "running", "stopping", "stopped", "cancelling", "cancelled"}

Fields ==
  /\ state \in States
  /\ active \in SUBSET Ids /\ running \in SUBSET Ids
  /\ queue \in [Ids -> Nat] /\ next \in [Ids -> Nat] /\ period \in [Ids -> Nat]
  /\ nextId \in Nat \ {0} /\ now \in Nat
  /\ wpc \in WorkerPlaces /\ first \in Ids \cup {NoTask} /\ until \in Int
  /\ pc \in [Clients -> ClientPlaces]

\* The worker inside main-loop shares the lock with nobody, though it may not have it.
Locked ==
  /\ \A c \in Clients : pc[c] \in {"in", "stop"} <=> lock = c
  /\ lock \in Clients \cup {Worker, Nobody}
  /\ lock = Worker => wpc \in {"loop", "due"}
  /\ wpc \in {"loop", "due"} => lock \in {Worker, Nobody}

\* A task that the worker runs is marked, unless it was removed meanwhile.
Marked ==
  /\ running \subseteq active \cap {first}
  /\ wpc \notin {"run", "done"} => running = {}
  /\ wpc \in {"due", "run", "done"} => first \in Ids /\ until \in Nat
  /\ wpc \in {"run", "done"} => first < nextId /\ (first \in active => first \in running)

\* Ids are given once.
Fresh == \A i \in active : i < nextId

Heap == \A i \in Ids : queue[i] = IF i \in active \ running THEN 1 ELSE 0

\* The worker is about to run the first task of the heap, which is due.
Picked ==
  wpc = "due" => /\ first \in Queued /\ first = HeapMin
                 /\ next[first] <= now
                 /\ state \in {"running", "stopped"}

\* A stopped worker is still or woken by a timer-cancel! that retries; only one that was
\* not started belongs to a new timer.
Asleep ==
  /\ state = "stopped" => wpc \in {"stopped", "sleep"} \/ \E c \in Clients : pc[c] = "cancel"
  /\ state = "created" <=> wpc = "new"
  /\ wpc = "new" => \A c \in Clients : pc[c] # "cancel"

Sound == Fields /\ Locked /\ Marked /\ Fresh /\ Heap /\ Picked /\ Asleep

IInv == slips = {} => Sound

LEMMA InitEstablishes == Init => IInv
BY ThreadsAssumption, NumbersAssumption
DEF Init, IInv, Sound, Fields, Locked, Marked, Fresh, Heap, Picked, Asleep, States,
    WorkerPlaces, ClientPlaces, Ids, NoTask

\* A heap that is not empty has a first task.
LEMMA HeapMinExists ==
  ASSUME next \in [Ids -> Nat], Queued # {}
  PROVE  HeapMin \in Queued
<1> DEFINE Times == {next[i] : i \in Queued}
<1>1. Queued \subseteq Ids /\ Queued \subseteq Nat
  BY DEF Queued, Ids
<1>2. PICK m \in Times : \A n \in Times : m <= n
  <2>1. Times \subseteq Nat /\ Times # {}
    BY <1>1, Zenon
  <2> HIDE DEF Times
  <2> QED
    BY <2>1, Least, Zenon
<1> DEFINE Soonest == {i \in Queued : next[i] = m}
<1>3. PICK i \in Soonest : \A j \in Soonest : i <= j
  <2>1. Soonest \subseteq Nat /\ Soonest # {}
    BY <1>1, Zenon
  <2> HIDE DEF Soonest
  <2> QED
    BY <2>1, Least, Zenon
<1>4. ASSUME NEW j \in Queued \ {i} PROVE Earlier(i, j)
  <2>1. next[j] \in Times /\ next[i] = m /\ next[j] \in Nat /\ m \in Nat /\ i \in Nat /\ j \in Nat
    BY <1>1
  <2>2. m <= next[j]
    BY <1>2, <2>1
  <2>3. next[j] = m => i <= j
    BY <1>3
  <2> QED
    BY <2>1, <2>2, <2>3 DEF Earlier
<1> QED
  BY <1>4, Zenon DEF HeapMin

\* What happened is not forgotten.
LEMMA SlipsStay == ASSUME [Next]_vars, slips' = {} PROVE slips = {}
<1> SUFFICES ASSUME Next PROVE slips = {}
  BY Zenon DEF vars
<1>1. CASE WorkerStep \/ SpuriousWakeup \/ Tick
  BY <1>1, Zenon
  DEF WorkerStep, WorkerLock, WorkerLoop, WorkerRun, WorkerReturn, WorkerRaise, WorkerDone,
      WorkerStopped, WorkerSleep, WorkerTimeout, SpuriousWakeup, Tick
<1>2. ASSUME NEW c \in Clients, Enter(c) \/ ClientStep(c) PROVE slips = {}
  BY <1>2, Zenon
  DEF Enter, ClientStep, Schedule, Reschedule, Remove, Look, Start, Stop, StopLocked, Poll,
      Cancel, Retry, CancelLocked, Join
<1> QED
  BY <1>1, <1>2, Zenon DEF Next

\* A step that leaves the tasks alone, and the worker where it is.
LEMMA Frame ==
  ASSUME Sound, UNCHANGED <<tasks, worker>>, state' = state, now' \in Nat, now <= now',
         pc' \in [Clients -> ClientPlaces], Locked',
         \A c \in Clients : pc[c] = "cancel" => pc'[c] = "cancel",
         wpc = "new" => \A c \in Clients : pc'[c] # "cancel"
  PROVE  Sound'
<1>1. Queued' = Queued /\ HeapMin' = HeapMin
  BY DEF tasks, Queued, HeapMin, Earlier
<1>2. Fields' /\ Marked' /\ Fresh' /\ Heap'
  BY DEF Sound, Fields, Marked, Fresh, Heap, tasks, worker
<1>3. Picked'
  <2> SUFFICES ASSUME wpc' = "due" PROVE next'[first'] <= now'
    BY <1>1, Zenon DEF Sound, Picked, worker
  <2>1. next'[first'] = next[first] /\ wpc = "due"
    BY Zenon DEF tasks, worker
  <2>2. next[first] <= now /\ next[first] \in Nat /\ now \in Nat
    BY <2>1, Zenon DEF Sound, Picked, Fields, Queued
  <2> QED
    BY <2>1, <2>2
<1>4. Asleep'
  BY DEF Sound, Asleep, worker
<1> QED
  BY <1>2, <1>3, <1>4, Zenon DEF Sound

(***************************************************************************)
(* The worker.                                                             *)
(***************************************************************************)
\* A step of the worker that leaves the tasks and the clients alone, to a place where it
\* has no task.
LEMMA WorkerMoves ==
  ASSUME Sound, UNCHANGED <<tasks, pc, now>>, running = {},
         wpc' \in WorkerPlaces \ {"due", "run", "done"}, first' = first, until' \in Int,
         state' \in States, Locked', Asleep'
  PROVE  Sound'
<1>1. Fields'
  BY Zenon DEF Sound, Fields, tasks
<1>2. Marked'
  BY Zenon DEF Sound, Marked, tasks
<1>3. Fresh' /\ Heap'
  BY Zenon DEF Sound, Fresh, Heap, tasks
<1>4. Picked'
  BY Zenon DEF Picked
<1> QED
  BY <1>1, <1>2, <1>3, <1>4, Zenon DEF Sound

LEMMA WorkerLockKeeps == ASSUME Sound, WorkerLock PROVE Sound'
<1>1. /\ wpc \in {"enter", "relock"} /\ wpc' = "loop" /\ lock = Nobody /\ lock' = Worker
      /\ UNCHANGED <<state, tasks, pc, now, first, until>>
  BY Zenon DEF WorkerLock
<1>2. Locked'
  BY <1>1, ThreadsAssumption DEF Sound, Locked
<1>3. Asleep'
  BY <1>1 DEF Sound, Asleep
<1>4. running = {} /\ until \in Int /\ state \in States
  BY <1>1 DEF Sound, Marked, Fields
<1> QED
  BY <1>1, <1>2, <1>3, <1>4, WorkerMoves DEF WorkerPlaces

LEMMA WorkerWaitKeeps ==
  ASSUME Sound, wpc = "loop", NEW time \in Int, WorkerWait(time), UNCHANGED <<tasks, pc, now>>
  PROVE  Sound'
<1>1. wpc' = "wait" /\ lock' = Nobody /\ until' = time /\ UNCHANGED <<state, first>>
  BY Zenon DEF WorkerWait
<1>2. Locked'
  BY <1>1, ThreadsAssumption DEF Sound, Locked
<1>3. Asleep'
  BY <1>1 DEF Sound, Asleep
<1>4. running = {} /\ state \in States
  BY DEF Sound, Marked, Fields
<1> QED
  BY <1>1, <1>2, <1>3, <1>4, WorkerMoves DEF WorkerPlaces

LEMMA WorkerLoopKeeps == ASSUME Sound, WorkerLoop PROVE Sound'
<1>1. wpc = "loop" /\ UNCHANGED <<tasks, pc, now>>
  BY Zenon DEF WorkerLoop
<1>2. running = {} /\ state \in States /\ until \in Int /\ first \in Ids \cup {NoTask}
  BY <1>1 DEF Sound, Marked, Fields
<1>3. CASE state' = "cancelled" /\ wpc' = "ended" /\ lock' = Nobody /\ UNCHANGED <<first, until>>
  <2>1. Locked'
    BY <1>1, <1>3, ThreadsAssumption DEF Sound, Locked
  <2>2. Asleep'
    BY <1>3 DEF Asleep
  <2> QED
    BY <1>1, <1>2, <1>3, <2>1, <2>2, WorkerMoves DEF WorkerPlaces, States
<1>4. CASE state = "stopping" /\ wpc' = "stopping" /\ lock' = Nobody /\ UNCHANGED <<state, first, until>>
  <2>1. Locked'
    BY <1>1, <1>4, ThreadsAssumption DEF Sound, Locked
  <2>2. Asleep'
    BY <1>4 DEF Asleep
  <2> QED
    BY <1>1, <1>2, <1>4, <2>1, <2>2, WorkerMoves DEF WorkerPlaces
<1>5. CASE WorkerWait(-1)
  BY <1>1, <1>5, WorkerWaitKeeps
<1>6. CASE Queued # {} /\ WorkerWait(next[HeapMin])
  <2>1. HeapMin \in Ids /\ next \in [Ids -> Nat]
    BY <1>6, HeapMinExists DEF Sound, Fields, Queued
  <2>2. next[HeapMin] \in Int
    BY <2>1
  <2> QED
    BY <1>1, <1>6, <2>2, WorkerWaitKeeps
<1>7. CASE /\ state \notin {"cancelling", "cancelled", "stopping"}
           /\ Queued # {} /\ now >= next[HeapMin]
           /\ wpc' = "due" /\ first' = HeapMin /\ until' = next[HeapMin]
           /\ UNCHANGED <<state, lock>>
  <2>1. HeapMin \in Queued /\ HeapMin \in Ids /\ next \in [Ids -> Nat] /\ next[HeapMin] \in Nat
    BY <1>7, HeapMinExists DEF Sound, Fields, Queued
  <2>2. Queued' = Queued /\ HeapMin' = HeapMin
    BY <1>1 DEF tasks, Queued, HeapMin, Earlier
  <2>3. Fields'
    BY <1>1, <1>7, <2>1 DEF Sound, Fields, tasks, WorkerPlaces
  <2>4. Locked'
    BY <1>1, <1>7, Zenon DEF Sound, Locked
  <2>5. Marked'
    BY <1>1, <1>2, <1>7, <2>1 DEF Marked, tasks
  <2>6. Fresh' /\ Heap'
    BY <1>1, Zenon DEF Sound, Fresh, Heap, tasks
  <2>7. Picked'
    <3>1. state \in {"running", "stopped"}
      BY <1>1, <1>2, <1>7 DEF States, Sound, Asleep
    <3>2. next[HeapMin] <= now
      BY <1>7, <2>1 DEF Sound, Fields
    <3> QED
      BY <1>1, <1>7, <2>1, <2>2, <3>1, <3>2, Zenon DEF Picked, tasks
  <2>8. Asleep'
    BY <1>1, <1>7 DEF Sound, Asleep
  <2> QED
    BY <2>3, <2>4, <2>5, <2>6, <2>7, <2>8, Zenon DEF Sound
<1> QED
  BY <1>3, <1>4, <1>5, <1>6, <1>7, Zenon DEF WorkerLoop

LEMMA WorkerRunKeeps == ASSUME Sound, WorkerRun PROVE Sound'
<1>1. /\ wpc = "due" /\ running' = running \cup {first} /\ lock' = Nobody
      /\ UNCHANGED <<state, active, next, period, nextId, now, first, until, pc>>
  BY Zenon DEF WorkerRun
<1>2. first \in Queued /\ first = HeapMin /\ first \in Ids /\ until \in Nat /\ running = {}
  BY <1>1 DEF Sound, Picked, Marked
<1>3. queue' = [queue EXCEPT ![first] = @ - 1] /\ wpc' = "run"
  BY <1>2, Zenon DEF WorkerRun
<1>4. queue[first] = 1 /\ first \in active
  BY <1>2 DEF Sound, Heap, Queued
<1>5. queue' = [queue EXCEPT ![first] = 0]
  BY <1>3, <1>4
<1>6. Fields'
  BY <1>1, <1>2, <1>3, <1>5 DEF Sound, Fields, WorkerPlaces
<1>7. Locked'
  BY <1>1, <1>3, ThreadsAssumption DEF Sound, Locked
<1>8. Marked'
  BY <1>1, <1>2, <1>3, <1>4 DEF Sound, Marked, Fresh
<1>9. Fresh'
  BY <1>1, Zenon DEF Sound, Fresh
<1>10. Heap'
  BY <1>1, <1>2, <1>5 DEF Sound, Heap, Fields
<1>11. Picked'
  BY <1>3 DEF Picked
<1>12. Asleep'
  BY <1>1, <1>3 DEF Sound, Asleep
<1> QED
  BY <1>6, <1>7, <1>8, <1>9, <1>10, <1>11, <1>12, Zenon DEF Sound

LEMMA WorkerReturnKeeps == ASSUME Sound, WorkerReturn PROVE Sound'
<1>1. wpc = "run" /\ wpc' = "done" /\ UNCHANGED <<state, lock, tasks, now, first, until, pc>>
  BY Zenon DEF WorkerReturn
<1>2. Fields' /\ Locked' /\ Fresh' /\ Heap'
  BY <1>1 DEF Sound, Fields, Locked, Fresh, Heap, tasks, WorkerPlaces
<1>3. Marked' /\ Picked' /\ Asleep'
  BY <1>1 DEF Sound, Marked, Picked, Asleep, tasks
<1> QED
  BY <1>2, <1>3, Zenon DEF Sound

LEMMA WorkerDoneKeeps == ASSUME Sound, WorkerDone PROVE Sound'
<1>1. /\ wpc = "done" /\ lock = Nobody /\ lock' = Worker /\ wpc' = "loop"
      /\ first' = NoTask /\ until' = -1 /\ running' = running \ {first}
      /\ UNCHANGED <<state, period, nextId, now, pc>>
  BY Zenon DEF WorkerDone
<1>2. /\ first \in Ids /\ until \in Nat /\ running \subseteq {first} /\ first < nextId
      /\ first \in active <=> first \in running
  BY <1>1 DEF Sound, Marked
<1>3. running' = {}
  BY <1>1, <1>2, Zenon
<1>4. /\ queue' \in [Ids -> Nat] /\ next' \in [Ids -> Nat] /\ active' \in SUBSET active
      /\ \A i \in Ids : queue'[i] = IF i \in active' THEN 1 ELSE 0
  <2>1. CASE first \in running /\ period[first] > 0
    <3>1. /\ next' = [next EXCEPT ![first] = until + period[first]]
          /\ queue' = [queue EXCEPT ![first] = @ + 1]
          /\ active' = active
      BY <2>1, Zenon DEF WorkerDone
    <3>2. queue[first] = 0 /\ first \in active
      BY <1>2, <2>1 DEF Sound, Heap
    <3>3. queue' = [queue EXCEPT ![first] = 1]
      BY <3>1, <3>2
    <3>4. period \in [Ids -> Nat] /\ queue \in [Ids -> Nat] /\ next \in [Ids -> Nat]
      BY Zenon DEF Sound, Fields
    <3>5. until + period[first] \in Nat
      BY <1>2, <3>4
    <3>6. next' \in [Ids -> Nat]
      BY <3>1, <3>4, <3>5, Zenon
    <3>8. queue' \in [Ids -> Nat]
      <4>1. 1 \in Nat
        OBVIOUS
      <4> QED
        BY <3>3, <3>4, <4>1, Zenon
    <3>7. ASSUME NEW i \in Ids PROVE queue'[i] = IF i \in active THEN 1 ELSE 0
      <4>1. CASE i = first
        BY <1>2, <3>2, <3>3, <3>4, <4>1
      <4>2. CASE i # first
        <5>1. i \notin running /\ queue'[i] = queue[i]
          BY <1>2, <3>3, <3>4, <4>2
        <5> QED
          BY <5>1, Zenon DEF Sound, Heap
      <4> QED
        BY <4>1, <4>2
    <3> QED
      BY <3>1, <3>6, <3>7, <3>8, Zenon
  <2>2. CASE ~(first \in running /\ period[first] > 0)
    <3>1. active' = active \ {first} /\ next' = next /\ queue' = queue
      BY <2>2, Zenon DEF WorkerDone
    <3> QED
      BY <1>2, <3>1 DEF Sound, Heap, Fields
  <2> QED
    BY <2>1, <2>2
<1>5. Fields'
  BY <1>1, <1>3, <1>4 DEF Sound, Fields, WorkerPlaces
<1>6. Locked'
  BY <1>1, ThreadsAssumption DEF Sound, Locked
<1>7. Marked' /\ Picked'
  BY <1>1, <1>3 DEF Marked, Picked
<1>8. Fresh' /\ Heap'
  BY <1>1, <1>3, <1>4 DEF Sound, Fresh, Heap
<1>9. Asleep'
  BY <1>1 DEF Sound, Asleep
<1> QED
  BY <1>5, <1>6, <1>7, <1>8, <1>9, Zenon DEF Sound

LEMMA WorkerStops == ASSUME Sound, WorkerStopped \/ WorkerSleep PROVE Sound'
<1>1. /\ wpc \in {"stopping", "stopped"} /\ wpc' \in {"stopped", "sleep"} /\ state' \in {"stopped", state}
      /\ UNCHANGED <<lock, tasks, now, first, until, pc>>
  BY Zenon DEF WorkerStopped, WorkerSleep
<1>2. Locked'
  BY <1>1 DEF Sound, Locked
<1>3. Asleep'
  BY <1>1 DEF Sound, Asleep
<1>4. running = {} /\ state' \in States /\ until \in Int
  BY <1>1 DEF Sound, Marked, Fields, States
<1> QED
  BY <1>1, <1>2, <1>3, <1>4, WorkerMoves DEF WorkerPlaces

\* The end of a wait; a client in its critical section would be a slip.
LEMMA WorkerWakes == ASSUME Sound, WorkerTimeout \/ SpuriousWakeup, slips' = {} PROVE Sound'
<1>1. /\ wpc \in {"wait", "sleep"} /\ wpc' \in {"loop", "relock"} /\ (wpc = "sleep" => FALSE)
      /\ UNCHANGED <<state, lock, tasks, now, first, until, pc>>
  BY DEF WorkerTimeout, SpuriousWakeup, Slip
<1>2. wpc' = "loop" => lock = Nobody
  <2> SUFFICES ASSUME wpc' = "loop" PROVE lock = Nobody
    OBVIOUS
  <2>1. Window("loop", lock) = {} /\ lock # Worker
    BY <1>1 DEF WorkerTimeout, SpuriousWakeup, Sound, Locked
  <2> QED
    BY <2>1 DEF Window, Slip, Unlocked
<1>3. Locked'
  BY <1>1, <1>2, ThreadsAssumption DEF Sound, Locked
<1>4. Asleep'
  BY <1>1 DEF Sound, Asleep
<1>5. running = {} /\ state \in States /\ until \in Int
  BY <1>1 DEF Sound, Marked, Fields
<1> QED
  BY <1>1, <1>3, <1>4, <1>5, WorkerMoves DEF WorkerPlaces

LEMMA TickKeeps == ASSUME Sound, Tick PROVE Sound'
<1>1. now' = now + 1 /\ UNCHANGED <<state, lock, tasks, worker, pc>>
  BY Zenon DEF Tick
<1>2. /\ now' \in Nat /\ now <= now' /\ pc \in [Clients -> ClientPlaces]
      /\ wpc = "new" => \A c \in Clients : pc[c] # "cancel"
  BY <1>1 DEF Sound, Fields, Asleep
<1>3. Locked'
  BY <1>1, Zenon DEF Sound, Locked, worker
<1> QED
  BY <1>1, <1>2, <1>3, Frame

(***************************************************************************)
(* The clients.                                                            *)
(***************************************************************************)
\* What a client in its critical section finds.
LEMMA Inside ==
  ASSUME Sound, NEW c \in Clients, pc[c] = "in" \/ pc[c] = "stop"
  PROVE  lock = c /\ wpc \notin {"loop", "due"}
BY ThreadsAssumption DEF Sound, Locked

LEMMA PlaceSet ==
  ASSUME Sound, NEW c \in Clients, NEW place \in ClientPlaces, pc' = [pc EXCEPT ![c] = place]
  PROVE  /\ pc' \in [Clients -> ClientPlaces] /\ pc'[c] = place
         /\ \A d \in Clients \ {c} : pc'[d] = pc[d]
BY DEF Sound, Fields

\* The mutex is free after the critical section of a client.
LEMMA Unlocks ==
  ASSUME Sound, NEW c \in Clients, pc[c] = "in" \/ pc[c] = "stop",
         NEW place \in ClientPlaces \ {"in", "stop"}, pc' = [pc EXCEPT ![c] = place],
         lock' = Nobody, wpc' \notin {"loop", "due"}
  PROVE  Locked'
<1>1. lock = c
  BY Inside
<1>2. pc'[c] = place /\ \A d \in Clients \ {c} : pc'[d] = pc[d]
  BY PlaceSet, Zenon
<1>3. ASSUME NEW d \in Clients PROVE pc'[d] \notin {"in", "stop"}
  BY <1>1, <1>2 DEF Sound, Locked
<1> QED
  BY <1>3, ThreadsAssumption DEF Locked

\* The worker does not fall asleep when a client leaves.
LEMMA StaysAsleep ==
  ASSUME Sound, NEW c \in Clients, pc[c] # "cancel", NEW place \in ClientPlaces \ {"cancel"},
         pc' = [pc EXCEPT ![c] = place], state' = state, wpc' = WakeWaiting(wpc)
  PROVE  Asleep'
<1>1. \A d \in Clients : pc[d] = "cancel" <=> pc'[d] = "cancel"
  BY PlaceSet, Zenon
<1>2. wpc' = wpc \/ (wpc = "wait" /\ wpc' = "relock")
  BY DEF WakeWaiting
<1> QED
  BY <1>1, <1>2 DEF Sound, Asleep

\* The end of a procedure that has changed the tasks.
LEMMA LeaveKeeps ==
  ASSUME Sound, NEW c \in Clients, pc[c] = "in", Leave(c, "idle", wpc), state' = state,
         active' \in SUBSET Ids, running' \in SUBSET running, running' \subseteq active',
         queue' \in [Ids -> Nat], next' \in [Ids -> Nat], period' \in [Ids -> Nat],
         nextId' \in Nat, nextId <= nextId', Fresh', Heap',
         wpc \in {"run", "done"} /\ first \in active'
           => first \in active /\ (first \in running => first \in running')
  PROVE  Sound'
<1>1. /\ pc' = [pc EXCEPT ![c] = "idle"] /\ lock' = Nobody /\ wpc' = WakeWaiting(wpc)
      /\ UNCHANGED <<now, first, until>>
  BY Zenon DEF Leave
<1>2. /\ wpc' = wpc \/ (wpc = "wait" /\ wpc' = "relock")
      /\ wpc' \notin {"loop", "due"} /\ "idle" \in ClientPlaces \ {"in", "stop", "cancel"} /\ pc[c] # "cancel"
  BY <1>1, Inside DEF WakeWaiting, ClientPlaces
<1>3. Locked' /\ Asleep' /\ pc' \in [Clients -> ClientPlaces]
  BY <1>1, <1>2, Unlocks, StaysAsleep, PlaceSet, Zenon
<1>4. Fields'
  BY <1>1, <1>2, <1>3 DEF Sound, Fields, WorkerPlaces
<1>5. Marked'
  <2>1. running' \subseteq active' \cap {first'}
    BY <1>1, Zenon DEF Sound, Marked
  <2>2. wpc' \notin {"run", "done"} => running' = {}
    BY <1>2, Zenon DEF Sound, Marked
  <2>3. wpc' \in {"due", "run", "done"} => first' \in Ids /\ until' \in Nat
    BY <1>1, <1>2 DEF Sound, Marked
  <2>4. wpc' \in {"run", "done"} => first' < nextId' /\ (first' \in active' => first' \in running')
    <3> SUFFICES ASSUME wpc' \in {"run", "done"}
                 PROVE  first < nextId' /\ (first \in active' => first \in running')
      BY <1>1, Zenon
    <3>1. /\ wpc \in {"run", "done"}
          /\ first \in Ids /\ first < nextId /\ (first \in active => first \in running)
      BY <1>2 DEF Sound, Marked
    <3>2. first < nextId'
      BY <3>1 DEF Ids, Sound, Fields
    <3> QED
      BY <3>1, <3>2, Zenon
  <2> QED
    BY <2>1, <2>2, <2>3, <2>4, Zenon DEF Marked
<1>6. Picked'
  BY <1>2, Zenon DEF Picked
<1> QED
  BY <1>3, <1>4, <1>5, <1>6, Zenon DEF Sound

LEMMA ScheduleKeeps ==
  ASSUME Sound, NEW c \in Clients, NEW delay \in Delays, NEW p \in Delays, Schedule(c, delay, p)
  PROVE  Sound'
<1>1. /\ pc[c] = "in" /\ nextId <= MaxTasks /\ Leave(c, "idle", wpc) /\ state' = state
      /\ nextId' = nextId + 1 /\ next' = [next EXCEPT ![nextId] = now + delay]
      /\ period' = [period EXCEPT ![nextId] = p] /\ active' = active \cup {nextId}
      /\ queue' = [queue EXCEPT ![nextId] = 1] /\ running' = running
  BY Zenon DEF Schedule
<1>2. /\ nextId \in Ids /\ nextId' \in Nat /\ nextId <= nextId' /\ now + delay \in Nat /\ p \in Nat /\ 1 \in Nat
      /\ nextId < nextId'
  BY <1>1, NumbersAssumption DEF Sound, Fields, Ids
<1>3. nextId \notin active /\ nextId \notin running
  BY <1>2 DEF Sound, Fresh, Marked, Ids
<1>4. /\ active' \in SUBSET Ids /\ running' \in SUBSET running /\ running' \subseteq active'
      /\ queue' \in [Ids -> Nat] /\ next' \in [Ids -> Nat] /\ period' \in [Ids -> Nat]
  BY <1>1, <1>2, Zenon DEF Sound, Fields, Marked
<1>5. Fresh'
  <2> SUFFICES ASSUME NEW i \in active' PROVE i < nextId'
    BY DEF Fresh
  <2>1. CASE i = nextId
    BY <1>2, <2>1
  <2>2. CASE i \in active
    <3>1. i < nextId /\ i \in Nat /\ nextId \in Nat
      BY <2>2 DEF Sound, Fresh, Fields, Ids
    <3> QED
      BY <1>1, <3>1
  <2> QED
    BY <1>1, <2>1, <2>2, Zenon
<1>6. Heap'
  <2> SUFFICES ASSUME NEW i \in Ids PROVE queue'[i] = IF i \in active' \ running' THEN 1 ELSE 0
    BY Zenon DEF Heap
  <2>1. queue'[i] = IF i = nextId THEN 1 ELSE queue[i]
    BY <1>1, Zenon DEF Sound, Fields
  <2> QED
    BY <1>1, <1>3, <2>1, Zenon DEF Sound, Heap
<1>7. wpc \in {"run", "done"} /\ first \in active' => first \in active
  BY <1>1, <1>2 DEF Sound, Marked, Ids
<1> QED
  BY <1>1, <1>2, <1>4, <1>5, <1>6, <1>7, LeaveKeeps, Zenon

LEMMA RescheduleKeeps ==
  ASSUME Sound, NEW c \in Clients, NEW i \in Ids, NEW delay \in Delays, NEW p \in Delays,
         Reschedule(c, i, delay, p), slips' = {}
  PROVE  Sound'
<1>1. /\ pc[c] = "in" /\ i \in active /\ Leave(c, "idle", wpc)
      /\ next' = [next EXCEPT ![i] = now + delay] /\ period' = [period EXCEPT ![i] = p]
      /\ queue' = [queue EXCEPT ![i] = IF i \in running \/ @ = 0 THEN @ + 1 ELSE @]
      /\ UNCHANGED <<state, active, running, nextId>>
  BY Zenon DEF Reschedule
<1>2. i \notin running
  BY DEF Reschedule, Slip
<1>3. queue[i] = 1
  BY <1>1, <1>2 DEF Sound, Heap
<1>4. queue' = queue
  BY <1>1, <1>2, <1>3 DEF Sound, Fields
<1>5. now + delay \in Nat /\ p \in Nat /\ nextId \in Nat /\ nextId <= nextId
  BY NumbersAssumption DEF Sound, Fields
<1>6. /\ active' \in SUBSET Ids /\ running' \in SUBSET running /\ running' \subseteq active'
      /\ queue' \in [Ids -> Nat] /\ next' \in [Ids -> Nat] /\ period' \in [Ids -> Nat]
  BY <1>1, <1>4, <1>5, Zenon DEF Sound, Fields, Marked
<1>7. Fresh' /\ Heap'
  BY <1>1, <1>4, Zenon DEF Sound, Fresh, Heap
<1> QED
  BY <1>1, <1>5, <1>6, <1>7, LeaveKeeps, Zenon

LEMMA RemoveKeeps ==
  ASSUME Sound, NEW c \in Clients, NEW i \in Ids, Remove(c, i)
  PROVE  Sound'
<1>1. /\ pc[c] = "in" /\ i \in active /\ Leave(c, "idle", wpc) /\ active' = active \ {i}
      /\ UNCHANGED <<state, next, period, nextId>>
  BY Zenon DEF Remove
<1>2. /\ running' = running \ {i}
      /\ queue' = IF i \in running THEN queue ELSE [queue EXCEPT ![i] = 0]
  <2>1. CASE i \in running
    BY <2>1, Zenon DEF Remove
  <2>2. CASE i \notin running
    <3>1. queue[i] = 1
      BY <1>1, <2>2 DEF Sound, Heap
    <3>2. queue' = [queue EXCEPT ![i] = @ - 1] /\ running' = running
      BY <2>2, Zenon DEF Remove
    <3> QED
      BY <2>2, <3>1, <3>2
  <2> QED
    BY <2>1, <2>2, Zenon
<1>3. nextId \in Nat /\ nextId <= nextId /\ 0 \in Nat
  BY DEF Sound, Fields
<1>4. /\ active' \in SUBSET Ids /\ running' \in SUBSET running /\ running' \subseteq active'
      /\ queue' \in [Ids -> Nat] /\ next' \in [Ids -> Nat] /\ period' \in [Ids -> Nat]
  BY <1>1, <1>2, <1>3, Zenon DEF Sound, Fields, Marked
<1>5. Fresh'
  BY <1>1, Zenon DEF Sound, Fresh
<1>6. Heap'
  <2> SUFFICES ASSUME NEW j \in Ids PROVE queue'[j] = IF j \in active' \ running' THEN 1 ELSE 0
    BY Zenon DEF Heap
  <2>1. CASE j = i
    <3>1. queue'[i] = 0
      BY <1>2 DEF Sound, Fields, Heap
    <3> QED
      BY <1>1, <2>1, <3>1
  <2>2. CASE j # i
    <3>1. queue'[j] = queue[j] /\ (j \in active' \ running' <=> j \in active \ running)
      BY <1>1, <1>2, <2>2, Zenon DEF Sound, Fields
    <3> QED
      BY <3>1, Zenon DEF Sound, Heap
  <2> QED
    BY <2>1, <2>2
<1> QED
  BY <1>1, <1>2, <1>3, <1>4, <1>5, <1>6, LeaveKeeps, Zenon

\* A client moves without the tasks.
LEMMA ClientMoves ==
  ASSUME Sound, UNCHANGED <<tasks, now, first, until>>, state' \in States,
         wpc' \in WorkerPlaces, wpc' = wpc \/ (wpc \notin {"run", "done"} /\ wpc' \in {"relock", "enter"}),
         wpc # "due", pc' \in [Clients -> ClientPlaces], Locked', Asleep'
  PROVE  Sound'
<1>1. Fields'
  BY Zenon DEF Sound, Fields, tasks
<1>2. Marked'
  <2>1. CASE wpc' = wpc
    BY <2>1, Zenon DEF Sound, Marked, tasks
  <2>2. CASE wpc \notin {"run", "done"} /\ wpc' \in {"relock", "enter"}
    BY <2>2 DEF Sound, Marked, tasks
  <2> QED
    BY <2>1, <2>2
<1>3. Fresh' /\ Heap'
  BY Zenon DEF Sound, Fresh, Heap, tasks
<1>4. Picked'
  BY DEF Picked
<1> QED
  BY <1>1, <1>2, <1>3, <1>4, Zenon DEF Sound

LEMMA EnterKeeps == ASSUME Sound, NEW c \in Clients, Enter(c), slips' = {} PROVE Sound'
<1>1. /\ pc[c] = "idle" /\ lock = Nobody /\ lock' = c /\ pc' = [pc EXCEPT ![c] = "in"]
      /\ UNCHANGED <<state, tasks, now, worker>>
  BY Zenon DEF Enter
<1>2. wpc \notin {"loop", "due"}
  <2>1. Window(wpc, c) = {}
    BY Zenon DEF Enter
  <2> QED
    BY <2>1, ThreadsAssumption DEF Window, Slip, Unlocked
<1>3. pc' \in [Clients -> ClientPlaces] /\ pc'[c] = "in" /\ \A d \in Clients \ {c} : pc'[d] = pc[d]
  BY <1>1, PlaceSet, Zenon DEF ClientPlaces
<1>4. Locked'
  <2>1. \A d \in Clients : pc[d] \notin {"in", "stop"}
    BY <1>1, ThreadsAssumption DEF Sound, Locked
  <2>2. \A d \in Clients : pc'[d] \in {"in", "stop"} <=> lock' = d
    BY <1>1, <1>3, <2>1
  <2> QED
    BY <1>1, <1>2, <2>2, ThreadsAssumption, Zenon DEF Locked, worker
<1>5. now \in Nat /\ now <= now
  BY DEF Sound, Fields
<1>6. \A d \in Clients : pc[d] = "cancel" <=> pc'[d] = "cancel"
  BY <1>1, <1>3
<1>7. wpc = "new" => \A d \in Clients : pc'[d] # "cancel"
  BY <1>6, Zenon DEF Sound, Asleep
<1> QED
  BY <1>1, <1>3, <1>4, <1>5, <1>6, <1>7, Frame, Zenon

LEMMA LookKeeps == ASSUME Sound, NEW c \in Clients, Look(c) PROVE Sound'
<1>1. /\ pc[c] = "in" /\ lock' = Nobody /\ pc' = [pc EXCEPT ![c] = "idle"]
      /\ UNCHANGED <<state, tasks, now, worker>>
  BY Zenon DEF Look
<1>2. "idle" \in ClientPlaces \ {"in", "stop"} /\ wpc' = wpc /\ wpc \notin {"loop", "due"}
  BY <1>1, Inside DEF ClientPlaces, worker
<1>3. /\ pc' \in [Clients -> ClientPlaces] /\ Locked' /\ pc'[c] = "idle"
      /\ \A d \in Clients \ {c} : pc'[d] = pc[d]
  BY <1>1, <1>2, PlaceSet, Unlocks, Zenon
<1>4. \A d \in Clients : pc[d] = "cancel" <=> pc'[d] = "cancel"
  BY <1>1, <1>3
<1>5. now \in Nat /\ now <= now
  BY DEF Sound, Fields
<1>6. wpc = "new" => \A d \in Clients : pc'[d] # "cancel"
  BY <1>4, Zenon DEF Sound, Asleep
<1> QED
  BY <1>1, <1>3, <1>4, <1>5, <1>6, Frame, Zenon

\* timer-stop! sees the state stopped; the worker is joined.
LEMMA ReturnKeeps == ASSUME Sound, NEW c \in Clients, Poll(c) \/ Join(c) PROVE Sound'
<1>1. /\ pc[c] \in {"poll", "join"} /\ pc' = [pc EXCEPT ![c] = "idle"]
      /\ UNCHANGED <<state, lock, tasks, now, worker>>
  BY Zenon DEF Poll, Join
<1>2. pc' \in [Clients -> ClientPlaces] /\ pc'[c] = "idle" /\ \A d \in Clients \ {c} : pc'[d] = pc[d]
  BY <1>1, PlaceSet, Zenon DEF ClientPlaces
<1>3. \A d \in Clients : /\ pc'[d] \in {"in", "stop"} <=> pc[d] \in {"in", "stop"}
                         /\ pc[d] = "cancel" <=> pc'[d] = "cancel"
  BY <1>1, <1>2
<1>4. Locked'
  BY <1>1, <1>3, Zenon DEF Sound, Locked, worker
<1>5. now \in Nat /\ now <= now
  BY DEF Sound, Fields
<1>6. wpc = "new" => \A d \in Clients : pc'[d] # "cancel"
  BY <1>3, Zenon DEF Sound, Asleep
<1> QED
  BY <1>1, <1>2, <1>3, <1>4, <1>5, <1>6, Frame, Zenon

LEMMA StopKeeps == ASSUME Sound, NEW c \in Clients, Stop(c), slips' = {} PROVE Sound'
<1>1. /\ pc[c] = "in" /\ state' = "stopping" /\ pc' = [pc EXCEPT ![c] = "stop"]
      /\ UNCHANGED <<lock, tasks, now, worker>>
  BY Zenon DEF Stop
<1>2. state = "running"
  BY DEF Stop, Slip
<1>3. pc' \in [Clients -> ClientPlaces] /\ pc'[c] = "stop" /\ \A d \in Clients \ {c} : pc'[d] = pc[d]
  BY <1>1, PlaceSet, Zenon DEF ClientPlaces
<1>4. Locked'
  <2>1. \A d \in Clients : pc'[d] \in {"in", "stop"} <=> pc[d] \in {"in", "stop"}
    BY <1>1, <1>3
  <2> QED
    BY <1>1, <2>1, Zenon DEF Sound, Locked, worker
<1>5. Asleep'
  BY <1>1, <1>2 DEF Sound, Asleep, worker
<1>6. wpc \in WorkerPlaces /\ wpc # "due"
  BY <1>1, Inside DEF Sound, Fields
<1> QED
  BY <1>1, <1>3, <1>4, <1>5, <1>6, ClientMoves DEF States, worker

LEMMA StopLockedKeeps == ASSUME Sound, NEW c \in Clients, StopLocked(c) PROVE Sound'
<1>1. /\ pc[c] = "stop" /\ pc' = [pc EXCEPT ![c] = "poll"] /\ lock' = Nobody /\ wpc' = WakeWaiting(wpc)
      /\ UNCHANGED <<state, tasks, now, first, until>>
  BY Zenon DEF StopLocked, Leave
<1>2. /\ wpc' = wpc \/ (wpc = "wait" /\ wpc' = "relock")
      /\ wpc \notin {"loop", "due"} /\ "poll" \in ClientPlaces \ {"in", "stop", "cancel"} /\ pc[c] # "cancel"
  BY <1>1, Inside DEF WakeWaiting, ClientPlaces
<1>3. Locked' /\ Asleep' /\ pc' \in [Clients -> ClientPlaces]
  BY <1>1, <1>2, Unlocks, StaysAsleep, PlaceSet, Zenon
<1>4. state \in States /\ wpc' \in WorkerPlaces
  BY <1>2 DEF Sound, Fields, WorkerPlaces
<1> QED
  BY <1>1, <1>2, <1>3, <1>4, ClientMoves

\* timer-start! resumes the stopped worker or starts it; otherwise it raises.
LEMMA StartKeeps == ASSUME Sound, NEW c \in Clients, Start(c), slips' = {} PROVE Sound'
<1>1. pc[c] = "in" /\ UNCHANGED tasks
  BY Zenon DEF Start
<1>2. wpc \notin {"loop", "due"} /\ wpc \in WorkerPlaces /\ state \in States
  BY <1>1, Inside DEF Sound, Fields
<1>3. "raise" \notin slips'
  OBVIOUS
<1>4. /\ state' = "running" /\ pc' = [pc EXCEPT ![c] = "idle"] /\ lock' = Nobody
      /\ UNCHANGED <<now, first, until>>
      /\ \/ state = "stopped" /\ wpc' = WakeWaiting(WakeSleeping(wpc))
         \/ state = "created" /\ wpc' = "enter"
  BY <1>3, Zenon DEF Start, Leave
<1>5. /\ wpc' = wpc \/ (wpc \notin {"run", "done"} /\ wpc' \in {"relock", "enter"})
      /\ wpc' \in WorkerPlaces /\ wpc' \notin {"loop", "due", "new"}
  BY <1>2, <1>4 DEF WakeWaiting, WakeSleeping, WorkerPlaces, Sound, Asleep
<1>6. "idle" \in ClientPlaces \ {"in", "stop"}
  BY DEF ClientPlaces
<1>7. Locked' /\ pc' \in [Clients -> ClientPlaces]
  BY <1>1, <1>4, <1>5, <1>6, Unlocks, PlaceSet, Zenon
<1>8. Asleep'
  BY <1>4, <1>5 DEF Asleep
<1>9. state' \in States /\ wpc # "due"
  BY <1>2, <1>4 DEF States
<1> QED
  BY <1>1, <1>4, <1>5, <1>7, <1>8, <1>9, ClientMoves, Zenon

LEMMA CancelKeeps == ASSUME Sound, NEW c \in Clients, Cancel(c), slips' = {} PROVE Sound'
<1>1. pc[c] = "in" /\ UNCHANGED tasks
  BY Zenon DEF Cancel, Cancelling
<1>2. wpc \notin {"loop", "due"} /\ wpc # "due" /\ wpc \in WorkerPlaces /\ state \in States
  BY <1>1, Inside DEF Sound, Fields
<1>3. {"join", "retry"} \subseteq ClientPlaces \ {"in", "stop", "cancel"} /\ pc[c] # "cancel"
  BY <1>1 DEF ClientPlaces
<1>4. lock' = Nobody /\ UNCHANGED <<now, first, until>>
  BY Zenon DEF Cancel, Cancelling, Leave
<1>5. CASE state = "stopping" /\ Leave(c, "retry", wpc) /\ state' = state
  <2>1. pc' = [pc EXCEPT ![c] = "retry"] /\ wpc' = WakeWaiting(wpc)
    BY <1>5, Zenon DEF Leave
  <2>2. /\ wpc' = wpc \/ (wpc \notin {"run", "done"} /\ wpc' \in {"relock", "enter"})
        /\ wpc' \in WorkerPlaces /\ wpc' \notin {"loop", "due"}
    BY <1>2, <2>1 DEF WakeWaiting, WorkerPlaces
  <2>3. Locked' /\ Asleep' /\ pc' \in [Clients -> ClientPlaces]
    BY <1>1, <1>3, <1>4, <1>5, <2>1, <2>2, Unlocks, StaysAsleep, PlaceSet, Zenon
  <2> QED
    BY <1>1, <1>2, <1>4, <1>5, <2>2, <2>3, ClientMoves, Zenon
<1>6. CASE state # "stopping"
  <2>1. /\ state' = "cancelling" /\ pc' = [pc EXCEPT ![c] = "join"]
        /\ \/ state = "stopped" /\ wpc' = WakeWaiting(WakeSleeping(wpc))
           \/ state # "stopped" /\ wpc' = WakeWaiting(wpc) /\ Slip("cancel", wpc = "new") = {}
    BY <1>6, Zenon DEF Cancel, Cancelling, Leave
  <2>2. /\ wpc' = wpc \/ (wpc \notin {"run", "done"} /\ wpc' \in {"relock", "enter"})
        /\ wpc' \in WorkerPlaces /\ wpc' \notin {"loop", "due", "new"}
    BY <1>2, <2>1 DEF WakeWaiting, WakeSleeping, WorkerPlaces, Slip, Sound, Asleep
  <2>3. Locked' /\ pc' \in [Clients -> ClientPlaces]
    BY <1>1, <1>3, <1>4, <2>1, <2>2, Unlocks, PlaceSet, Zenon
  <2>4. Asleep' /\ state' \in States
    BY <2>1, <2>2 DEF Asleep, States
  <2> QED
    BY <1>1, <1>2, <1>4, <2>2, <2>3, <2>4, ClientMoves, Zenon
<1> QED
  BY <1>5, <1>6, Zenon DEF Cancel

\* A retry that finds another state than stopped goes on without the lock.
LEMMA RetryKeeps == ASSUME Sound, NEW c \in Clients, Retry(c), slips' = {} PROVE Sound'
<1>1. "cancel" \notin slips'
  OBVIOUS
<1>2. /\ pc[c] = "retry" /\ state = "stopped" /\ wpc' = WakeSleeping(wpc)
      /\ pc' = [pc EXCEPT ![c] = "cancel"] /\ UNCHANGED <<state, lock, tasks, now, first, until>>
  BY <1>1, Zenon DEF Retry
<1>3. pc' \in [Clients -> ClientPlaces] /\ pc'[c] = "cancel" /\ \A d \in Clients \ {c} : pc'[d] = pc[d]
  BY <1>2, PlaceSet, Zenon DEF ClientPlaces
<1>4. wpc' = wpc \/ (wpc = "sleep" /\ wpc' = "relock")
  BY <1>2 DEF WakeSleeping
<1>5. Locked'
  <2>1. \A d \in Clients : pc'[d] \in {"in", "stop"} <=> pc[d] \in {"in", "stop"}
    BY <1>2, <1>3
  <2> QED
    BY <1>2, <1>4, <2>1 DEF Sound, Locked
<1>6. \A d \in Clients : pc[d] = "cancel" => pc'[d] = "cancel"
  BY <1>3, Zenon
<1>7. CASE wpc' = wpc
  <2>1. now \in Nat /\ now <= now
    BY DEF Sound, Fields
  <2>2. wpc # "new"
    BY <1>2 DEF Sound, Asleep
  <2> QED
    BY <1>2, <1>3, <1>5, <1>6, <1>7, <2>1, <2>2, Frame, Zenon DEF worker
<1>8. CASE wpc = "sleep" /\ wpc' = "relock"
  <2>1. Asleep'
    BY <1>2, <1>3, <1>8 DEF Asleep
  <2>2. state \in States /\ "relock" \in WorkerPlaces
    BY DEF Sound, Fields, WorkerPlaces
  <2> QED
    BY <1>2, <1>3, <1>5, <1>8, <2>1, <2>2, ClientMoves
<1> QED
  BY <1>4, <1>7, <1>8, Zenon

LEMMA CancelLockedKeeps == ASSUME Sound, NEW c \in Clients, CancelLocked(c), slips' = {} PROVE Sound'
<1>1. /\ pc[c] = "cancel" /\ lock = Nobody /\ state' = "cancelling" /\ lock' = Nobody
      /\ pc' = [pc EXCEPT ![c] = "join"] /\ wpc' = WakeWaiting(wpc)
      /\ UNCHANGED <<tasks, now, first, until>>
  BY Zenon DEF CancelLocked, Cancelling, Leave
<1>2. wpc \notin {"loop", "due"}
  <2>1. Window(wpc, c) = {}
    BY Zenon DEF CancelLocked
  <2> QED
    BY <2>1, ThreadsAssumption DEF Window, Slip, Unlocked
<1>3. pc' \in [Clients -> ClientPlaces] /\ pc'[c] = "join" /\ \A d \in Clients \ {c} : pc'[d] = pc[d]
  BY <1>1, PlaceSet, Zenon DEF ClientPlaces
<1>4. /\ wpc' = wpc \/ (wpc = "wait" /\ wpc' = "relock")
      /\ wpc' \in WorkerPlaces
  BY <1>1 DEF WakeWaiting, Sound, Fields, WorkerPlaces
<1>5. Locked'
  <2>1. \A d \in Clients : pc'[d] \notin {"in", "stop"}
    BY <1>1, <1>3, ThreadsAssumption DEF Sound, Locked
  <2> QED
    BY <1>1, <1>2, <1>4, <2>1, ThreadsAssumption DEF Locked
<1>6. Asleep'
  BY <1>1, <1>4 DEF Sound, Asleep
<1> QED
  BY <1>1, <1>2, <1>3, <1>4, <1>5, <1>6, ClientMoves DEF States

(***************************************************************************)
(* The theorems.                                                           *)
(***************************************************************************)
LEMMA WorkerKeeps ==
  ASSUME Sound, WorkerStep \/ SpuriousWakeup \/ Tick, slips' = {} PROVE Sound'
<1>1. ~WorkerRaise
  BY Zenon DEF WorkerRaise
<1> QED
  BY <1>1, WorkerLockKeeps, WorkerLoopKeeps, WorkerRunKeeps, WorkerReturnKeeps, WorkerDoneKeeps,
     WorkerStops, WorkerWakes, TickKeeps, Zenon
  DEF WorkerStep

LEMMA ClientKeeps ==
  ASSUME Sound, NEW c \in Clients, Enter(c) \/ ClientStep(c), slips' = {} PROVE Sound'
<1>1. CASE \/ \E d, p \in Delays : Schedule(c, d, p) \/ \E i \in Ids : Reschedule(c, i, d, p)
           \/ \E i \in Ids : Remove(c, i)
  BY <1>1, ScheduleKeeps, RescheduleKeeps, RemoveKeeps, Zenon
<1>2. CASE Enter(c) \/ Look(c) \/ Start(c) \/ Stop(c) \/ StopLocked(c) \/ Poll(c)
  BY <1>2, EnterKeeps, LookKeeps, StartKeeps, StopKeeps, StopLockedKeeps, ReturnKeeps, Zenon
<1>3. CASE Cancel(c) \/ Retry(c) \/ CancelLocked(c) \/ Join(c)
  BY <1>3, CancelKeeps, RetryKeeps, CancelLockedKeeps, ReturnKeeps, Zenon
<1> QED
  BY <1>1, <1>2, <1>3, Zenon DEF ClientStep

LEMMA StutterKeeps == ASSUME Sound, UNCHANGED vars PROVE Sound'
<1>1. /\ UNCHANGED <<state, lock, tasks, now, worker, pc>>
      /\ pc \in [Clients -> ClientPlaces] /\ now \in Nat /\ now <= now
      /\ wpc = "new" => \A c \in Clients : pc[c] # "cancel"
  BY DEF Sound, Fields, Asleep, vars
<1>2. Locked'
  BY <1>1, Zenon DEF Sound, Locked, worker
<1> QED
  BY <1>1, <1>2, Frame, Zenon

LEMMA StepKeeps == IInv /\ [Next]_vars => IInv'
<1> SUFFICES ASSUME IInv, [Next]_vars, slips' = {} PROVE Sound'
  BY Zenon DEF IInv
<1>1. Sound
  BY SlipsStay, Zenon DEF IInv
<1> QED
  BY <1>1, WorkerKeeps, ClientKeeps, StutterKeeps, Zenon DEF Next

LEMMA Inductive == Spec => []IInv
BY InitEstablishes, StepKeeps, PTL DEF Spec

\* No task of a timer is lost or run twice for one time, whatever the clients do while
\* the worker has released the mutex to run it.
THEOREM NoTaskIsLost == Spec => []TasksAccounted
<1>1. IInv => TasksAccounted
  BY Zenon DEF IInv, Sound, Heap, Marked, TasksAccounted
<1> QED
  BY <1>1, Inductive, PTL

\* The worker starts a task only if it is due and active, and only of a running timer or
\* of one that a retrying timer-cancel! has just woken.
THEOREM TasksStartProperly == Spec => StartsProperly
<1>1. ASSUME IInv, [Next]_vars
      PROVE  [slips = {} /\ wpc # "run" /\ wpc' = "run"
                => /\ first \in active /\ next[first] <= now
                   /\ state = "running" \/ \E c \in Clients : pc[c] = "cancel"]_vars
  <2> SUFFICES ASSUME Next, slips = {}, wpc # "run", wpc' = "run"
               PROVE  /\ first \in active /\ next[first] <= now
                      /\ state = "running" \/ \E c \in Clients : pc[c] = "cancel"
    BY <1>1, Zenon DEF vars, worker
  <2>1. Sound
    BY <1>1, Zenon DEF IInv
  <2>2. CASE WorkerStep \/ SpuriousWakeup \/ Tick
    <3>1. wpc = "due"
      BY <2>2
      DEF WorkerStep, WorkerLock, WorkerLoop, WorkerWait, WorkerRun, WorkerReturn, WorkerRaise,
          WorkerDone, WorkerStopped, WorkerSleep, WorkerTimeout, SpuriousWakeup, Tick, worker
    <3>2. first \in Queued /\ next[first] <= now /\ state \in {"running", "stopped"}
      BY <2>1, <3>1, Zenon DEF Sound, Picked
    <3>3. first \in active
      BY <2>1, <3>2 DEF Sound, Heap, Queued
    <3>4. state = "stopped" => \E c \in Clients : pc[c] = "cancel"
      BY <2>1, <3>1 DEF Sound, Asleep
    <3> QED
      BY <3>2, <3>3, <3>4, Zenon
  <2>3. ASSUME NEW c \in Clients, Enter(c) \/ ClientStep(c) PROVE FALSE
    <3>1. wpc' \in {wpc, "relock", "enter"}
      BY <2>3, Zenon
      DEF Enter, ClientStep, Schedule, Reschedule, Remove, Look, Start, Stop, StopLocked, Poll,
          Cancel, Cancelling, Retry, CancelLocked, Join, Leave, WakeWaiting, WakeSleeping, worker
    <3> QED
      BY <3>1, Zenon
  <2> QED
    BY <2>2, <2>3, Zenon DEF Next
<1> QED
  BY <1>1, Inductive, PTL DEF Spec, StartsProperly
=============================================================================
