------------------------------ MODULE Executor ------------------------------
(***************************************************************************)
(* Futures and executors: sitelib/util/concurrent/future.scm and           *)
(* executor.scm.  The executor is a thread pool executor of N threads with *)
(* one of the reject handlers, or a fork-join executor, whose futures have *)
(* a thread of their own each, or there is none and the futures are simple *)
(* ones, which have a thread of their own as well.                         *)
(*                                                                         *)
(* The fields of a future are read and written without a lock, so every    *)
(* access is a step.  What the executor does inside with-atomic is one     *)
(* step, guarded by its mutex; only adding a future takes two, because the *)
(* task already runs between them.  The shared box is one step a call: its *)
(* mutex is held from the look at the value to the wait.  The pool may     *)
(* give a task to any of its threads, which is more than ThreadPool does.  *)
(***************************************************************************)
EXTENDS Integers, Sequences

CONSTANTS Futures,
          Clients,          \* the threads that call future-get
          Submitters,       \* the clients that also execute, cancel and shut down
          NoThread,
          N,                \* max-pool-size
          Handlers,         \* the executors considered: reject handlers, "fork" or "simple"
          Retries,          \* wait-retry of wait-finishing-handler
          Watched,          \* the futures on which the clients call get and cancel
          Timed             \* bound: the executors whose futures are got with a timeout

ASSUME SizeAssumption == N \in Nat \ {0} /\ Retries \in Nat
ASSUME HandlersAssumption == Handlers \subseteq {"simple", "fork", "abort", "terminate", "wait", "push"}
ASSUME NoThreadAssumption == NoThread \notin Clients \cup Futures
ASSUME WatchedAssumption == Watched \subseteq Futures /\ Submitters \subseteq Clients
ASSUME TimedAssumption == Timed \subseteq Handlers

Ids == 0..(N - 1)
Empty == "shared-box-mark"
Values == {"value", "error"}       \* what a thunk comes to

VARIABLES state, result, canceller, box,  \* the fields of each future and its box
          tpc, tval,        \* where the task of each future is, and what it has to put
          taskq,            \* q of the task: what it has taken for its box
          work,             \* the tasks in the hands of each pooled thread
          ids,              \* executor-pool-ids
          estate, handler,  \* executor-state, executor-rejected-handler
          lock,             \* who is inside the executor's mutex
          cpc, reg          \* where each client is, and its variables

futures == <<state, result, canceller, box>>
tasks == <<tpc, tval, taskq, work>>
executor == <<ids, estate, handler, lock>>
vars == <<futures, tasks, executor, cpc, reg>>

GetPlaces == {"result", "box", "boxwait", "store", "reread", "flag"}
CancelPlaces == {"cset", "ccall", "cclean", "cclear"}
ExecutePlaces == {"execute", "added", "reject", "push", "oldest", "kill", "oldclean", "wait"}

\* f: the future; value: what future-get has read, and how it ended; late: whether the
\* client has just cancelled the future; count: the rounds waited; id, old: the oldest
\* future; todo: the futures shutdown has still to cancel.
NoReg == [f |-> NoThread, value |-> Empty, how |-> "", late |-> FALSE, count |-> 0,
          id |-> 0, old |-> NoThread, todo |-> <<>>]

Forks == handler \in {"fork", "simple"}
Go(c, place) == cpc' = [cpc EXCEPT ![c] = place]
Step(c, from, to) == cpc[c] = from /\ Go(c, to)
Leave(c) == Go(c, "idle") /\ reg' = [reg EXCEPT ![c] = NoReg]
Listed == {ids[i].f : i \in 1..Len(ids)}

Init ==
  /\ state = [f \in Futures |-> "created"]
  /\ result = [f \in Futures |-> "not-started"]
  /\ canceller = [f \in Futures |-> "none"]
  /\ box = [f \in Futures |-> Empty]
  /\ tpc = [f \in Futures |-> "none"]
  /\ tval = [f \in Futures |-> Empty]
  /\ taskq = [f \in Futures |-> "none"]
  /\ work = [id \in Ids |-> <<>>]
  /\ ids = <<>>
  /\ estate = "running" /\ handler \in Handlers /\ lock = NoThread
  /\ cpc = [c \in Clients |-> "idle"]
  /\ reg = [c \in Clients |-> NoReg]

(***************************************************************************)
(* The task of a future: simple-invoke and the two task-invokers.          *)
(***************************************************************************)
\* A pooled task runs when it is at the head of its thread's tasks.
Runs(f) == Forks \/ \E id \in Ids : work[id] # <<>> /\ Head(work[id]) = f

\* simple-invoke was given its box; the task-invokers read the field result only now, and
\* find the timeout value there if a future-get has stored it.
TaskStart(f) ==
  /\ tpc[f] = "start" /\ Runs(f)
  /\ taskq' = [taskq EXCEPT ![f] = IF handler = "simple" THEN "box" ELSE result[f]]
  /\ tpc' = [tpc EXCEPT ![f] = "run"]
  /\ UNCHANGED <<futures, tval, work, executor, cpc, reg>>

\* The thunk returns a value or raises an error.
Run(f) ==
  /\ tpc[f] = "run"
  /\ \E v \in Values :
       /\ tval' = [tval EXCEPT ![f] = v]
       /\ tpc' = [tpc EXCEPT ![f] = IF v = "error" THEN "flag" ELSE "clean"]
  /\ UNCHANGED <<futures, taskq, work, executor, cpc, reg>>

\* Mutated: the error is not flagged.
TaskFlagNot(f) ==
  /\ tpc[f] = "flag"
  /\ tpc' = [tpc EXCEPT ![f] = "clean"]
  /\ UNCHANGED <<futures, tval, taskq, work, executor, cpc, reg>>

\* (future-canceller-set! future #t), outside the executor's mutex.
TaskFlag(f) ==
  /\ tpc[f] = "flag"
  /\ canceller' = [canceller EXCEPT ![f] = "flag"]
  /\ tpc' = [tpc EXCEPT ![f] = "clean"]
  /\ UNCHANGED <<state, result, box, tval, taskq, work, executor, cpc, reg>>

\* The list of the executor without future f, from remove!.
Without(f) ==
  LET kept[i \in 0..Len(ids)] ==
        IF i = 0 THEN <<>>
        ELSE IF ids[i].f = f THEN kept[i - 1] ELSE Append(kept[i - 1], ids[i])
  IN  kept[Len(ids)]

\* Mutated: the future keeps its place.
CleanupStays(f, s) ==
  /\ lock = NoThread
  /\ UNCHANGED ids
  /\ state' = [state EXCEPT ![f] = s]

\* cleanup: with-atomic, out of the list and into its new state.
Cleanup(f, s) ==
  /\ lock = NoThread
  /\ ids' = Without(f)
  /\ state' = [state EXCEPT ![f] = s]

\* (cleanup executor future 'finished); a future with its own thread sets the state only.
TaskClean(f) ==
  /\ tpc[f] = "clean"
  /\ tpc' = [tpc EXCEPT ![f] = "put"]
  /\ \/ ~Forks /\ Cleanup(f, "finished")
     \/ Forks /\ state' = [state EXCEPT ![f] = "finished"] /\ UNCHANGED ids
  /\ UNCHANGED <<result, canceller, box, tval, taskq, work, estate, handler, lock, cpc, reg>>

\* Mutated: nobody is woken.
BroadcastNot(f) == f = f /\ UNCHANGED cpc

\* Everybody who waits for the box of f looks again.
Broadcast(f) ==
  cpc' = [c \in Clients |-> IF cpc[c] = "boxwait" /\ reg[c].f = f THEN "box" ELSE cpc[c]]

\* The thread of a task ends, or goes on to its next task if it is pooled.
Over(f) ==
  /\ tpc' = [tpc EXCEPT ![f] = "over"]
  /\ work' = [id \in Ids |-> IF work[id] # <<>> /\ Head(work[id]) = f THEN Tail(work[id]) ELSE work[id]]

\* shared-box-put!
TaskPut(f) ==
  /\ tpc[f] = "put" /\ taskq[f] = "box"
  /\ box' = [box EXCEPT ![f] = tval[f]]
  /\ Broadcast(f)
  /\ Over(f)
  /\ UNCHANGED <<state, result, canceller, tval, taskq, executor, reg>>

\* shared-box-put! of what is no box raises.  The guard takes that for an error of the
\* thunk and puts it, which raises again: the thread ends, or the pool's guard has it.
TaskPutFails(f) ==
  /\ tpc[f] = "put" /\ taskq[f] # "box"
  /\ \/ /\ tval[f] = "value"
        /\ tval' = [tval EXCEPT ![f] = "error"]
        /\ tpc' = [tpc EXCEPT ![f] = "flag"]
        /\ UNCHANGED work
     \/ /\ tval[f] = "error"
        /\ Over(f)
        /\ UNCHANGED tval
  /\ UNCHANGED <<futures, taskq, executor, cpc, reg>>

Task(f) == TaskStart(f) \/ Run(f) \/ TaskFlag(f) \/ TaskClean(f) \/ TaskPut(f) \/ TaskPutFails(f)

\* The tasks of the pooled threads in K end where they are.
Kill(K) ==
  LET dead == UNION {{work[id][i] : i \in 1..Len(work[id])} : id \in K}
  IN  /\ work' = [id \in Ids |-> IF id \in K THEN <<>> ELSE work[id]]
      /\ tpc' = [f \in Futures |-> IF f \in dead THEN "killed" ELSE tpc[f]]

(***************************************************************************)
(* future-get                                                              *)
(***************************************************************************)
\* future-get ends with a value or a raise; the client then goes on.
Answer(c, how, what) ==
  /\ Go(c, "answered")
  /\ reg' = [reg EXCEPT ![c].how = how, ![c].value = what]

Return(c) ==
  /\ cpc[c] \in {"answered", "cancelled"}
  /\ Leave(c)
  /\ UNCHANGED <<futures, tasks, executor>>

\* A simple future is there once its thread is started.
Exists(f) == handler = "simple" => tpc[f] # "none"

\* A terminated future raises at once.
CallGet(c, f) ==
  /\ Exists(f)
  /\ cpc[c] = "idle" \/ (cpc[c] = "cancelled" /\ reg[c].f = f)
  /\ LET r == [NoReg EXCEPT !.f = f, !.late = cpc[c] = "cancelled"]
     IN  \/ /\ state[f] = "terminated"
            /\ Go(c, "answered")
            /\ reg' = [reg EXCEPT ![c] = [r EXCEPT !.how = "raise", !.value = "terminated"]]
         \/ /\ state[f] # "terminated"
            /\ Go(c, "result")
            /\ reg' = [reg EXCEPT ![c] = r]
  /\ UNCHANGED <<futures, tasks, executor>>

\* The result is a box, the procedure not-started, or what an earlier call stored.  State
\* and result are read together: a call that stores a result does so before it sets
\* done, so that a change in between leads to the same result.
GetResult(c) ==
  /\ cpc[c] = "result"
  /\ LET r == result[reg[c].f]
         fresh == state[reg[c].f] # "done"
     IN  \/ fresh /\ r = "box" /\ Go(c, "box") /\ UNCHANGED reg
         \/ fresh /\ r = "not-started" /\ Answer(c, "raise", "not-started")
         \/ ~(fresh /\ r \in {"box", "not-started"}) /\ Go(c, "reread") /\ UNCHANGED reg
  /\ UNCHANGED <<futures, tasks, executor>>

\* shared-box-get!
GetBox(c) ==
  /\ cpc[c] = "box"
  /\ \/ box[reg[c].f] = Empty /\ Go(c, "boxwait") /\ UNCHANGED reg
     \/ /\ box[reg[c].f] # Empty
        /\ Go(c, "store")
        /\ reg' = [reg EXCEPT ![c].value = box[reg[c].f]]
  /\ UNCHANGED <<futures, tasks, executor>>

GetTimeout(c) ==
  /\ handler \in Timed
  /\ Step(c, "boxwait", "store")
  /\ reg' = [reg EXCEPT ![c].value = "timeout"]
  /\ UNCHANGED <<futures, tasks, executor>>

GetStore(c) ==
  /\ Step(c, "store", "reread")
  /\ result' = [result EXCEPT ![reg[c].f] = reg[c].value]
  /\ UNCHANGED <<state, canceller, box, tasks, executor, reg>>

\* The stored result is the argument of finish, which sets done: another call that stores
\* a result stores the same one, or its timeout value.
GetDone(c) ==
  /\ Step(c, "reread", "flag")
  /\ reg' = [reg EXCEPT ![c].value = result[reg[c].f]]
  /\ state' = [state EXCEPT ![reg[c].f] = "done"]
  /\ UNCHANGED <<result, canceller, box, tasks, executor>>

GetFlag(c) ==
  /\ cpc[c] = "flag"
  /\ Answer(c, IF canceller[reg[c].f] = "flag" THEN "raise" ELSE "return", reg[c].value)
  /\ UNCHANGED <<futures, tasks, executor>>

(***************************************************************************)
(* future-cancel                                                           *)
(***************************************************************************)
\* The test for done, by a client or for the next future of shutdown.
CancelTest(c, r) ==
  /\ Go(c, IF state[r.f] = "done" THEN "ccall" ELSE "cset")
  /\ reg' = [reg EXCEPT ![c] = r]

CallCancel(c, f) ==
  /\ Exists(f) /\ cpc[c] = "idle"
  /\ CancelTest(c, [NoReg EXCEPT !.f = f])
  /\ UNCHANGED <<futures, tasks, executor>>

CancelSet(c) ==
  /\ Step(c, "cset", "ccall")
  /\ state' = [state EXCEPT ![reg[c].f] = "terminated"]
  /\ UNCHANGED <<result, canceller, box, tasks, executor, reg>>

\* future-cancel returns; shutdown goes on with the next future.
Cancelled(c) ==
  IF reg[c].todo = <<>> THEN Go(c, "cancelled") /\ reg' = [reg EXCEPT ![c] = [NoReg EXCEPT !.f = reg[c].f]]
  ELSE CancelTest(c, [NoReg EXCEPT !.f = Head(reg[c].todo), !.todo = Tail(reg[c].todo)])

CancelCall(c) ==
  /\ cpc[c] = "ccall"
  /\ \/ /\ canceller[reg[c].f] = "procedure"
        /\ Go(c, "cclean") /\ UNCHANGED <<reg>>
     \/ /\ canceller[reg[c].f] # "procedure"
        /\ Cancelled(c)
  /\ UNCHANGED <<futures, tasks, executor>>

\* (cleanup executor future 'terminated)
CancelClean(c) ==
  /\ Step(c, "cclean", "cclear")
  /\ Cleanup(reg[c].f, "terminated")
  /\ UNCHANGED <<result, canceller, box, tasks, estate, handler, lock, reg>>

CancelClear(c) ==
  /\ cpc[c] = "cclear"
  /\ canceller' = [canceller EXCEPT ![reg[c].f] = "none"]
  /\ Cancelled(c)
  /\ UNCHANGED <<state, result, box, tasks, executor>>

(***************************************************************************)
(* execute-future!, with the reject handlers.                              *)
(***************************************************************************)
Unexecuted(f) == tpc[f] = "none" /\ \A d \in Clients : cpc[d] \in ExecutePlaces => reg[d].f # f

\* The thread of a simple future or of fork-join-executor-execute-future!.
Fork(c, f) ==
  /\ cpc[c] = "idle" /\ Forks /\ Unexecuted(f)
  /\ result' = [result EXCEPT ![f] = "box"]
  /\ tpc' = [tpc EXCEPT ![f] = "start"]
  /\ UNCHANGED <<state, canceller, box, tval, taskq, work, executor, cpc, reg>>

\* The first half of add-future: a new box, and the task to one of the threads.
PushTask(c, f) ==
  /\ Go(c, "added")
  /\ lock' = c
  /\ result' = [result EXCEPT ![f] = "box"]
  /\ tpc' = [tpc EXCEPT ![f] = "start"]
  /\ \E id \in Ids :
       /\ work' = [work EXCEPT ![id] = Append(@, f)]
       /\ reg' = [reg EXCEPT ![c].id = id, ![c].f = f]

\* thread-pool-executor-available?
HasRoom == Len(ids) < N

\* A first call, or the retry of a reject handler.
Execute(c, f) ==
  /\ ~Forks /\ lock = NoThread
  /\ (cpc[c] = "idle" /\ Unexecuted(f)) \/ (cpc[c] = "execute" /\ reg[c].f = f)
  /\ \/ /\ HasRoom /\ estate = "running"
        /\ PushTask(c, f)
        /\ UNCHANGED <<state, canceller, box, tval, taskq, ids, estate, handler>>
     \/ /\ ~(HasRoom /\ estate = "running")
        /\ Go(c, "reject")
        /\ reg' = [reg EXCEPT ![c].f = f]
        /\ UNCHANGED <<futures, tasks, executor>>

\* Mutated: the mutex is given back before the future is listed.
AddedUnlocked(c) ==
  /\ cpc[c] = "added"
  /\ \/ /\ lock = c /\ lock' = NoThread
        /\ UNCHANGED <<canceller, ids, cpc, reg>>
     \/ /\ lock # c /\ UNCHANGED lock
        /\ canceller' = [canceller EXCEPT ![reg[c].f] = "procedure"]
        /\ ids' = Append(ids, [id |-> reg[c].id, f |-> reg[c].f])
        /\ Leave(c)
  /\ UNCHANGED <<state, result, box, tasks, estate, handler>>

\* The second half of add-future, while the task may already be over with its thunk.
Added(c) ==
  /\ cpc[c] = "added"
  /\ canceller' = [canceller EXCEPT ![reg[c].f] = "procedure"]
  /\ ids' = Append(ids, [id |-> reg[c].id, f |-> reg[c].f])
  /\ lock' = NoThread
  /\ Leave(c)
  /\ UNCHANGED <<state, result, box, tasks, estate, handler>>

\* abort-rejected-handler raises, and so does push-future-handler after a shutdown.
Reject(c) ==
  /\ cpc[c] = "reject"
  /\ \/ /\ handler = "abort" \/ (handler = "push" /\ estate # "running")
        /\ Leave(c)
     \/ /\ handler = "push" /\ estate = "running"
        /\ Go(c, "push") /\ UNCHANGED reg
     \/ /\ handler = "terminate"
        /\ Go(c, "oldest") /\ UNCHANGED reg
     \/ /\ handler = "wait"
        /\ Go(c, "wait") /\ UNCHANGED reg
  /\ UNCHANGED <<futures, tasks, executor>>

\* push-future-handler; a pool that was released since has no queues and raises.
PushFuture(c) ==
  /\ cpc[c] = "push" /\ lock = NoThread
  /\ \/ /\ estate = "running"
        /\ PushTask(c, reg[c].f)
        /\ UNCHANGED <<state, canceller, box, tval, taskq, ids, estate, handler>>
     \/ /\ estate # "running"
        /\ result' = [result EXCEPT ![reg[c].f] = "box"]
        /\ Leave(c)
        /\ UNCHANGED <<state, canceller, box, tasks, executor>>

\* wait-finishing-handler: one look, which ignores the mutex and the executor's state.
Wait(c) ==
  /\ cpc[c] = "wait"
  /\ \/ /\ HasRoom
        /\ Go(c, "execute") /\ reg' = [reg EXCEPT ![c].count = 0]
     \/ /\ ~HasRoom /\ reg[c].count = Retries
        /\ Leave(c)
     \/ /\ ~HasRoom /\ reg[c].count < Retries
        /\ reg' = [reg EXCEPT ![c].count = @ + 1] /\ UNCHANGED cpc
  /\ UNCHANGED <<futures, tasks, executor>>

\* terminate-oldest-handler: get-oldest.
Oldest(c) ==
  /\ cpc[c] = "oldest" /\ lock = NoThread
  /\ \/ /\ ids = <<>>
        /\ Go(c, "execute") /\ UNCHANGED <<ids, reg>>
     \/ /\ ids # <<>>
        /\ ids' = Tail(ids)
        /\ reg' = [reg EXCEPT ![c].id = Head(ids).id, ![c].old = Head(ids).f]
        /\ Go(c, "kill")
  /\ UNCHANGED <<futures, tasks, estate, handler, lock>>

\* thread-pool-thread-terminate!, whatever the thread is doing by now; it raises once
\* the pool is released.
KillOldest(c) ==
  /\ cpc[c] = "kill" /\ lock = NoThread
  /\ \/ /\ estate = "running"
        /\ Kill({reg[c].id})
        /\ Go(c, "oldclean") /\ UNCHANGED reg
     \/ /\ estate # "running"
        /\ Leave(c) /\ UNCHANGED <<work, tpc>>
  /\ UNCHANGED <<futures, tval, taskq, executor>>

CleanOldest(c) ==
  /\ Step(c, "oldclean", "execute")
  /\ Cleanup(reg[c].old, "terminated")
  /\ reg' = [reg EXCEPT ![c].old = NoThread, ![c].id = 0]
  /\ UNCHANGED <<result, canceller, box, tasks, estate, handler, lock>>

(***************************************************************************)
(* shutdown-executor!                                                      *)
(***************************************************************************)
\* Mutated: the futures of the executor are not cancelled.
ShutdownForgets(c) ==
  /\ cpc[c] = "idle" /\ estate = "running" /\ lock = NoThread /\ ~Forks
  /\ estate' = "shutdown"
  /\ Kill(Ids)
  /\ ids' = <<>>
  /\ UNCHANGED <<futures, tval, taskq, handler, lock, cpc, reg>>

\* The pool is released and its threads terminated; then the futures are cancelled.
Shutdown(c) ==
  /\ cpc[c] = "idle" /\ estate = "running" /\ lock = NoThread /\ ~Forks
  /\ estate' = "shutdown"
  /\ Kill(Ids)
  /\ ids' = <<>>
  /\ \/ ids = <<>> /\ UNCHANGED <<cpc, reg>>
     \/ /\ ids # <<>>
        /\ CancelTest(c, [NoReg EXCEPT !.f = Head(ids).f,
                                     !.todo = [i \in 1..(Len(ids) - 1) |-> ids[i + 1].f]])
  /\ UNCHANGED <<futures, tval, taskq, handler, lock>>

\* What a client does once it is inside an operation.
Continue(c) ==
  \/ Return(c) \/ GetResult(c) \/ GetBox(c)
  \/ GetStore(c) \/ GetDone(c) \/ GetFlag(c)
  \/ CancelSet(c) \/ CancelCall(c) \/ CancelClean(c) \/ CancelClear(c)
  \/ (\E f \in Futures : cpc[c] = "execute" /\ Execute(c, f)) \/ Added(c) \/ Reject(c) \/ PushFuture(c) \/ Wait(c)
  \/ Oldest(c) \/ KillOldest(c) \/ CleanOldest(c)

Client(c) ==
  \/ Continue(c) \/ GetTimeout(c)
  \/ \E f \in Watched : CallGet(c, f) \/ (c \in Submitters /\ CallCancel(c, f))
  \/ \E f \in Futures : c \in Submitters /\ (Fork(c, f) \/ Execute(c, f))
  \/ c \in Submitters /\ Shutdown(c)

Next == (\E f \in Futures : Task(f)) \/ (\E c \in Clients : Client(c))

Spec == Init /\ [][Next]_vars

\* Threads are scheduled and thunks come to an end.
FairSpec ==
  /\ Spec
  /\ \A f \in Futures : WF_vars(Task(f))
  /\ \A c \in Clients : WF_vars(Continue(c))

(***************************************************************************)
(* Properties.                                                             *)
(***************************************************************************)
\* future-get never makes a result up: however many calls race with the task, with
\* each other and with future-cancel, what they give is what the thunk came to (or the
\* timeout value), and the error of a future with its own thread is raised, not returned.
GetTellsResult ==
  \A c \in Clients : LET a == reg[c] IN cpc[c] = "answered" =>
    \/ a.how = "raise" /\ a.value \in {"terminated", "not-started"}
    \/ handler \in Timed /\ a.value = "timeout"
    \/ /\ a.value = tval[a.f]
       /\ a.how = "raise" => a.value = "error"
       /\ Forks /\ a.value = "error" => a.how = "raise"

\* A future in executor-pool-ids still has its cleanup to do, or was killed: no finished
\* future takes up a place, though its task may be over before the future is listed.
\* Without push-future-handler no more futures than threads are listed.
ListedIsUnfinished ==
  /\ \A f \in Listed : tpc[f] \in {"start", "run", "flag", "clean", "killed"}
  /\ handler # "push" => Len(ids) <= N

\* shutdown-executor! leaves no future behind that is neither finished nor terminated,
\* once the clients inside future-cancel have returned.
ShutdownTerminates ==
  (handler # "terminate" /\ \A c \in Clients : cpc[c] \notin CancelPlaces)
    => \A f \in Futures : tpc[f] = "killed" => state[f] # "created"

\* Nobody terminates futures or threads.
Undisturbed == estate = "running" /\ handler # "terminate"

\* c waits for the box of a task that has found a timeout value in its place.
Stranded(c) == cpc[c] = "boxwait" /\ taskq[reg[c].f] = "timeout"

\* future-get on a future that was executed returns, whoever else calls it, unless a
\* timed future-get has run out before the task began to run.  Simple futures, whose
\* tasks were given their boxes, always return.
GetReturns ==
  []Undisturbed =>
    \A c \in Clients : cpc[c] \in GetPlaces /\ tpc[reg[c].f] # "none"
                         ~> cpc[c] = "answered" \/ (handler # "simple" /\ Stranded(c))

\* A place in the executor is given back, cancelled or not, whatever the task comes to.
PlaceIsFreed == []Undisturbed => \A f \in Futures : f \in Listed ~> f \notin Listed

\* concurrent.scrbl:63-64: a client that has cancelled a future and then calls
\* future-get on it gets a &future-terminated.
CancelledRaises ==
  \A c \in Clients :
    cpc[c] = "answered" /\ reg[c].late => reg[c].how = "raise" /\ reg[c].value = "terminated"
=============================================================================
