------------------------------ MODULE ThreadPool ------------------------------
(***************************************************************************)
(* The thread pool of sitelib/util/concurrent/thread-pool.scm.  Every      *)
(* pooled thread has a shared queue of tasks; the shared queue `idlings'   *)
(* holds the ids of the threads that wait for one.  Clients push tasks,    *)
(* wait for all of them, replace a thread and release the pool.            *)
(*                                                                         *)
(* The shared queues are used through the steps of AbstractQueue: a put, a *)
(* get, a clear, a removal and a look at the size are one step each.       *)
(* Nothing else is locked, so each of them is a step of its own here.      *)
(***************************************************************************)
EXTENDS Integers, Sequences, FiniteSets

CONSTANTS N,                \* thread-count
          Clients,          \* the threads that use the pool
          Managers,         \* the clients that wait, replace threads and release the pool
          MaxTasks,         \* bound: how many tasks are pushed and threads replaced
          MaxTerminations,  \* bound: how many pooled threads are replaced
          NoQueue

\* A restriction on the users, which the pool itself does not enforce: no two threads
\* manage it at once.  The thread pool executor terminates and releases under its mutex.
\* Without it, two terminations of one id may unlist the id of an idling thread.
ASSUME ManagersAssumption == Managers \subseteq Clients /\ \A c, d \in Managers : c = d
ASSUME SizeAssumption == N \in Nat \ {0}
ASSUME BoundsAssumption == MaxTasks \in Nat /\ MaxTerminations \in Nat
ASSUME NoQueueAssumption == NoQueue \notin Int

Ids == 0..(N - 1)
Pooled == 1..(N + MaxTerminations)   \* pooled threads
Tasks == 1..MaxTasks
Stop == 0                            \* the #f that ends a pooled thread

VARIABLES threads, queues,  \* the two vectors of the record: id -> pooled thread
          idlings,          \* the ids of the idling threads
          content,          \* the tasks in the queue made with each pooled thread
          wpc, running,     \* where each pooled thread is, and its task
          cpc, reg,         \* where each client is, and its variables
          given,            \* history: how many tasks were put into a queue
          finished, discarded,  \* the tasks that were run; that were thrown away
          awaited           \* history: the value of given when a wait or a release began

workers == <<content, wpc, running>>
history == <<given, finished, discarded, awaited>>
vars == <<threads, queues, idlings, workers, cpc, reg, history>>

ClientPlaces == {"idle", "get", "find", "read", "put", "waitqueue", "waitthreads", "waited",
                 "stop", "join", "kill", "released", "clear", "terminate", "remove", "start"}
WorkerPlaces == {"none", "list", "get", "run", "check", "done", "killed"}

\* i: a loop's index or an id; where, size: the best of find-available; queue: the
\* queue a task goes to, or the new one of a replaced thread; thread, old: the thread
\* to terminate and its queue; seen: the queues of a wait.
NoReg == [i |-> 0, where |-> -1, size |-> MaxTasks + 2, queue |-> 0, thread |-> 0, old |-> 0,
          seen |-> [w \in Ids |-> NoQueue]]

Elements(s) == {s[i] : i \in 1..Len(s)}
TasksIn(k) == Elements(content[k]) \ {Stop}
Go(c, place) == cpc' = [cpc EXCEPT ![c] = place]
Set(c, r) == reg' = [reg EXCEPT ![c] = r]
Work(k, place) == wpc' = [wpc EXCEPT ![k] = place]

\* make-thread-pool returns when every thread is in idlings.
Init ==
  /\ threads = [w \in Ids |-> w + 1]
  /\ queues = threads
  /\ idlings \in {s \in [1..N -> Ids] : Elements(s) = Ids}
  /\ content = [k \in Pooled |-> <<>>]
  /\ wpc = [k \in Pooled |-> IF k <= N THEN "get" ELSE "none"]
  /\ running = [k \in Pooled |-> 0]
  /\ cpc = [c \in Clients |-> "idle"]
  /\ reg = [c \in Clients |-> NoReg]
  /\ given = 0 /\ finished = {} /\ discarded = {}
  /\ awaited = [c \in Clients |-> 0]

(***************************************************************************)
(* A pooled thread: the loop of make-executor.                             *)
(***************************************************************************)
\* (shared-queue-put! idlings i)
List(k, w) ==
  /\ wpc[k] = "list" /\ threads[w] = k
  /\ idlings' = Append(idlings, w)
  /\ Work(k, "get")
  /\ UNCHANGED <<threads, queues, content, running, cpc, reg, history>>

\* (shared-queue-get! queue): a task, or #f.
Get(k) ==
  /\ wpc[k] = "get" /\ content[k] # <<>>
  /\ content' = [content EXCEPT ![k] = Tail(@)]
  /\ \/ Head(content[k]) = Stop /\ Work(k, "done") /\ UNCHANGED running
     \/ /\ Head(content[k]) # Stop
        /\ Work(k, "run")
        /\ running' = [running EXCEPT ![k] = Head(content[k])]
  /\ UNCHANGED <<threads, queues, idlings, cpc, reg, history>>

\* The task returns, or raises and the error handler is called.
Run(k) ==
  /\ wpc[k] = "run"
  /\ finished' = finished \cup {running[k]}
  /\ running' = [running EXCEPT ![k] = 0]
  /\ Work(k, "check")
  /\ UNCHANGED <<threads, queues, idlings, content, cpc, reg, given, discarded, awaited>>

\* Mutated: back to the queue without a visit to idlings.
CheckUnlisted(k) ==
  /\ wpc[k] = "check"
  /\ Work(k, "get")
  /\ UNCHANGED <<threads, queues, idlings, content, running, cpc, reg, history>>

\* Mutated: the thread ends when its queue is empty.
CheckEnds(k) ==
  /\ wpc[k] = "check"
  /\ Work(k, IF content[k] = <<>> THEN "done" ELSE "get")
  /\ UNCHANGED <<threads, queues, idlings, content, running, cpc, reg, history>>

\* (if (shared-queue-empty? queue) (loop) (loop2 ...))
Check(k) ==
  /\ wpc[k] = "check"
  /\ Work(k, IF content[k] = <<>> THEN "list" ELSE "get")
  /\ UNCHANGED <<threads, queues, idlings, content, running, cpc, reg, history>>

Worker(k) == (\E w \in Ids : List(k, w)) \/ Get(k) \/ Run(k) \/ Check(k)

(***************************************************************************)
(* thread-pool-push-task!                                                  *)
(***************************************************************************)
\* Pooled threads made so far, the ones about to start included.
Created ==
  {k \in Pooled : wpc[k] # "none"} \cup ({queues[w] : w \in Ids} \ {NoQueue})
    \cup {reg[c].queue : c \in {d \in Clients : cpc[d] \in {"clear", "terminate", "remove", "start"}}}
InPush == {"get", "find", "read", "put"}
Pushing == {c \in Clients : cpc[c] \in InPush}
Effort == given + Cardinality(Pushing) + Cardinality(Created) - N

\* thread-pool-idling?, and the choice between an idling thread and the search.
Push(c) ==
  /\ cpc[c] = "idle"
  /\ Effort < MaxTasks
  /\ Go(c, IF idlings # <<>> THEN "get" ELSE "find")
  /\ UNCHANGED <<threads, queues, idlings, workers, reg, history>>

\* (shared-queue-get! (<thread-pool>-idlings tp)), which waits if the id is gone.
PushGet(c) ==
  /\ cpc[c] = "get" /\ idlings # <<>>
  /\ idlings' = Tail(idlings)
  /\ Set(c, [NoReg EXCEPT !.where = Head(idlings)])
  /\ Go(c, "read")
  /\ UNCHANGED <<threads, queues, workers, history>>

\* One round of find-available with the default handler; the size of a released
\* queue is an error.
PushFind(c) ==
  /\ cpc[c] = "find"
  /\ LET r == reg[c]
     IN  \/ /\ r.i = N
            /\ Go(c, "read")
            /\ Set(c, [r EXCEPT !.where = IF @ < 0 THEN 0 ELSE @])
         \/ /\ r.i < N /\ queues[r.i] = NoQueue
            /\ Go(c, "idle") /\ Set(c, NoReg)
         \/ /\ r.i < N /\ queues[r.i] # NoQueue
            /\ LET s == Len(content[queues[r.i]])
               IN  Set(c, IF s < r.size THEN [r EXCEPT !.i = @ + 1, !.where = r.i, !.size = s]
                                        ELSE [r EXCEPT !.i = @ + 1])
            /\ UNCHANGED cpc
  /\ UNCHANGED <<threads, queues, idlings, workers, history>>

\* (vector-ref (<thread-pool>-queues tp) where); #f is an error in the put.
PushRead(c) ==
  /\ cpc[c] = "read"
  /\ LET q == queues[reg[c].where]
     IN  \/ q = NoQueue /\ Go(c, "idle") /\ Set(c, NoReg)
         \/ q # NoQueue /\ Go(c, "put") /\ Set(c, [NoReg EXCEPT !.queue = q, !.where = reg[c].where])
  /\ UNCHANGED <<threads, queues, idlings, workers, history>>

PushPut(c) ==
  /\ cpc[c] = "put"
  /\ given' = given + 1
  /\ content' = [content EXCEPT ![reg[c].queue] = Append(@, given + 1)]
  /\ Go(c, "idle") /\ Set(c, NoReg)
  /\ UNCHANGED <<threads, queues, idlings, wpc, running, finished, discarded, awaited>>

(***************************************************************************)
(* thread-pool-wait-all!: first until the queues are empty, then until     *)
(* idlings has as many ids as there are threads.                           *)
(***************************************************************************)
\* (vector->list (<thread-pool>-queues tp)), before anything is looked at.
WaitAll(c) ==
  /\ c \in Managers /\ cpc[c] = "idle" /\ \A w \in Ids : queues[w] # NoQueue
  /\ Set(c, [NoReg EXCEPT !.seen = queues])
  /\ awaited' = [awaited EXCEPT ![c] = given]
  /\ Go(c, "waitqueue")
  /\ UNCHANGED <<threads, queues, idlings, workers, given, finished, discarded>>

\* One look of (for-all shared-queue-empty? queus); from the start after a sleep.
WaitQueue(c) ==
  /\ cpc[c] = "waitqueue"
  /\ LET r == reg[c]
     IN  \/ r.i = N /\ Go(c, "waitthreads") /\ Set(c, NoReg)
         \/ /\ r.i < N
            /\ Set(c, [r EXCEPT !.i = IF content[r.seen[r.i]] = <<>> THEN @ + 1 ELSE 0])
            /\ UNCHANGED cpc
  /\ UNCHANGED <<threads, queues, idlings, workers, history>>

\* Mutated: one idling thread is enough.
WaitThreadsOne(c) ==
  /\ cpc[c] = "waitthreads" /\ idlings # <<>>
  /\ Go(c, "waited")
  /\ UNCHANGED <<threads, queues, idlings, workers, reg, history>>

WaitThreads(c) ==
  /\ cpc[c] = "waitthreads" /\ Len(idlings) = N
  /\ Go(c, "waited")
  /\ UNCHANGED <<threads, queues, idlings, workers, reg, history>>

\* The caller goes on.
Waited(c) ==
  /\ cpc[c] = "waited"
  /\ awaited' = [awaited EXCEPT ![c] = 0]
  /\ Go(c, "idle")
  /\ UNCHANGED <<threads, queues, idlings, workers, reg, given, finished, discarded>>

(***************************************************************************)
(* thread-pool-release!: #f into every queue, then join (or terminate)     *)
(* every thread.                                                           *)
(***************************************************************************)
Release(c) ==
  /\ c \in Managers /\ cpc[c] = "idle"
  /\ \A d \in Clients : cpc[d] \notin {"stop", "join", "kill", "released"}
  /\ awaited' = [awaited EXCEPT ![c] = given]
  /\ Go(c, "stop")
  /\ UNCHANGED <<threads, queues, idlings, workers, reg, given, finished, discarded>>

\* Mutated: the #f overtakes the tasks.
ReleaseStopFirst(c) ==
  /\ cpc[c] = "stop"
  /\ LET w == reg[c].i
     IN  \/ w = N /\ Go(c, "join") /\ Set(c, NoReg) /\ UNCHANGED <<queues, content>>
         \/ /\ w < N
            /\ content' = [content EXCEPT ![queues[w]] = <<Stop>> \o @]
            /\ queues' = [queues EXCEPT ![w] = NoQueue]
            /\ Set(c, [reg[c] EXCEPT !.i = @ + 1])
            /\ UNCHANGED cpc
  /\ UNCHANGED <<threads, idlings, wpc, running, history>>

\* The first half of thread-pool-release!.
ReleaseStop(c) ==
  /\ cpc[c] = "stop"
  /\ LET w == reg[c].i
     IN  \/ /\ w = N
            /\ \E how \in {"join", "kill"} : Go(c, how)
            /\ Set(c, NoReg)
            /\ UNCHANGED <<queues, content>>
         \/ /\ w < N
            /\ content' = [content EXCEPT ![queues[w]] = Append(@, Stop)]
            /\ queues' = [queues EXCEPT ![w] = NoQueue]
            /\ Set(c, [reg[c] EXCEPT !.i = @ + 1])
            /\ UNCHANGED cpc
  /\ UNCHANGED <<threads, idlings, wpc, running, history>>

\* thread-terminate! of pooled thread k: its task and its queue are thrown away.
Kill(k) ==
  /\ wpc' = [wpc EXCEPT ![k] = IF @ = "done" THEN @ ELSE "killed"]
  /\ running' = [running EXCEPT ![k] = 0]
  /\ discarded' = discarded \cup TasksIn(k) \cup ({running[k]} \ {0})

ReleaseEach(c) ==
  /\ cpc[c] \in {"join", "kill"}
  /\ LET w == reg[c].i
     IN  \/ /\ w = N
            /\ Go(c, "released")
            /\ UNCHANGED <<reg, wpc, running, discarded>>
         \/ /\ w < N /\ cpc[c] = "join" /\ wpc[threads[w]] \in {"done", "killed"}
            /\ Set(c, [reg[c] EXCEPT !.i = @ + 1])
            /\ UNCHANGED <<cpc, wpc, running, discarded>>
         \/ /\ w < N /\ cpc[c] = "kill"
            /\ Kill(threads[w])
            /\ Set(c, [reg[c] EXCEPT !.i = @ + 1])
            /\ UNCHANGED cpc
  /\ UNCHANGED <<threads, queues, idlings, content, given, finished, awaited>>

(***************************************************************************)
(* thread-pool-thread-terminate!                                           *)
(***************************************************************************)
\* The new queue takes the place of the old one; a thread and its queue have one name.
Terminate(c, w) ==
  /\ c \in Managers /\ cpc[c] = "idle" /\ queues[w] # NoQueue
  /\ Effort < MaxTasks
  /\ \E new \in Pooled \ Created :
       /\ queues' = [queues EXCEPT ![w] = new]
       /\ Set(c, [NoReg EXCEPT !.i = w, !.queue = new, !.thread = threads[w], !.old = queues[w]])
  /\ Go(c, "clear")
  /\ UNCHANGED <<threads, idlings, workers, history>>

\* (shared-queue-clear! q)
TerminateClear(c) ==
  /\ cpc[c] = "clear"
  /\ LET k == reg[c].old
     IN  /\ content' = [content EXCEPT ![k] = <<>>]
         /\ discarded' = discarded \cup TasksIn(k)
  /\ Go(c, "terminate")
  /\ UNCHANGED <<threads, queues, idlings, wpc, running, reg, given, finished, awaited>>

\* With both queues locked the thread is not inside an operation on them.
TerminateThread(c) ==
  /\ cpc[c] = "terminate"
  /\ Kill(reg[c].thread)
  /\ Go(c, "remove")
  /\ UNCHANGED <<threads, queues, idlings, content, reg, given, finished, awaited>>

\* (shared-queue-remove! idlings id): the first occurrence.
TerminateRemove(c) ==
  /\ cpc[c] = "remove"
  /\ \/ reg[c].i \notin Elements(idlings) /\ UNCHANGED idlings
     \/ \E first \in 1..Len(idlings) :
          /\ idlings[first] = reg[c].i /\ \A i \in 1..(first - 1) : idlings[i] # reg[c].i
          /\ idlings' = [i \in 1..(Len(idlings) - 1) |-> idlings[IF i < first THEN i ELSE i + 1]]
  /\ Go(c, "start")
  /\ UNCHANGED <<threads, queues, workers, reg, history>>

TerminateStart(c) ==
  /\ cpc[c] = "start"
  /\ threads' = [threads EXCEPT ![reg[c].i] = reg[c].queue]
  /\ Work(reg[c].queue, "list")
  /\ Go(c, "idle") /\ Set(c, NoReg)
  /\ UNCHANGED <<queues, idlings, content, running, history>>

\* What a client does once it is inside an operation.
Continue(c) ==
  \/ PushGet(c) \/ PushFind(c) \/ PushRead(c) \/ PushPut(c)
  \/ WaitQueue(c) \/ WaitThreads(c) \/ Waited(c)
  \/ ReleaseStop(c) \/ ReleaseEach(c)
  \/ TerminateClear(c) \/ TerminateThread(c) \/ TerminateRemove(c) \/ TerminateStart(c)

Client(c) == Continue(c) \/ Push(c) \/ WaitAll(c) \/ Release(c) \/ (\E w \in Ids : Terminate(c, w))

Next == (\E k \in Pooled : Worker(k)) \/ (\E c \in Clients : Client(c))

Spec == Init /\ [][Next]_vars

\* Threads are scheduled, and every task comes to an end.
FairSpec ==
  /\ Spec
  /\ \A k \in Pooled : WF_vars(Worker(k))
  /\ \A c \in Clients : WF_vars(Continue(c))

(***************************************************************************)
(* Properties.                                                             *)
(***************************************************************************)
\* An idling thread is never forgotten: a pooled thread that waits on an empty queue
\* is in idlings, or a client has taken its id to give it a task.
IdleThreadIsListed ==
  \A w \in Ids :
    threads[w] = queues[w] /\ wpc[threads[w]] = "get" /\ content[threads[w]] = <<>>
      => w \in Elements(idlings) \/ \E c \in Clients : cpc[c] \in {"read", "put"} /\ reg[c].where = w

\* No pooled thread is or was terminated: the first N are the only ones.
NoneTerminated == \A k \in Pooled : wpc[k] # "killed" /\ (k \in Created => k <= N)

\* thread-pool-release! runs what was pushed before it: when the threads are joined
\* these tasks are finished.
ReleaseRunsTasks ==
  NoneTerminated => \A c \in Clients : cpc[c] = "released" => 1..awaited[c] \subseteq finished

NobodyReleases == \A c \in Clients : cpc[c] \notin {"stop", "join", "kill", "released"}

\* A task given to a pool whose threads are left alone is finished in the end.
TaskIsRun ==
  [](NoneTerminated /\ NobodyReleases) => \A t \in Tasks : t <= given ~> t \in finished

\* thread-pool-push-task! returns, though it may wait for an id that another client
\* has taken since it looked.
PushReturns == []NobodyReleases => \A c \in Clients : cpc[c] \in InPush ~> cpc[c] \notin InPush

\* concurrent.scrbl:421: thread-pool-wait-all! waits for all the tasks pushed.
WaitAllWaits ==
  \A c \in Clients : cpc[c] = "waited" => 1..awaited[c] \subseteq finished \cup discarded

\* It does so as long as every task found an idling thread and no thread is replaced:
\* then an id in idlings is the id of a thread without work, and counting is enough.
WaitAllWaitsWhileIdling ==
  [](NoneTerminated /\ \A c \in Clients : cpc[c] # "find") => []WaitAllWaits
=============================================================================
