------------------------------- MODULE SgThread -------------------------------
(***************************************************************************)
(* The life of a thread: ext/threads/threads.c, and the safe points of the *)
(* virtual machine where a thread notices a request (src/vm.c).  One       *)
(* thread, the target, is started, joined, suspended, resumed and          *)
(* terminated by the other threads.                                        *)
(*                                                                         *)
(* What happens under the target's vmlock between two waits on its         *)
(* condition variable is one step.  The target looks at attentionRequest,  *)
(* stopRequest and, at the end, threadState without the lock: each look is *)
(* a step.                                                                 *)
(***************************************************************************)
EXTENDS FiniteSets, Naturals

CONSTANTS Controllers,  \* the other threads
          NoThread,     \* NULL
          Target,       \* the target as its own canceller
          Ops,          \* the operations the controllers use
          Forced        \* TRUE: the 1ms of wait_for_termination may run out

ASSUME ThreadsAssumption == NoThread \notin Controllers /\ Target \notin Controllers \cup {NoThread}
ASSUME OpsAssumption == Ops \subseteq {"start", "join", "suspend", "resume", "terminate", "end"}
ASSUME ForcedAssumption == Forced \in BOOLEAN

VARIABLES threadState, inspector, canceller,  \* fields of the target's VM
          stopRequest, attentionRequest,
          result, threadErrorP,
          tpc,        \* where the target is
          cancelled,  \* pthread_cancel was sent to the target
          cpc,        \* where each controller is
          answers,    \* history: what thread-join! has given its callers
          returned,   \* the controllers whose thread-terminate! has returned
          ended       \* the controllers that have ended

vm == <<threadState, inspector, canceller, stopRequest, attentionRequest, result, threadErrorP>>
vars == <<vm, tpc, cancelled, cpc, answers, returned, ended>>

\* none: not started; run: executes Scheme code, between safe points; attention:
\* has cleared attentionRequest; request: has seen a stopRequest; stopped: waits in
\* process_queued_requests; woken: the wait has returned; check: about to look at
\* threadState; exit: on its way to thread_cleanup; gone: the native thread is over.
TargetPlaces == {"none", "run", "attention", "request", "stopped", "woken", "check", "exit", "gone"}

\* Sg_NotifyAll(&vm->cond): everybody who waits on it looks again.
Wake(place) ==
  CASE place = "joinwait" -> "join"
    [] place = "timedjoinwait" -> "timedjoin"
    [] place = "suspendwait" -> "suspend"
    [] place = "timedsuspendwait" -> "timedsuspend"
    [] place = "terminatewait" -> "terminate"
    [] OTHER -> place
WokenControllers == [c \in Controllers |-> Wake(cpc[c])]
WokenTarget == IF tpc = "stopped" THEN "woken" ELSE tpc

Init ==
  /\ threadState = "NEW" /\ inspector = NoThread /\ canceller = NoThread
  /\ stopRequest = "none" /\ attentionRequest = FALSE
  /\ result = "undef" /\ threadErrorP = FALSE
  /\ tpc = "none" /\ cancelled = FALSE
  /\ cpc = [c \in Controllers |-> "idle"]
  /\ answers = {}
  /\ returned = {}
  /\ ended = {}

(***************************************************************************)
(* The target.                                                             *)
(***************************************************************************)
\* CHECK_ATTENTION, and attentionRequest = FALSE in process_queued_requests.
SafePoint ==
  /\ tpc = "run" /\ attentionRequest
  /\ attentionRequest' = FALSE
  /\ tpc' = "attention"
  /\ UNCHANGED <<threadState, inspector, canceller, stopRequest, result, threadErrorP,
                 cancelled, cpc, answers, returned, ended>>

\* if (vm->stopRequest)
ReadRequest ==
  /\ tpc = "attention"
  /\ tpc' = IF stopRequest = "none" THEN "run" ELSE "request"
  /\ UNCHANGED <<vm, cancelled, cpc, answers, returned, ended>>

\* The switch on stopRequest, under vmlock.
HandleRequest ==
  /\ tpc = "request"
  /\ \/ /\ stopRequest = "SUSPEND"
        /\ stopRequest' = "none"
        /\ threadState' = "STOPPED"
        /\ cpc' = WokenControllers
        /\ tpc' = "stopped"
     \/ /\ stopRequest = "TERMINATE"
        /\ threadState' = "TERMINATED"
        /\ tpc' = "check"
        /\ UNCHANGED <<stopRequest, cpc>>
     \/ /\ stopRequest = "none"
        /\ tpc' = "check"
        /\ UNCHANGED <<stopRequest, threadState, cpc>>
  /\ UNCHANGED <<inspector, canceller, attentionRequest, result, threadErrorP, cancelled, answers,
                 returned, ended>>

\* A condition variable may wake up for no reason.
SpuriousWakeup ==
  /\ tpc = "stopped"
  /\ tpc' = "woken"
  /\ UNCHANGED <<vm, cancelled, cpc, answers, returned, ended>>

\* Mutant: an if instead of the while.
LookAgainNever ==
  /\ tpc = "woken"
  /\ tpc' = "check"
  /\ UNCHANGED <<vm, cancelled, cpc, answers, returned, ended>>

\* while (vm->threadState == SG_VM_STOPPED), after the wait.
LookAgain ==
  /\ tpc = "woken"
  /\ tpc' = IF threadState = "STOPPED" THEN "stopped" ELSE "check"
  /\ UNCHANGED <<vm, cancelled, cpc, answers, returned, ended>>

\* Mutant: attentionRequest is cleared after the request was handled.
CheckStateClears ==
  /\ tpc = "check"
  /\ tpc' = IF threadState = "TERMINATED" THEN "exit" ELSE "run"
  /\ attentionRequest' = FALSE
  /\ UNCHANGED <<threadState, inspector, canceller, stopRequest, result, threadErrorP,
                 cancelled, cpc, answers, returned, ended>>

\* if (vm->threadState == SG_VM_TERMINATED) Sg_ExitThread(...), without the lock.
CheckState ==
  /\ tpc = "check"
  /\ tpc' = IF threadState = "TERMINATED" THEN "exit" ELSE "run"
  /\ UNCHANGED <<vm, cancelled, cpc, answers, returned, ended>>

\* The thunk returns or raises; thread_entry stores the answers without the lock.
Finish ==
  /\ tpc = "run"
  /\ \/ result' = "value" /\ UNCHANGED threadErrorP
     \/ result' = "uncaught" /\ threadErrorP' = TRUE
  /\ tpc' = "exit"
  /\ UNCHANGED <<threadState, inspector, canceller, stopRequest, attentionRequest, cancelled, cpc,
                 answers, returned, ended>>

\* thread-terminate! of the current thread.
TerminateSelf ==
  /\ tpc = "run"
  /\ canceller' = IF canceller = NoThread THEN Target ELSE canceller
  /\ tpc' = "exit"
  /\ UNCHANGED <<threadState, inspector, stopRequest, attentionRequest, result, threadErrorP,
                 cancelled, cpc, answers, returned, ended>>

\* pthread_cancel takes effect in a blocking call or in a wait.
CancellationPoint ==
  /\ cancelled /\ tpc \in {"run", "stopped"}
  /\ tpc' = "exit"
  /\ UNCHANGED <<vm, cancelled, cpc, answers, returned, ended>>

\* Mutant: the canceller is forgotten.
CleanupInnerNoException == threadState' = "TERMINATED" /\ UNCHANGED <<result, threadErrorP>>

\* thread_cleanup_inner, apart from the notification.
CleanupInner ==
  /\ threadState' = "TERMINATED"
  /\ result' = IF canceller # NoThread THEN "terminated" ELSE result
  /\ threadErrorP' = (threadErrorP \/ canceller # NoThread)

\* Mutant: nobody is told.
CleanupSilent ==
  /\ tpc = "exit"
  /\ CleanupInner
  /\ tpc' = "gone"
  /\ UNCHANGED <<inspector, canceller, stopRequest, attentionRequest, cancelled, cpc, answers,
                 returned, ended>>

\* thread_cleanup, the cleanup handler of thread_entry.
Cleanup ==
  /\ tpc = "exit"
  /\ CleanupInner
  /\ cpc' = WokenControllers
  /\ tpc' = "gone"
  /\ UNCHANGED <<inspector, canceller, stopRequest, attentionRequest, cancelled, answers, returned, ended>>

TargetNext ==
  \/ SafePoint \/ ReadRequest \/ HandleRequest \/ SpuriousWakeup \/ LookAgain
  \/ CheckState \/ Finish \/ TerminateSelf \/ CancellationPoint \/ Cleanup

(***************************************************************************)
(* The controllers.                                                        *)
(***************************************************************************)
May(c, op) == op \in Ops /\ cpc[c] = "idle" /\ c \notin ended
InspectedByOther(c) == inspector \notin {NoThread, c} /\ inspector \notin ended
Go(c, place) == cpc' = [cpc EXCEPT ![c] = place]

\* Sg_ThreadStart; any other state is an error that changes nothing.
Start(c) ==
  /\ May(c, "start") /\ threadState = "NEW"
  /\ threadState' = "RUNNABLE"
  /\ tpc' = "run"
  /\ UNCHANGED <<inspector, canceller, stopRequest, attentionRequest, result, threadErrorP,
                 cancelled, cpc, answers, returned, ended>>

\* Sg_ThreadJoin, with or without a timeout.
CallJoin(c) ==
  /\ May(c, "join")
  /\ \E place \in {"join", "timedjoin"} : Go(c, place)
  /\ UNCHANGED <<vm, tpc, cancelled, answers, returned, ended>>

\* The end of Sg_ThreadJoin: an error is handed out once.
TakeResult ==
  /\ answers' = answers \cup {<<IF threadErrorP THEN "raise" ELSE "return", result>>}
  /\ result' = IF threadErrorP THEN "undef" ELSE result
  /\ threadErrorP' = FALSE

\* The loop of Sg_ThreadJoin.
JoinLook(c) ==
  /\ cpc[c] \in {"join", "timedjoin"}
  /\ \/ /\ threadState = "TERMINATED"
        /\ TakeResult
        /\ Go(c, "idle")
     \/ /\ threadState # "TERMINATED"
        /\ Go(c, IF cpc[c] = "join" THEN "joinwait" ELSE "timedjoinwait")
        /\ UNCHANGED <<result, threadErrorP, answers>>
  /\ UNCHANGED <<threadState, inspector, canceller, stopRequest, attentionRequest, tpc, cancelled,
                 returned, ended>>

JoinTimeout(c) ==
  /\ cpc[c] = "timedjoinwait"
  /\ Go(c, "idle")
  /\ UNCHANGED <<vm, tpc, cancelled, answers, returned, ended>>

\* Sg_ThreadSuspend up to its wait; the two error cases change nothing.
Suspend(c) ==
  /\ May(c, "suspend")
  /\ threadState \in {"RUNNABLE", "STOPPED"} /\ ~InspectedByOther(c)
  /\ inspector' = c
  /\ stopRequest' = IF inspector = c THEN stopRequest ELSE "SUSPEND"
  /\ attentionRequest' = (attentionRequest \/ inspector # c)
  /\ \E place \in {"suspendwait", "timedsuspendwait"} :
       Go(c, IF threadState = "STOPPED" THEN "idle" ELSE place)
  /\ UNCHANGED <<threadState, canceller, result, threadErrorP, tpc, cancelled, answers, returned,
                 ended>>

\* A timed wait that is woken returns whatever the state is.
SuspendLook(c) ==
  /\ cpc[c] \in {"suspend", "timedsuspend"}
  /\ Go(c, IF cpc[c] = "suspend" /\ threadState # "STOPPED" THEN "suspendwait" ELSE "idle")
  /\ UNCHANGED <<vm, tpc, cancelled, answers, returned, ended>>

SuspendTimeout(c) ==
  /\ cpc[c] = "timedsuspendwait"
  /\ Go(c, "idle")
  /\ UNCHANGED <<vm, tpc, cancelled, answers, returned, ended>>

\* Mutant: a request that was not noticed yet stays.
ResumeKeepsRequest(c) ==
  /\ May(c, "resume")
  /\ inspector # NoThread /\ ~InspectedByOther(c)
  /\ inspector' = NoThread
  /\ threadState' = "RUNNABLE"
  /\ tpc' = WokenTarget
  /\ cpc' = WokenControllers
  /\ UNCHANGED <<canceller, stopRequest, attentionRequest, result, threadErrorP, cancelled, answers,
                 returned, ended>>

\* Sg_ThreadResume; the two error cases change nothing.
Resume(c) ==
  /\ May(c, "resume")
  /\ inspector # NoThread /\ ~InspectedByOther(c)
  /\ inspector' = NoThread
  /\ threadState' = "RUNNABLE"
  /\ stopRequest' = "none"
  /\ tpc' = WokenTarget
  /\ cpc' = WokenControllers
  /\ UNCHANGED <<canceller, attentionRequest, result, threadErrorP, cancelled, answers, returned,
                 ended>>

\* Mutant: the target's attention is not asked for.
TerminateUnnoticed(c) ==
  /\ May(c, "terminate") /\ threadState = "RUNNABLE" /\ canceller = NoThread
  /\ canceller' = c
  /\ stopRequest' = "TERMINATE"
  /\ Go(c, "terminatewait")
  /\ UNCHANGED <<threadState, inspector, attentionRequest, result, threadErrorP, tpc, cancelled,
                 answers, returned, ended>>

\* Sg_ThreadTerminate of another thread: the first to ask becomes the canceller
\* and waits; everybody else only sets the state.
Terminate(c) ==
  /\ May(c, "terminate")
  /\ \/ /\ threadState \in {"RUNNABLE", "STOPPED"} /\ canceller = NoThread
        /\ canceller' = c
        /\ stopRequest' = "TERMINATE"
        /\ attentionRequest' = TRUE
        /\ Go(c, "terminatewait")
        /\ UNCHANGED <<threadState, returned>>
     \/ /\ threadState \notin {"RUNNABLE", "STOPPED"} \/ canceller # NoThread
        /\ threadState' = "TERMINATED"
        /\ returned' = returned \cup {c}
        /\ UNCHANGED <<canceller, stopRequest, attentionRequest, cpc>>
  /\ UNCHANGED <<inspector, result, threadErrorP, tpc, cancelled, answers, ended>>

\* wait_for_termination is woken before its time is over.
TerminateLook(c) ==
  /\ cpc[c] = "terminate"
  /\ \/ threadState = "TERMINATED" /\ Go(c, "idle") /\ returned' = returned \cup {c}
     \/ threadState # "TERMINATED" /\ Go(c, "terminatewait") /\ UNCHANGED returned
  /\ UNCHANGED <<vm, tpc, cancelled, answers, ended>>

\* The time is over: the canceller runs the target's cleanup and cancels it.
TerminateTimeout(c) ==
  /\ Forced /\ cpc[c] = "terminatewait"
  /\ CleanupInner
  /\ cpc' = [WokenControllers EXCEPT ![c] = "idle"]
  /\ tpc' = WokenTarget
  /\ cancelled' = TRUE
  /\ returned' = returned \cup {c}
  /\ UNCHANGED <<inspector, canceller, stopRequest, attentionRequest, answers, ended>>

\* A controller ends; a thread it had under inspection is free for the others.
End(c) ==
  /\ May(c, "end")
  /\ ended' = ended \cup {c}
  /\ UNCHANGED <<vm, tpc, cancelled, cpc, answers, returned>>

ControllerNext(c) ==
  \/ Start(c) \/ CallJoin(c) \/ JoinLook(c) \/ JoinTimeout(c) \/ Suspend(c) \/ SuspendLook(c)
  \/ SuspendTimeout(c) \/ Resume(c) \/ Terminate(c) \/ TerminateLook(c) \/ TerminateTimeout(c)
  \/ End(c)

Next == TargetNext \/ \E c \in Controllers : ControllerNext(c)

Spec == Init /\ [][Next]_vars

\* The operating system schedules a thread that can go on: the target reaches its
\* next safe point and leaves process_queued_requests, a woken thread gets the lock,
\* a timed wait ends, pthread_cancel ends a wait.  Nothing says that the thunk ever returns or that a controller
\* makes a call.
Fairness ==
  /\ WF_vars(SafePoint) /\ WF_vars(ReadRequest) /\ WF_vars(HandleRequest) /\ WF_vars(LookAgain)
  /\ WF_vars(CheckState) /\ WF_vars(Cleanup) /\ SF_vars(tpc = "stopped" /\ CancellationPoint)
  /\ \A c \in Controllers :
       /\ WF_vars(JoinLook(c)) /\ WF_vars(SuspendLook(c)) /\ WF_vars(TerminateLook(c))
       /\ WF_vars(JoinTimeout(c)) /\ WF_vars(SuspendTimeout(c)) /\ WF_vars(TerminateTimeout(c))

FairSpec == Spec /\ Fairness

(***************************************************************************)
(* Properties.                                                             *)
(***************************************************************************)
\* process_queued_requests reads stopRequest after it has cleared attentionRequest:
\* a request the target has not read yet will always be noticed at a safe point.
RequestIsNoticed == tpc = "run" /\ stopRequest # "none" => attentionRequest

\* While threadState is STOPPED the target executes no Scheme code, whoever
\* resumes, terminates or cancels it in whatever order.
StoppedIsStill == threadState = "STOPPED" => tpc \notin {"none", "run", "attention", "request"}

\* An inspector is never left over on a target that still waits in
\* process_queued_requests without it: a stopped thread can be resumed.
StoppedHasInspector == threadState = "STOPPED" => inspector # NoThread

\* No thread has used thread-terminate! on the target.
NotTerminated == canceller \notin Controllers /\ returned = {}

\* A joiner of a thread that ends by itself goes on only when the thread executes no
\* more code, and is told how it ended: the value it returned, the exception it did not
\* catch or its own termination; later joiners get nothing only after the exception was
\* raised once.
JoinTellsTheEnd ==
  NotTerminated =>
    \A a \in answers :
      /\ tpc \in {"exit", "gone"}
      /\ \/ a \in {<<"return", "value">>, <<"raise", "uncaught">>, <<"raise", "terminated">>}
         \/ a = <<"return", "undef">> /\ \E e \in answers : e[1] = "raise"

\* thread-join! returns once the native thread is over, unless somebody suspends it.
JoinReturns ==
  [](inspector = NoThread) =>
    \A c \in Controllers :
      (cpc[c] \in {"join", "joinwait"} /\ tpc = "gone") ~> cpc[c] \notin {"join", "joinwait"}

\* A thread somebody asked to terminate does terminate, blocked or running, unless
\* somebody suspends it.
TerminationHappens == [](inspector = NoThread) => ((canceller # NoThread) ~> (tpc = "gone"))

\* threads.scrbl:60-61: the termination of the thread occurs before
\* thread-terminate! returns.
TerminatedBeforeReturn == returned # {} ~> tpc \in {"none", "gone"}
=============================================================================
