------------------------------- MODULE SgMutex -------------------------------
(***************************************************************************)
(* The SRFI-18 mutex and condition variable of ext/threads/mutex.c.  A     *)
(* Scheme mutex is a flag `locked' and a field `owner', both guarded by an *)
(* internal pthread mutex whose condition variable holds the threads that  *)
(* wait for the flag.  Everything between two waits on that condition      *)
(* variable runs under the internal mutex and is one step here.            *)
(*                                                                         *)
(* A thread enters an operation from a VM safe point, so entering it and   *)
(* executing it are two steps: a thread preempted in between is inside the *)
(* operation while other threads run.                                      *)
(***************************************************************************)
EXTENDS FiniteSets, Naturals

CONSTANTS Threads,   \* the VMs that share the mutex
          CVs,       \* the condition variables they wait on
          NoOwner,  \* NULL in the field `owner'
          NoCV       \* mutex-unlock! without a condition variable

ASSUME OwnerAssumption == NoOwner \notin Threads
ASSUME CVsAssumption == NoCV \notin CVs

VARIABLES locked,      \* SgMutex.locked
          owner,       \* SgMutex.owner
          pc,          \* where each thread is
          arg,         \* the arguments of the operation each thread is in
          holds,       \* history: how mutex-lock! last gave each thread the mutex
          terminated,  \* the threads whose threadState is SG_VM_TERMINATED
          forced       \* the 1ms of wait_for_termination may run out in this
                       \* execution: a thread can be marked TERMINATED inside an
                       \* operation

mutexVars == <<locked, owner, pc, arg, holds, terminated, forced>>

\* idle: outside the operations; lock, unlock: inside Sg_MutexLock or
\* Sg_MutexUnlock, about to run under the internal mutex; lockwait: blocked on
\* mutex->cv; cvwait: blocked on cv->cv; gone: the native thread has exited.
Places == {"idle", "lock", "lockwait", "unlock", "cvwait", "gone"}
Args == [timed: BOOLEAN, owner: Threads \cup {NoOwner}, cv: CVs \cup {NoCV}]
NoArgs == [timed |-> FALSE, owner |-> NoOwner, cv |-> NoCV]

\* Mutated: without the look at the owner's state.
OwnerNotNull == owner # NoOwner

\* mutex->owner && mutex->owner->threadState == SG_VM_TERMINATED
OwnerTerminated == owner \in terminated

Waiting == {t \in Threads : pc[t] = "lockwait"}
CvWaiting(c) == {t \in Threads : pc[t] = "cvwait" /\ arg[t].cv = c}

MutexInit ==
  /\ locked = FALSE
  /\ owner = NoOwner
  /\ pc = [t \in Threads |-> "idle"]
  /\ arg = [t \in Threads |-> NoArgs]
  /\ holds = [t \in Threads |-> "no"]
  /\ terminated = {}
  /\ forced \in BOOLEAN

(***************************************************************************)
(* mutex-lock!                                                             *)
(***************************************************************************)
\* mutex-lock! m timeout thread: the thread is the caller when it is not given
\* and nobody when it is #f.  Without a timeout a caller does not lock a mutex it
\* already holds: it would wait for itself.
CallLock(t, timed, o) ==
  /\ pc[t] = "idle" /\ t \notin terminated
  /\ timed \/ holds[t] = "no"
  /\ pc' = [pc EXCEPT ![t] = "lock"]
  /\ arg' = [arg EXCEPT ![t] = [timed |-> timed, owner |-> o, cv |-> NoCV]]
  /\ UNCHANGED <<locked, owner, holds, terminated, forced>>

\* What an operation returns is told by `holds': #f from mutex-lock! is a return
\* without the mutex.
Return(t) ==
  /\ pc' = [pc EXCEPT ![t] = "idle"]
  /\ arg' = [arg EXCEPT ![t] = NoArgs]

\* One evaluation of the loop: leave it when the mutex is free, or when its owner
\* has terminated (then the call raises after taking the mutex), else wait.
LockBody(t) ==
  /\ pc[t] = "lock"
  /\ IF locked /\ ~OwnerTerminated
     THEN /\ pc' = [pc EXCEPT ![t] = "lockwait"]
          /\ UNCHANGED <<locked, owner, arg, holds>>
     ELSE /\ locked' = TRUE
          /\ owner' = arg[t].owner
          /\ holds' = [holds EXCEPT ![t] =
                         IF arg[t].owner = NoOwner THEN "unowned" ELSE "owned"]
          /\ Return(t)
  /\ UNCHANGED <<terminated, forced>>

\* Mutated: without r = SG_FALSE, a timed-out call takes the mutex.
LockTimeoutTakes(t) ==
  /\ pc[t] = "lockwait" /\ arg[t].timed
  /\ Return(t)
  /\ locked' = TRUE
  /\ owner' = arg[t].owner
  /\ holds' = [holds EXCEPT ![t] = IF arg[t].owner = NoOwner THEN "unowned" ELSE "owned"]
  /\ UNCHANGED <<terminated, forced>>

\* Sg_WaitWithTimeout returns ETIMEDOUT: #f, without another look at `locked'.
LockTimeout(t) ==
  /\ pc[t] = "lockwait" /\ arg[t].timed
  /\ Return(t)
  /\ UNCHANGED <<locked, owner, holds, terminated, forced>>

(***************************************************************************)
(* mutex-unlock!                                                           *)
(***************************************************************************)
\* mutex-unlock! m cv timeout, called by a thread that holds the mutex.
CallUnlock(t, c, timed) ==
  /\ pc[t] = "idle" /\ t \notin terminated
  /\ holds[t] # "no"
  /\ pc' = [pc EXCEPT ![t] = "unlock"]
  /\ arg' = [arg EXCEPT ![t] = [timed |-> timed, owner |-> NoOwner, cv |-> c]]
  /\ UNCHANGED <<locked, owner, holds, terminated, forced>>

\* Mutated: mutex-unlock! without Sg_Notify.
NoNotify(p) == {p}

\* Sg_Notify(&mutex->cv): one of the waiting threads, if there is any, goes on.
Notify(p) ==
  LET waiting == {t \in Threads : p[t] = "lockwait"}
  IN  IF waiting = {} THEN {p} ELSE {[p EXCEPT ![w] = "lock"] : w \in waiting}

\* The flag, the owner and the notification, then the wait on the condition
\* variable, which releases the internal mutex: nothing comes in between.
UnlockBody(t) ==
  /\ pc[t] = "unlock"
  /\ locked' = FALSE
  /\ owner' = NoOwner
  /\ holds' = [holds EXCEPT ![t] = "no"]
  /\ IF arg[t].cv = NoCV
     THEN /\ pc' \in Notify([pc EXCEPT ![t] = "idle"])
          /\ arg' = [arg EXCEPT ![t] = NoArgs]
     ELSE /\ pc' \in Notify([pc EXCEPT ![t] = "cvwait"])
          /\ UNCHANGED arg
  /\ UNCHANGED <<terminated, forced>>

\* The timed wait on the condition variable runs out: #f, the mutex not taken.
CvTimeout(t) ==
  /\ pc[t] = "cvwait" /\ arg[t].timed
  /\ Return(t)
  /\ UNCHANGED <<locked, owner, holds, terminated, forced>>

(***************************************************************************)
(* Condition variables.  A woken mutex-unlock! returns #t without the      *)
(* mutex.                                                                  *)
(***************************************************************************)
Signal(t, c) ==
  /\ pc[t] = "idle" /\ t \notin terminated
  /\ \E w \in CvWaiting(c) : Return(w)
  /\ UNCHANGED <<locked, owner, holds, terminated, forced>>

Broadcast(t, c) ==
  /\ pc[t] = "idle" /\ t \notin terminated
  /\ CvWaiting(c) # {}
  /\ pc' = [w \in Threads |-> IF w \in CvWaiting(c) THEN "idle" ELSE pc[w]]
  /\ arg' = [w \in Threads |-> IF w \in CvWaiting(c) THEN NoArgs ELSE arg[w]]
  /\ UNCHANGED <<locked, owner, holds, terminated, forced>>

\* A pthread wait may return without a signal.
SpuriousWait(t) ==
  /\ \/ /\ pc[t] = "lockwait"
        /\ pc' = [pc EXCEPT ![t] = "lock"]
        /\ UNCHANGED arg
     \/ /\ pc[t] = "cvwait"
        /\ Return(t)
  /\ UNCHANGED <<locked, owner, holds, terminated, forced>>

(***************************************************************************)
(* The end of a thread.                                                    *)
(***************************************************************************)
\* The thunk returns or raises, or a termination request is met at a safe point:
\* the thread is outside the operations.
Exit(t) ==
  /\ pc[t] = "idle" /\ t \notin terminated
  /\ terminated' = terminated \cup {t}
  /\ pc' = [pc EXCEPT ![t] = "gone"]
  /\ UNCHANGED <<locked, owner, arg, holds, forced>>

\* thread-terminate! loses patience: the terminator marks the target TERMINATED
\* and sends pthread_cancel, wherever the target is.
Cancel(t) ==
  /\ forced
  /\ pc[t] \notin {"idle", "gone"} /\ t \notin terminated
  /\ terminated' = terminated \cup {t}
  /\ UNCHANGED <<locked, owner, pc, arg, holds, forced>>

\* The cancelled thread ends at its next safe point or in a wait, which is a
\* cancellation point; its cleanup handler releases the internal mutex.
Reap(t) ==
  /\ t \in terminated
  /\ pc[t] \in {"idle", "lockwait", "cvwait"}
  /\ pc' = [pc EXCEPT ![t] = "gone"]
  /\ arg' = [arg EXCEPT ![t] = NoArgs]
  /\ UNCHANGED <<locked, owner, holds, terminated, forced>>

Step(t) ==
  \/ \E timed \in BOOLEAN, o \in {t, NoOwner} : CallLock(t, timed, o)
  \/ LockBody(t)
  \/ LockTimeout(t)
  \/ \E c \in CVs \cup {NoCV}, timed \in BOOLEAN : CallUnlock(t, c, timed)
  \/ UnlockBody(t)
  \/ CvTimeout(t)
  \/ \E c \in CVs : Signal(t, c) \/ Broadcast(t, c)
  \/ SpuriousWait(t)
  \/ Exit(t)
  \/ Cancel(t)
  \/ Reap(t)

MutexNext == \E t \in Threads : Step(t)

MutexSpec == MutexInit /\ [][MutexNext]_mutexVars

\* The operating system schedules every runnable thread: a thread inside an
\* operation that is not blocked finishes it.
MutexFairness == \A t \in Threads : WF_mutexVars(LockBody(t)) /\ WF_mutexVars(UnlockBody(t))

\* Sg_MutexState: what mutex-state answers.
MutexState ==
  IF ~locked THEN "not-abandoned"
  ELSE IF owner = NoOwner THEN "not-owned"
  ELSE IF owner \in terminated THEN "abandoned"
  ELSE "owned"

(***************************************************************************)
(* Properties.                                                             *)
(***************************************************************************)
\* Every variable has its type.
MutexTypeOK ==
  /\ locked \in BOOLEAN
  /\ owner \in Threads \cup {NoOwner}
  /\ pc \in [Threads -> Places]
  /\ arg \in [Threads -> Args]
  /\ holds \in [Threads -> {"no", "owned", "unowned"}]
  /\ terminated \in SUBSET Threads
  /\ forced \in BOOLEAN

\* A thread's hold counts until it unlocks the mutex, or until it ends when the
\* mutex is locked in its name; a hold in nobody's name outlives the thread.
Live(t) == holds[t] = "unowned" \/ (holds[t] = "owned" /\ t \notin terminated)

OneHolder == \A t, u \in Threads : Live(t) /\ Live(u) => t = u

StateIsTruthful ==
  /\ MutexState = "not-abandoned" => \A t \in Threads : ~Live(t)
  /\ MutexState = "not-owned" => \E t \in Threads : holds[t] = "unowned"
  /\ MutexState = "owned" => Live(owner) /\ holds[owner] = "owned"
  /\ MutexState = "abandoned" => \A t \in Threads : ~Live(t)

\* Mutual exclusion: mutex-lock! never gives the mutex to a thread while the hold
\* of another one counts, and mutex-state, which mutex-lock-recursively! relies on,
\* tells from the flag and the owner who holds it, whatever times out, is signalled,
\* wakes or ends, as long as no thread is marked TERMINATED inside an operation.
MutualExclusion == ~forced => OneHolder /\ StateIsTruthful

\* No wake-up is lost: when the mutex is free and threads wait for it in
\* mutex-lock!, one thread is already on its way to take it.
NoLostWakeup == ~locked /\ Waiting # {} => \E t \in Threads : pc[t] = "lock"

\* A free mutex that somebody waits for is taken in the end.
FreeMutexIsTaken == ~locked /\ Waiting # {} ~> locked

\* Where threads end outside the operations the mutex implements AbstractMutex: the
\* holder is the thread whose hold counts.
Holder ==
  IF ~forced /\ \E t \in Threads : Live(t) THEN CHOOSE t \in Threads : Live(t) ELSE NoOwner
Ended == IF forced THEN {} ELSE terminated
Abstract == INSTANCE AbstractMutex WITH NoThread <- NoOwner, holder <- Holder, ended <- Ended
ImplementsAbstractMutex == Abstract!Spec
=============================================================================
