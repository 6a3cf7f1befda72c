---------------------------- MODULE ThreadsProofs ----------------------------
(***************************************************************************)
(* Proofs about the mutex and the thread of ext/threads: SgMutex, for any  *)
(* set of threads and condition variables, and SgThread, for any number of *)
(* controllers and any mix of operations.  Forced terminations included.   *)
(***************************************************************************)
EXTENDS SgMutex, SgThread, TLAPS

(***************************************************************************)
(* Type correctness.                                                       *)
(***************************************************************************)
\* Notify changes the place of waiting threads only, to "lock".
LEMMA NotifyType ==
  ASSUME NEW p \in [Threads -> Places], NEW q \in Notify(p)
  PROVE  /\ q \in [Threads -> Places]
         /\ \A t \in Threads : q[t] = p[t] \/ (p[t] = "lockwait" /\ q[t] = "lock")
         /\ (\E t \in Threads : p[t] = "lockwait") => \E t \in Threads : q[t] = "lock"
<1> DEFINE waiting == {t \in Threads : p[t] = "lockwait"}
<1>1. CASE waiting = {}
  BY <1>1 DEF Notify
<1>2. CASE waiting # {}
  <2>1. PICK w \in waiting : q = [p EXCEPT ![w] = "lock"]
    BY <1>2 DEF Notify
  <2> QED
    BY <2>1 DEF Places
<1> QED
  BY <1>1, <1>2

LEMMA NoArgsType == NoArgs \in Args
BY DEF NoArgs, Args

\* Every step of a thread keeps the types.
LEMMA TypeStep == MutexTypeOK /\ [MutexNext]_mutexVars => MutexTypeOK'
<1> SUFFICES ASSUME MutexTypeOK, [MutexNext]_mutexVars PROVE MutexTypeOK'
  OBVIOUS
<1> USE NoArgsType DEF MutexTypeOK
<1>1. CASE UNCHANGED mutexVars
  BY <1>1 DEF mutexVars
<1>2. ASSUME NEW t \in Threads, Step(t) PROVE MutexTypeOK'
  <2>1. ASSUME NEW timed \in BOOLEAN, NEW o \in {t, NoOwner}, CallLock(t, timed, o)
        PROVE  MutexTypeOK'
    BY <2>1 DEF CallLock, Places, Args
  <2>2. CASE LockBody(t)
    <3>1. CASE locked /\ ~OwnerTerminated
      BY <2>2, <3>1 DEF LockBody, Places
    <3>2. CASE ~(locked /\ ~OwnerTerminated)
      <4>1. arg[t].owner \in Threads \cup {NoOwner}
        BY DEF Args
      <4> QED
        BY <2>2, <3>2, <4>1, ZenonT(30) DEF LockBody, Return, Places
    <3> QED
      BY <3>1, <3>2
  <2>3. CASE LockTimeout(t)
    BY <2>3 DEF LockTimeout, Return, Places
  <2>4. ASSUME NEW c \in CVs \cup {NoCV}, NEW timed \in BOOLEAN, CallUnlock(t, c, timed)
        PROVE  MutexTypeOK'
    BY <2>4 DEF CallUnlock, Places, Args
  <2>5. CASE UnlockBody(t)
    <3>1. PICK at \in {"idle", "cvwait"} : pc' \in Notify([pc EXCEPT ![t] = at])
      BY <2>5 DEF UnlockBody
    <3>2. [pc EXCEPT ![t] = at] \in [Threads -> Places]
      BY DEF Places
    <3>3. pc' \in [Threads -> Places]
      BY <3>1, <3>2, NotifyType, Zenon
    <3> QED
      BY <2>5, <3>3, Zenon DEF UnlockBody
  <2>6. CASE CvTimeout(t)
    BY <2>6 DEF CvTimeout, Return, Places
  <2>7. ASSUME NEW c \in CVs, Signal(t, c) PROVE MutexTypeOK'
    BY <2>7 DEF Signal, CvWaiting, Return, Places
  <2>8. ASSUME NEW c \in CVs, Broadcast(t, c) PROVE MutexTypeOK'
    BY <2>8 DEF Broadcast, Places
  <2>9. CASE SpuriousWait(t)
    BY <2>9 DEF SpuriousWait, Return, Places
  <2>10. CASE Exit(t)
    BY <2>10 DEF Exit, Places
  <2>11. CASE Cancel(t)
    BY <2>11 DEF Cancel
  <2>12. CASE Reap(t)
    BY <2>12 DEF Reap, Places
  <2> QED
    BY <1>2, <2>1, <2>2, <2>3, <2>4, <2>5, <2>6, <2>7, <2>8, <2>9, <2>10, <2>11, <2>12
    DEF Step
<1> QED
  BY <1>1, <1>2 DEF MutexNext

LEMMA TypeInit == MutexInit => MutexTypeOK
BY NoArgsType, Zenon DEF MutexInit, MutexTypeOK, Places

\* The variables of mutex.c keep their types whatever the threads do.
THEOREM TypeCorrect == MutexSpec => []MutexTypeOK
BY TypeInit, TypeStep, PTL DEF MutexSpec

(***************************************************************************)
(* No wake-up is lost.                                                     *)
(***************************************************************************)
LEMMA WakeupStep == MutexTypeOK /\ NoLostWakeup /\ [MutexNext]_mutexVars => NoLostWakeup'
<1> SUFFICES ASSUME MutexTypeOK, NoLostWakeup, [MutexNext]_mutexVars PROVE NoLostWakeup'
  OBVIOUS
<1> USE DEF MutexTypeOK, NoLostWakeup, Waiting
<1>1. CASE UNCHANGED mutexVars
  BY <1>1 DEF mutexVars
<1>2. ASSUME NEW t \in Threads, Step(t) PROVE NoLostWakeup'
  <2>1. ASSUME NEW timed \in BOOLEAN, NEW o \in {t, NoOwner}, CallLock(t, timed, o)
        PROVE  NoLostWakeup'
    BY <2>1 DEF CallLock
  <2>2. CASE LockBody(t)
    BY <2>2 DEF LockBody, Return, OwnerTerminated
  <2>3. CASE LockTimeout(t)
    BY <2>3 DEF LockTimeout, Return
  <2>4. ASSUME NEW c \in CVs \cup {NoCV}, NEW timed \in BOOLEAN, CallUnlock(t, c, timed)
        PROVE  NoLostWakeup'
    BY <2>4 DEF CallUnlock
  <2>5. CASE UnlockBody(t)
    <3>1. PICK at \in {"idle", "cvwait"} : pc' \in Notify([pc EXCEPT ![t] = at])
      BY <2>5 DEF UnlockBody
    <3> DEFINE p == [pc EXCEPT ![t] = at]
    <3>2. p \in [Threads -> Places]
      BY DEF Places
    <3>3. ASSUME NEW u \in Threads, pc'[u] = "lockwait"
          PROVE  \E v \in Threads : pc'[v] = "lock"
      <4>1. pc' \in Notify(p)
        BY <3>1
      <4> HIDE DEF p
      <4>2. p[u] = "lockwait"
        BY <3>2, <3>3, <4>1, NotifyType
      <4> QED
        BY <3>2, <4>1, <4>2, NotifyType
    <3> QED
      BY <3>3
  <2>6. CASE CvTimeout(t)
    BY <2>6 DEF CvTimeout, Return
  <2>7. ASSUME NEW c \in CVs, Signal(t, c) PROVE NoLostWakeup'
    BY <2>7 DEF Signal, CvWaiting, Return
  <2>8. ASSUME NEW c \in CVs, Broadcast(t, c) PROVE NoLostWakeup'
    BY <2>8 DEF Broadcast, CvWaiting
  <2>9. CASE SpuriousWait(t)
    BY <2>9 DEF SpuriousWait, Return
  <2>10. CASE Exit(t)
    BY <2>10 DEF Exit
  <2>11. CASE Cancel(t)
    BY <2>11 DEF Cancel
  <2>12. CASE Reap(t)
    BY <2>12 DEF Reap
  <2> QED
    BY <1>2, <2>1, <2>2, <2>3, <2>4, <2>5, <2>6, <2>7, <2>8, <2>9, <2>10, <2>11, <2>12, Zenon
    DEF Step
<1> QED
  BY <1>1, <1>2 DEF MutexNext

\* A free mutex with waiters always has a thread on its way to take it, even when
\* threads are cancelled inside mutex-lock! or mutex-unlock!.
THEOREM NoWakeupIsLost == MutexSpec => []NoLostWakeup
<1>1. MutexInit => NoLostWakeup
  BY DEF MutexInit, NoLostWakeup, Waiting
<1> QED
  BY <1>1, TypeInit, TypeStep, WakeupStep, PTL DEF MutexSpec

(***************************************************************************)
(* Mutual exclusion, when threads end outside the operations only.  The    *)
(* flag and the owner must record every hold that counts, a hold in        *)
(* nobody's name included, and a thread inside mutex-unlock! must still    *)
(* hold the mutex.                                                         *)
(***************************************************************************)
EndedOutside == \A t \in Threads : t \in terminated => pc[t] = "gone"

HoldsRecorded ==
  \A t \in Threads :
     /\ holds[t] = "owned" /\ t \notin terminated => locked /\ owner = t
     /\ holds[t] = "unowned" => locked /\ owner = NoOwner

OneUnowned == \A t, u \in Threads : holds[t] = "unowned" /\ holds[u] = "unowned" => t = u

RecordsHold ==
  /\ locked /\ owner = NoOwner => \E t \in Threads : holds[t] = "unowned"
  /\ locked /\ owner # NoOwner => holds[owner] = "owned"

UnlockerHolds == \A t \in Threads : pc[t] = "unlock" => holds[t] # "no"

LocksForItself == \A t \in Threads : pc[t] \in {"lock", "lockwait"} => arg[t].owner \in {t, NoOwner}

ExclusionInv ==
  /\ MutexTypeOK
  /\ EndedOutside
  /\ HoldsRecorded
  /\ OneUnowned
  /\ RecordsHold
  /\ UnlockerHolds
  /\ LocksForItself

LEMMA ExclusionInit == MutexInit => ExclusionInv
BY TypeInit, OwnerAssumption
DEF MutexInit, ExclusionInv, EndedOutside, HoldsRecorded, OneUnowned, RecordsHold, UnlockerHolds,
    LocksForItself

\* Steps that leave the mutex, the holds and the set of ended threads alone, and
\* take no thread into an operation.
LEMMA ExclusionFrame ==
  ASSUME ExclusionInv, MutexTypeOK', UNCHANGED <<locked, owner, holds, terminated, forced>>,
         \A t \in Threads : \/ pc'[t] = pc[t] /\ arg'[t] = arg[t]
                            \/ pc'[t] = "lock" /\ pc[t] = "lockwait" /\ arg'[t] = arg[t]
                            \/ pc'[t] = "lockwait" /\ pc[t] = "lock" /\ arg'[t] = arg[t]
                            \/ pc'[t] = "idle" /\ pc[t] # "gone"
                            \/ pc'[t] = "gone"
  PROVE  ExclusionInv'
BY DEF ExclusionInv, EndedOutside, HoldsRecorded, OneUnowned, RecordsHold, UnlockerHolds,
       LocksForItself

LEMMA ExclusionStep ==
  ASSUME ~forced, ExclusionInv, [MutexNext]_mutexVars
  PROVE  ExclusionInv'
<1>1. MutexTypeOK /\ MutexTypeOK'
  BY TypeStep DEF ExclusionInv
<1>2. CASE UNCHANGED mutexVars
  BY <1>1, <1>2, ExclusionFrame DEF mutexVars
<1>3. ASSUME NEW t \in Threads, Step(t) PROVE ExclusionInv'
  <2>1. ASSUME NEW timed \in BOOLEAN, NEW o \in {t, NoOwner}, CallLock(t, timed, o)
        PROVE  ExclusionInv'
    BY <1>1, <2>1
    DEF CallLock, MutexTypeOK, ExclusionInv, EndedOutside, HoldsRecorded, OneUnowned, RecordsHold,
        UnlockerHolds, LocksForItself
  <2>2. CASE LockBody(t)
    <3>1. CASE locked /\ ~OwnerTerminated
      BY <1>1, <2>2, <3>1, ExclusionFrame DEF LockBody, MutexTypeOK
    <3>2. CASE ~(locked /\ ~OwnerTerminated)
      \* Nobody's hold counts, so t may take the mutex.
      <4>1. \A u \in Threads : ~Live(u)
        BY <1>1, <3>2, OwnerAssumption
        DEF Live, OwnerTerminated, ExclusionInv, HoldsRecorded, MutexTypeOK
      <4>2. arg[t].owner \in {t, NoOwner} /\ t \notin terminated
        BY <2>2 DEF LockBody, ExclusionInv, LocksForItself, EndedOutside
      <4>3. /\ locked' = TRUE /\ owner' = arg[t].owner /\ UNCHANGED terminated
            /\ holds' = [holds EXCEPT ![t] =
                           IF arg[t].owner = NoOwner THEN "unowned" ELSE "owned"]
            /\ pc' = [pc EXCEPT ![t] = "idle"]
            /\ arg' = [arg EXCEPT ![t] = NoArgs]
        BY <2>2, <3>2 DEF LockBody, Return
      <4>4. EndedOutside' /\ UnlockerHolds' /\ LocksForItself'
        BY <1>1, <4>2, <4>3
        DEF MutexTypeOK, ExclusionInv, EndedOutside, UnlockerHolds, LocksForItself
      <4>5. HoldsRecorded' /\ OneUnowned'
        BY <1>1, <4>1, <4>2, <4>3, OwnerAssumption DEF MutexTypeOK, Live, HoldsRecorded, OneUnowned
      <4>6. RecordsHold'
        BY <1>1, <4>2, <4>3, OwnerAssumption DEF MutexTypeOK, RecordsHold
      <4> QED
        BY <1>1, <4>4, <4>5, <4>6 DEF ExclusionInv
    <3> QED
      BY <3>1, <3>2
  <2>3. CASE LockTimeout(t)
    BY <1>1, <2>3, ExclusionFrame DEF LockTimeout, Return, MutexTypeOK
  <2>4. ASSUME NEW c \in CVs \cup {NoCV}, NEW timed \in BOOLEAN, CallUnlock(t, c, timed)
        PROVE  ExclusionInv'
    BY <1>1, <2>4
    DEF CallUnlock, MutexTypeOK, ExclusionInv, EndedOutside, HoldsRecorded, OneUnowned, RecordsHold,
        UnlockerHolds, LocksForItself
  <2>5. CASE UnlockBody(t)
    \* The hold of t counts, so it is the only one and nobody's counts afterwards.
    <3>1. t \notin terminated /\ Live(t)
      BY <1>1, <2>5
      DEF UnlockBody, Live, MutexTypeOK, ExclusionInv, EndedOutside, UnlockerHolds
    <3>2. \A u \in Threads : Live(u) => u = t
      BY <1>1, <3>1, OwnerAssumption DEF Live, MutexTypeOK, ExclusionInv, HoldsRecorded, OneUnowned
    <3>3. /\ locked' = FALSE /\ owner' = NoOwner /\ UNCHANGED terminated
          /\ holds' = [holds EXCEPT ![t] = "no"]
      BY <2>5 DEF UnlockBody
    <3>4. /\ \A u \in Threads \ {t} :
                \/ pc'[u] = pc[u] /\ arg'[u] = arg[u]
                \/ pc'[u] = "lock" /\ pc[u] = "lockwait" /\ arg'[u] = arg[u]
          /\ pc'[t] \in {"idle", "cvwait"}
      <4>1. PICK at \in {"idle", "cvwait"} : pc' \in Notify([pc EXCEPT ![t] = at])
        BY <2>5 DEF UnlockBody
      <4> DEFINE p == [pc EXCEPT ![t] = at]
      <4>2. p \in [Threads -> Places] /\ pc' \in Notify(p)
        BY <1>1, <4>1 DEF MutexTypeOK, Places
      <4>3. p[t] = at /\ \A u \in Threads \ {t} : p[u] = pc[u]
        BY <1>1 DEF MutexTypeOK
      <4> HIDE DEF p
      <4>4. \A u \in Threads : pc'[u] = p[u] \/ (p[u] = "lockwait" /\ pc'[u] = "lock")
        BY <4>2, NotifyType
      <4>5. \A u \in Threads \ {t} : arg'[u] = arg[u]
        BY <1>1, <2>5 DEF UnlockBody, MutexTypeOK
      <4> QED
        BY <4>3, <4>4, <4>5
    <3>5. EndedOutside' /\ UnlockerHolds' /\ LocksForItself'
      BY <1>1, <3>1, <3>3, <3>4
      DEF MutexTypeOK, ExclusionInv, EndedOutside, UnlockerHolds, LocksForItself
    <3>6. HoldsRecorded' /\ OneUnowned' /\ RecordsHold'
      BY <1>1, <3>2, <3>3 DEF MutexTypeOK, Live, HoldsRecorded, OneUnowned, RecordsHold
    <3> QED
      BY <1>1, <3>5, <3>6 DEF ExclusionInv
  <2>6. CASE CvTimeout(t)
    BY <1>1, <2>6, ExclusionFrame DEF CvTimeout, Return, MutexTypeOK
  <2>7. ASSUME NEW c \in CVs, Signal(t, c) PROVE ExclusionInv'
    BY <1>1, <2>7, ExclusionFrame DEF Signal, CvWaiting, Return, MutexTypeOK
  <2>8. ASSUME NEW c \in CVs, Broadcast(t, c) PROVE ExclusionInv'
    BY <1>1, <2>8, ExclusionFrame DEF Broadcast, CvWaiting, MutexTypeOK
  <2>9. CASE SpuriousWait(t)
    BY <1>1, <2>9, ExclusionFrame DEF SpuriousWait, Return, MutexTypeOK
  <2>10. CASE Exit(t)
    BY <1>1, <2>10
    DEF Exit, MutexTypeOK, ExclusionInv, EndedOutside, HoldsRecorded, OneUnowned, RecordsHold,
        UnlockerHolds, LocksForItself
  <2>11. CASE Cancel(t)
    BY <2>11 DEF Cancel
  <2>12. CASE Reap(t)
    BY <1>1, <2>12, ExclusionFrame DEF Reap, MutexTypeOK
  <2> QED
    BY <1>3, <2>1, <2>2, <2>3, <2>4, <2>5, <2>6, <2>7, <2>8, <2>9, <2>10, <2>11, <2>12
    DEF Step
<1> QED
  BY <1>2, <1>3 DEF MutexNext

LEMMA ExclusionImplies == ExclusionInv => OneHolder /\ StateIsTruthful
BY OwnerAssumption, SMTT(30)
DEF ExclusionInv, MutexTypeOK, HoldsRecorded, OneUnowned, RecordsHold, OneHolder,
    StateIsTruthful, MutexState, Live

LEMMA ForcedStays == [MutexNext]_mutexVars => forced' = forced
BY ZenonT(30)
DEF MutexNext, mutexVars, Step, CallLock, LockBody, LockTimeout, CallUnlock, UnlockBody,
    CvTimeout, Signal, Broadcast, SpuriousWait, Exit, Cancel, Reap

\* The invariant of the executions in which threads end outside the operations.
OutsideInv == ~forced => ExclusionInv

LEMMA OutsideStep == OutsideInv /\ [MutexNext]_mutexVars => OutsideInv'
BY ExclusionStep, ForcedStays DEF OutsideInv

\* mutex-lock! gives the mutex to one thread at a time, and mutex-state says who has
\* it, when no thread is marked TERMINATED inside an operation.
THEOREM Exclusion == MutexSpec => []MutualExclusion
<1>1. MutexInit => OutsideInv
  BY ExclusionInit DEF OutsideInv
<1>2. OutsideInv => MutualExclusion
  BY ExclusionImplies DEF OutsideInv, MutualExclusion
<1> QED
  BY <1>1, <1>2, OutsideStep, PTL DEF MutexSpec

(***************************************************************************)
(* The mutex implements AbstractMutex.                                     *)
(***************************************************************************)
HolderDetermined ==
  /\ \A t \in Threads : Live(t) => Holder = t
  /\ (\A t \in Threads : ~Live(t)) => Holder = NoOwner

LEMMA HolderIsLive == ~forced /\ OneHolder => HolderDetermined
<1> SUFFICES ASSUME ~forced, OneHolder PROVE HolderDetermined
  OBVIOUS
<1>1. ASSUME NEW t \in Threads, Live(t) PROVE Holder = t
  <2> DEFINE h == CHOOSE u \in Threads : Live(u)
  <2>1. h \in Threads /\ Live(h)
    BY <1>1
  <2>2. Holder = h
    BY <1>1 DEF Holder
  <2> QED
    BY <1>1, <2>1, <2>2 DEF OneHolder
<1>2. ASSUME \A t \in Threads : ~Live(t) PROVE Holder = NoOwner
  BY <1>2 DEF Holder
<1> QED
  BY <1>1, <1>2 DEF HolderDetermined

LEMMA SameHolder ==
  ASSUME HolderDetermined, HolderDetermined', \A t \in Threads : Live(t)' <=> Live(t)
  PROVE  Holder' = Holder
BY DEF HolderDetermined

\* A step of a thread is a step or a stutter of AbstractMutex.
LEMMA RefinementStep ==
  ASSUME ~forced, ExclusionInv, ExclusionInv', HolderDetermined, HolderDetermined',
         [MutexNext]_mutexVars
  PROVE  [Abstract!Next]_<<Holder, Ended>>
<1> USE DEF Abstract!Next
<1>0. ~forced' /\ Ended = terminated /\ Ended' = terminated'
  BY ForcedStays DEF Ended
<1>1. MutexTypeOK /\ MutexTypeOK'
  BY DEF ExclusionInv
<1>2. CASE UNCHANGED <<holds, terminated>>
  BY <1>0, <1>2, SameHolder DEF Live
<1>3. ASSUME NEW t \in Threads, LockBody(t), ~(locked /\ ~OwnerTerminated) PROVE Abstract!Next
  <2>1. \A u \in Threads : ~Live(u)
    BY <1>1, <1>3, OwnerAssumption, Zenon
    DEF Live, OwnerTerminated, ExclusionInv, HoldsRecorded, MutexTypeOK
  <2>2. t \notin terminated /\ Live(t)' /\ UNCHANGED terminated
    BY <1>1, <1>3, Zenon DEF LockBody, Live, MutexTypeOK, ExclusionInv, EndedOutside
  <2> QED
    BY <1>0, <2>1, <2>2 DEF HolderDetermined, Abstract!Acquire
<1>4. ASSUME NEW t \in Threads, UnlockBody(t) PROVE Abstract!Next
  <2>1. Live(t) /\ t \notin terminated /\ UNCHANGED terminated
    BY <1>1, <1>4
    DEF UnlockBody, Live, MutexTypeOK, ExclusionInv, EndedOutside, UnlockerHolds
  <2>2. \A u \in Threads : ~Live(u)'
    BY <1>1, <1>4 DEF UnlockBody, Live, ExclusionInv, HoldsRecorded
  <2> QED
    BY <1>0, <2>1, <2>2 DEF HolderDetermined, Abstract!Release
<1>5. ASSUME NEW t \in Threads, Exit(t) PROVE Abstract!Next
  <2>1. t \notin terminated /\ terminated' = terminated \cup {t}
    BY <1>5 DEF Exit
  <2>2. \A u \in Threads \ {t} : Live(u)' <=> Live(u)
    BY <1>5 DEF Exit, Live
  <2>3. Live(t)' => Live(t)
    BY <1>5 DEF Exit, Live
  <2>4. CASE Live(t) /\ ~Live(t)'
    <3>1. \A u \in Threads \ {t} : ~Live(u)
      BY <2>4, ExclusionImplies DEF OneHolder
    <3> QED
      BY <1>0, <2>1, <2>2, <2>4, <3>1 DEF HolderDetermined, Abstract!End
  <2>5. CASE Live(t) <=> Live(t)'
    BY <1>0, <2>1, <2>2, <2>5, SameHolder, Zenon DEF Abstract!End
  <2> QED
    BY <2>3, <2>4, <2>5
<1>6. ASSUME NEW t \in Threads, Step(t)
      PROVE  \/ UNCHANGED <<holds, terminated>>
             \/ LockBody(t) /\ ~(locked /\ ~OwnerTerminated)
             \/ UnlockBody(t)
             \/ Exit(t)
  BY <1>6
  DEF Step, CallLock, LockBody, LockTimeout, CallUnlock, CvTimeout, Signal, Broadcast,
      SpuriousWait, Cancel, Reap
<1>7. CASE UNCHANGED mutexVars
  BY <1>2, <1>7 DEF mutexVars
<1> QED
  BY <1>2, <1>3, <1>4, <1>5, <1>6, <1>7 DEF MutexNext

\* Under the same condition the mutex implements AbstractMutex, so a library may
\* take it for a lock that one thread at a time holds and that only its holder, or
\* its holder's end, gives up.
THEOREM Refinement == MutexSpec => ImplementsAbstractMutex
<1> DEFINE Determined == ~forced => HolderDetermined
<1>1. MutexInit => Abstract!Init
  <2>1. MutexInit /\ ~forced => Holder = NoOwner
    BY ExclusionInit, ExclusionImplies, HolderIsLive DEF MutexInit, Live, HolderDetermined
  <2>2. forced => Holder = NoOwner
    BY DEF Holder
  <2> QED
    BY <2>1, <2>2 DEF MutexInit, Ended, Abstract!Init
<1>2. MutexInit => OutsideInv
  BY ExclusionInit DEF OutsideInv
<1>3. OutsideInv => Determined
  BY ExclusionImplies, HolderIsLive DEF OutsideInv
<1>4. OutsideInv /\ OutsideInv' /\ Determined /\ Determined' /\ [MutexNext]_mutexVars
        => [Abstract!Next]_<<Holder, Ended>>
  <2> SUFFICES ASSUME OutsideInv, OutsideInv', Determined, Determined', [MutexNext]_mutexVars
               PROVE  [Abstract!Next]_<<Holder, Ended>>
    OBVIOUS
  <2>1. forced' = forced
    BY ForcedStays
  <2>2. CASE forced
    BY <2>1, <2>2 DEF Holder, Ended
  <2>3. CASE ~forced
    BY <2>1, <2>3, RefinementStep DEF OutsideInv
  <2> QED
    BY <2>2, <2>3
<1> QED
  BY <1>1, <1>2, <1>3, <1>4, OutsideStep, PTL
  DEF MutexSpec, ImplementsAbstractMutex, Abstract!Spec

(***************************************************************************)
(* What the safe points of a thread guarantee.                             *)
(***************************************************************************)
\* The fields the argument is about.
Fields ==
  /\ threadState \in {"NEW", "RUNNABLE", "STOPPED", "TERMINATED"}
  /\ stopRequest \in {"none", "SUSPEND", "TERMINATE"}
  /\ attentionRequest \in BOOLEAN
  /\ tpc \in TargetPlaces

\* A request without attentionRequest is one the target is about to read, or has
\* obeyed.
Pending ==
  stopRequest # "none" /\ ~attentionRequest
    => \/ tpc \in {"attention", "request", "exit", "gone"}
       \/ tpc = "check" /\ threadState = "TERMINATED"

\* Only a target inside its wait, or cancelled in it, has the state STOPPED; only
\* one that was not started has the state NEW.
Still ==
  /\ threadState = "STOPPED" => tpc \in {"stopped", "woken", "exit"}
  /\ threadState = "NEW" => tpc = "none"

\* Both a wish to suspend and its fulfilment belong to an inspector.
Inspected == stopRequest = "SUSPEND" \/ threadState = "STOPPED" => inspector # NoThread

\* What makes the three properties inductive.
IInv == Fields /\ Pending /\ Still /\ Inspected

LEMMA InitEstablishes == Init => IInv
  BY Zenon DEF Init, IInv, Fields, Pending, Still, Inspected, TargetPlaces

\* The steps of the target.
LEMMA TargetPreserves == IInv /\ TargetNext => IInv'
  <1> SUFFICES ASSUME IInv, TargetNext PROVE IInv'
    OBVIOUS
  <1> USE DEF IInv, Fields, Pending, Still, Inspected, TargetPlaces
  <1>1. CASE SafePoint BY <1>1, Zenon DEF SafePoint
  <1>2. CASE ReadRequest BY <1>2 DEF ReadRequest, vm
  <1>3. CASE HandleRequest BY <1>3 DEF HandleRequest
  <1>4. CASE SpuriousWakeup BY <1>4 DEF SpuriousWakeup, vm
  <1>5. CASE LookAgain BY <1>5 DEF LookAgain, vm
  <1>6. CASE CheckState BY <1>6 DEF CheckState, vm
  <1>7. CASE Finish BY <1>7 DEF Finish
  <1>8. CASE TerminateSelf BY <1>8 DEF TerminateSelf
  <1>9. CASE CancellationPoint BY <1>9 DEF CancellationPoint, vm
  <1>10. CASE Cleanup BY <1>10, Zenon DEF Cleanup, CleanupInner
  <1> QED
    BY <1>1, <1>2, <1>3, <1>4, <1>5, <1>6, <1>7, <1>8, <1>9, <1>10 DEF TargetNext

\* The steps of a controller.
LEMMA ControllerPreserves ==
  ASSUME NEW c \in Controllers
  PROVE  IInv /\ ControllerNext(c) => IInv'
  <1> SUFFICES ASSUME IInv, ControllerNext(c) PROVE IInv'
    OBVIOUS
  <1> USE DEF IInv, Fields, Pending, Still, Inspected, TargetPlaces
  <1>0. c # NoThread
    BY ThreadsAssumption
  <1>1. CASE Start(c) BY <1>1 DEF Start
  <1>2. CASE CallJoin(c) BY <1>2 DEF CallJoin, vm
  <1>3. CASE JoinLook(c) BY <1>3 DEF JoinLook
  <1>4. CASE JoinTimeout(c) BY <1>4 DEF JoinTimeout, vm
  <1>5. CASE Suspend(c) BY <1>0, <1>5, Zenon DEF Suspend
  <1>6. CASE SuspendLook(c) BY <1>6 DEF SuspendLook, vm
  <1>7. CASE SuspendTimeout(c) BY <1>7 DEF SuspendTimeout, vm
  <1>8. CASE Resume(c) BY <1>8 DEF Resume, WokenTarget
  <1>9. CASE Terminate(c)
    <2>0. UNCHANGED <<inspector, tpc>>
      BY <1>9 DEF Terminate
    <2>1. CASE stopRequest' = "TERMINATE" /\ attentionRequest' = TRUE /\ UNCHANGED threadState
      BY <2>0, <2>1
    <2>2. CASE threadState' = "TERMINATED" /\ UNCHANGED <<stopRequest, attentionRequest>>
      BY <2>0, <2>2
    <2> QED BY <1>9, <2>1, <2>2, Zenon DEF Terminate
  <1>10. CASE TerminateLook(c) BY <1>10 DEF TerminateLook, vm
  <1>11. CASE TerminateTimeout(c) BY <1>11 DEF TerminateTimeout, CleanupInner, WokenTarget
  <1>12. CASE End(c) BY <1>12 DEF End, vm
  <1> QED
    BY <1>1, <1>2, <1>3, <1>4, <1>5, <1>6, <1>7, <1>8, <1>9, <1>10, <1>11, <1>12 DEF ControllerNext

LEMMA Inductive == Spec => []IInv
  <1>1. IInv /\ [Next]_vars => IInv'
    <2> SUFFICES ASSUME IInv, [Next]_vars PROVE IInv'
      OBVIOUS
    <2>1. CASE TargetNext BY <2>1, TargetPreserves
    <2>2. CASE \E c \in Controllers : ControllerNext(c) BY <2>2, ControllerPreserves
    <2>3. CASE UNCHANGED vars
      BY <2>3 DEF vars, vm, IInv, Fields, Pending, Still, Inspected
    <2> QED BY <2>1, <2>2, <2>3 DEF Next
  <1> QED BY <1>1, InitEstablishes, PTL DEF Spec

\* thread-suspend! and thread-terminate! never lose a request between the two flags
\* process_queued_requests reads without the lock.
THEOREM NoRequestIsLost == Spec => []RequestIsNoticed
  <1>1. IInv => RequestIsNoticed BY DEF IInv, Pending, RequestIsNoticed
  <1> QED BY <1>1, Inductive, PTL

\* A thread whose state is STOPPED executes no Scheme code.
THEOREM StoppedThreadsAreStill == Spec => []StoppedIsStill
  <1>1. IInv => StoppedIsStill BY DEF IInv, Still, StoppedIsStill
  <1> QED BY <1>1, Inductive, PTL

\* A thread whose state is STOPPED can be resumed: thread-resume! finds an inspector.
THEOREM StoppedThreadsCanBeResumed == Spec => []StoppedHasInspector
  <1>1. IInv => StoppedHasInspector BY DEF IInv, Inspected, StoppedHasInspector
  <1> QED BY <1>1, Inductive, PTL

(***************************************************************************)
(* How a thread that nobody terminates ends, and what thread-join! tells.  *)
(***************************************************************************)
\* Nobody has asked the target to terminate but, at most, the target.
Unasked ==
  /\ canceller \in {NoThread, Target}
  /\ stopRequest # "TERMINATE"
  /\ cancelled = FALSE
  /\ threadState = "TERMINATED" => tpc = "gone"

\* Before thread_entry has stored anything.
Running ==
  /\ tpc \notin {"exit", "gone"} => canceller = NoThread /\ result = "undef" /\ threadErrorP = FALSE
  /\ tpc # "gone" => answers = {}

\* thread_entry has stored the thunk's value or its exception, or the target has
\* called thread-terminate! on itself.
Exiting ==
  tpc = "exit" =>
    \/ canceller = NoThread /\ result = "value" /\ threadErrorP = FALSE
    \/ canceller = NoThread /\ result = "uncaught" /\ threadErrorP = TRUE
    \/ canceller = Target /\ result = "undef" /\ threadErrorP = FALSE

Raised == \E e \in answers : e[1] = "raise"

\* thread_cleanup_inner has stored the termination; a joiner that raises takes it.
Over ==
  tpc = "gone" =>
    \/ result = "value" /\ threadErrorP = FALSE
    \/ result \in {"uncaught", "terminated"} /\ threadErrorP = TRUE
    \/ result = "undef" /\ threadErrorP = FALSE /\ Raised

Told ==
  \A a \in answers :
    \/ a \in {<<"return", "value">>, <<"raise", "uncaught">>, <<"raise", "terminated">>}
    \/ a = <<"return", "undef">> /\ Raised

\* The life of such a thread.
Ending == Unasked /\ Running /\ Exiting /\ Over /\ Told

\* A thread that was terminated stays so: canceller and returned never go back.
LEMMA NotTerminatedBefore ==
  ASSUME [Next]_vars, NotTerminated'
  PROVE  NotTerminated
  <1>1. canceller \in Controllers => canceller' \in Controllers
    <2>1. CASE TargetNext
      BY <2>1, ThreadsAssumption, Zenon DEF TargetNext, SafePoint, ReadRequest, HandleRequest, SpuriousWakeup,
         LookAgain, CheckState, Finish, TerminateSelf, CancellationPoint, Cleanup, vm
    <2>2. ASSUME NEW c \in Controllers, ControllerNext(c) PROVE UNCHANGED canceller \/ canceller' = c
      BY <2>2, Zenon DEF ControllerNext, Start, CallJoin, JoinLook, JoinTimeout, Suspend, SuspendLook,
         SuspendTimeout, Resume, Terminate, TerminateLook, TerminateTimeout, End, vm
    <2>3. CASE UNCHANGED vars BY <2>3 DEF vars, vm
    <2> QED BY <2>1, <2>2, <2>3, Zenon DEF Next
  <1>2. returned \subseteq returned'
    <2>1. CASE TargetNext
      BY <2>1, Zenon DEF TargetNext, SafePoint, ReadRequest, HandleRequest, SpuriousWakeup,
         LookAgain, CheckState, Finish, TerminateSelf, CancellationPoint, Cleanup
    <2>2. ASSUME NEW c \in Controllers, ControllerNext(c)
          PROVE  UNCHANGED returned \/ returned' = returned \cup {c}
      BY <2>2, Zenon DEF ControllerNext, Start, CallJoin, JoinLook, JoinTimeout, Suspend, SuspendLook,
         SuspendTimeout, Resume, Terminate, TerminateLook, TerminateTimeout, End
    <2>3. CASE UNCHANGED vars BY <2>3 DEF vars
    <2> QED BY <2>1, <2>2, <2>3 DEF Next
  <1> QED BY <1>1, <1>2 DEF NotTerminated

\* A step that changes neither the outcome nor the answers.
LEMMA EndingFrame ==
  ASSUME Ending, Unasked', UNCHANGED <<canceller, result, threadErrorP, answers>>,
         tpc' = tpc \/ {tpc, tpc'} \cap {"exit", "gone"} = {}
  PROVE  Ending'
  BY Zenon DEF Ending, Running, Exiting, Over, Told, Raised

\* The target on its way.
LEMMA TargetEnds ==
  ASSUME IInv, Ending, TargetNext
  PROVE  Ending'
  <1>0. Unasked /\ Running /\ Exiting /\ Over /\ Told
    BY DEF Ending
  <1>1. CASE SafePoint
    BY <1>0, <1>1, EndingFrame DEF SafePoint, Unasked
  <1>2. CASE ReadRequest
    BY <1>0, <1>2, EndingFrame DEF ReadRequest, vm, Unasked
  <1>3. CASE HandleRequest
    BY <1>0, <1>3, EndingFrame, Zenon DEF HandleRequest, Unasked
  <1>4. CASE SpuriousWakeup
    BY <1>0, <1>4, EndingFrame DEF SpuriousWakeup, vm, Unasked
  <1>5. CASE LookAgain
    BY <1>0, <1>5, EndingFrame DEF LookAgain, vm, Unasked
  <1>6. CASE CheckState
    BY <1>0, <1>6, EndingFrame, Zenon DEF CheckState, vm, Unasked
  <1>7. CASE Finish
    <2>1. tpc = "run" /\ tpc' = "exit" /\ UNCHANGED <<threadState, canceller, stopRequest, cancelled, answers>>
      BY <1>7, Zenon DEF Finish
    <2>2. canceller = NoThread /\ threadErrorP = FALSE /\ answers = {}
      BY <1>0, <2>1 DEF Running
    <2>3. \/ result' = "value" /\ threadErrorP' = FALSE
          \/ result' = "uncaught" /\ threadErrorP' = TRUE
      BY <1>7, <2>2, Zenon DEF Finish
    <2> QED BY <1>0, <2>1, <2>2, <2>3 DEF Ending, Unasked, Running, Exiting, Over, Told
  <1>8. CASE TerminateSelf
    <2>1. /\ tpc = "run" /\ tpc' = "exit"
          /\ UNCHANGED <<threadState, stopRequest, cancelled, answers, result, threadErrorP>>
      BY <1>8, Zenon DEF TerminateSelf
    <2>2. canceller = NoThread /\ result = "undef" /\ threadErrorP = FALSE /\ answers = {}
      BY <1>0, <2>1 DEF Running
    <2>3. canceller' = Target
      BY <1>8, <2>2, Zenon DEF TerminateSelf
    <2> QED BY <1>0, <2>1, <2>2, <2>3 DEF Ending, Unasked, Running, Exiting, Over, Told
  <1>9. CASE CancellationPoint
    BY <1>0, <1>9, Zenon DEF CancellationPoint, Unasked
  <1>10. CASE Cleanup
    <2>1. tpc = "exit" /\ tpc' = "gone" /\ UNCHANGED <<canceller, stopRequest, cancelled, answers>>
      BY <1>10, Zenon DEF Cleanup
    <2>2. /\ result' = (IF canceller # NoThread THEN "terminated" ELSE result)
          /\ threadErrorP' = (threadErrorP \/ canceller # NoThread)
      BY <1>10, Zenon DEF Cleanup, CleanupInner
    <2>3. \/ result' = "value" /\ threadErrorP' = FALSE
          \/ result' \in {"uncaught", "terminated"} /\ threadErrorP' = TRUE
      BY <1>0, <2>1, <2>2, ThreadsAssumption, Zenon DEF Exiting
    <2>4. answers' = {}
      BY <1>0, <2>1 DEF Running
    <2> QED BY <1>0, <2>1, <2>3, <2>4 DEF Ending, Unasked, Running, Exiting, Over, Told
  <1> QED
    BY <1>1, <1>2, <1>3, <1>4, <1>5, <1>6, <1>7, <1>8, <1>9, <1>10, Zenon DEF TargetNext

\* A controller that joins takes what thread_cleanup_inner has stored.
LEMMA JoinEnds ==
  ASSUME NEW c \in Controllers, Ending, JoinLook(c), threadState = "TERMINATED"
  PROVE  Ending'
  <1>0. Unasked /\ Running /\ Exiting /\ Over /\ Told
    BY DEF Ending
  <1>1. tpc = "gone" /\ UNCHANGED <<tpc, threadState, canceller, stopRequest, cancelled>>
    BY <1>0, Zenon DEF JoinLook, Unasked
  <1>2. TakeResult
    BY Zenon DEF JoinLook
  <1>3. answers' = answers \cup {<<IF threadErrorP THEN "raise" ELSE "return", result>>}
    BY <1>2, Zenon DEF TakeResult
  <1>4. threadErrorP' = FALSE /\ result' = (IF threadErrorP THEN "undef" ELSE result)
    BY <1>2, Zenon DEF TakeResult
  <1>5. Unasked' /\ Running' /\ Exiting'
    BY <1>0, <1>1, Zenon DEF Unasked, Running, Exiting
  <1>6. Raised => Raised'
    BY <1>3 DEF Raised
  <1>7. CASE result = "value" /\ threadErrorP = FALSE
    <2>1. answers' = answers \cup {<<"return", "value">>} /\ result' = "value"
      BY <1>3, <1>4, <1>7, Zenon
    <2>2. Over'
      BY <1>4, <2>1, Zenon DEF Over
    <2>3. Told'
      BY <1>0, <1>6, <2>1, Zenon DEF Told
    <2> QED BY <1>5, <2>2, <2>3, Zenon DEF Ending
  <1>8. CASE result \in {"uncaught", "terminated"} /\ threadErrorP = TRUE
    <2>1. answers' = answers \cup {<<"raise", result>>} /\ result' = "undef"
      BY <1>3, <1>4, <1>8, Zenon
    <2>2. Raised'
      <3>1. <<"raise", result>>[1] = "raise"
        OBVIOUS
      <3> QED BY <2>1, <3>1, Zenon DEF Raised
    <2>3. Over'
      BY <1>4, <2>1, <2>2, Zenon DEF Over
    <2>4. Told'
      BY <1>0, <1>6, <1>8, <2>1, Zenon DEF Told
    <2> QED BY <1>5, <2>3, <2>4, Zenon DEF Ending
  <1>9. CASE result = "undef" /\ threadErrorP = FALSE /\ Raised
    <2>1. answers' = answers \cup {<<"return", "undef">>} /\ result' = "undef"
      BY <1>3, <1>4, <1>9, Zenon
    <2>2. Over'
      BY <1>4, <1>6, <1>9, <2>1, Zenon DEF Over
    <2>3. Told'
      BY <1>0, <1>6, <1>9, <2>1, Zenon DEF Told
    <2> QED BY <1>5, <2>2, <2>3, Zenon DEF Ending
  <1> QED BY <1>0, <1>1, <1>7, <1>8, <1>9, Zenon DEF Over

\* The steps of a controller that leave the target not terminated.
LEMMA ControllerEnds ==
  ASSUME NEW c \in Controllers, IInv, Ending, ControllerNext(c), NotTerminated'
  PROVE  Ending'
  <1>0. Unasked /\ Running /\ Exiting /\ Over /\ Told
    BY DEF Ending
  <1>1. CASE Start(c)
    <2>1. tpc = "none" /\ tpc' = "run" /\ threadState' = "RUNNABLE"
      BY <1>1 DEF Start, IInv, Still
    <2> QED BY <1>0, <1>1, <2>1, EndingFrame, Zenon DEF Start, Unasked
  <1>2. CASE CallJoin(c)
    BY <1>0, <1>2, EndingFrame, Zenon DEF CallJoin, vm, Unasked
  <1>3. CASE JoinLook(c)
    <2>1. CASE threadState = "TERMINATED"
      BY <1>3, <2>1, JoinEnds
    <2>2. CASE threadState # "TERMINATED"
      BY <1>0, <1>3, <2>2, EndingFrame, Zenon DEF JoinLook, Unasked
    <2> QED BY <2>1, <2>2
  <1>4. CASE JoinTimeout(c)
    BY <1>0, <1>4, EndingFrame, Zenon DEF JoinTimeout, vm, Unasked
  <1>5. CASE Suspend(c)
    BY <1>0, <1>5, EndingFrame, Zenon DEF Suspend, Unasked
  <1>6. CASE SuspendLook(c)
    BY <1>0, <1>6, EndingFrame, Zenon DEF SuspendLook, vm, Unasked
  <1>7. CASE SuspendTimeout(c)
    BY <1>0, <1>7, EndingFrame, Zenon DEF SuspendTimeout, vm, Unasked
  <1>8. CASE Resume(c)
    BY <1>0, <1>8, EndingFrame, Zenon DEF Resume, WokenTarget, Unasked
  <1>9. CASE Terminate(c)
    <2>1. canceller' = c \/ c \in returned'
      BY <1>9, Zenon DEF Terminate
    <2> QED BY <2>1 DEF NotTerminated
  <1>10. CASE TerminateLook(c)
    BY <1>0, <1>10, EndingFrame, Zenon DEF TerminateLook, vm, Unasked
  <1>11. CASE TerminateTimeout(c)
    <2>1. c \in returned'
      BY <1>11, Zenon DEF TerminateTimeout
    <2> QED BY <2>1 DEF NotTerminated
  <1>12. CASE End(c)
    BY <1>0, <1>12, EndingFrame, Zenon DEF End, vm, Unasked
  <1> QED
    BY <1>1, <1>2, <1>3, <1>4, <1>5, <1>6, <1>7, <1>8, <1>9, <1>10, <1>11, <1>12, Zenon
       DEF ControllerNext

\* Joiners of a thread that ends by itself go on when it executes no more code, and are
\* told how it ended.
THEOREM JoinersAreTold == Spec => []JoinTellsTheEnd
  <1>1. Init => (NotTerminated => Ending)
    BY Zenon DEF Init, Ending, Unasked, Running, Exiting, Over, Told
  <1>2. IInv /\ (NotTerminated => Ending) /\ [Next]_vars => (NotTerminated => Ending)'
    <2> SUFFICES ASSUME IInv, NotTerminated => Ending, [Next]_vars, NotTerminated'
                 PROVE  Ending'
      BY Zenon
    <2>0. Ending
      BY NotTerminatedBefore, Zenon
    <2>1. CASE TargetNext BY <2>0, <2>1, TargetEnds, Zenon
    <2>2. CASE \E c \in Controllers : ControllerNext(c) BY <2>0, <2>2, ControllerEnds, Zenon
    <2>3. CASE UNCHANGED vars
      BY <2>0, <2>3, EndingFrame DEF vars, vm, Ending, Unasked
    <2> QED BY <2>1, <2>2, <2>3, Zenon DEF Next
  <1>3. (NotTerminated => Ending) => JoinTellsTheEnd
    <2> SUFFICES ASSUME NotTerminated, Ending, NEW a \in answers
                 PROVE  /\ tpc \in {"exit", "gone"}
                        /\ \/ a \in {<<"return", "value">>, <<"raise", "uncaught">>, <<"raise", "terminated">>}
                           \/ a = <<"return", "undef">> /\ \E e \in answers : e[1] = "raise"
      BY Zenon DEF JoinTellsTheEnd
    <2>1. tpc = "gone"
      BY Zenon DEF Ending, Running
    <2> QED BY <2>1, Zenon DEF Ending, Told, Raised
  <1> QED BY <1>1, <1>2, <1>3, Inductive, PTL DEF Spec
=============================================================================
