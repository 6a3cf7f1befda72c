-------------------------- MODULE SharedQueueProofs --------------------------
(***************************************************************************)
(* Proofs about SharedQueue, for any number of threads, any values and any *)
(* max-length: its readers are served, as long as no shared-queue-get! has *)
(* timed out, what the operations on the pairs of its list compute, and    *)
(* that the list is a bounded first-in first-out queue, timeouts included. *)
(***************************************************************************)
EXTENDS SharedQueue, InductionLemmas, FiniteSetTheorems, SequenceTheorems, TLAPS

(***************************************************************************)
(* The inductive invariant.  w counts the readers because a thread that    *)
(* has read it holds the mutex until it writes it back; a reader goes to   *)
(* sleep on an empty queue, and the next element finds it counted.         *)
(***************************************************************************)
WaitControl ==
  /\ w \in Int
  /\ lock \in Threads \cup {NoThread}
  /\ pc \in [Threads -> Places]
  /\ reg \in [Threads -> Int]

InCriticalSection == {"gw", "gtest", "gdeq", "user"}

LockHeld == \A t \in Threads : pc[t] \in InCriticalSection <=> lock = t

NobodyTimesOut == timeouts = 0 /\ \A t \in Threads : pc[t] \notin {"gto", "gto2"}

RegisterFresh == \A t \in Threads : pc[t] \in {"gw", "gdeq"} => reg[t] = w

TakerHasElement == \A t \in Threads : pc[t] = "gdeq" => head # Nil

ReadersInv ==
  /\ WaitControl
  /\ LockHeld
  /\ NobodyTimesOut
  /\ RegisterFresh
  /\ TakerHasElement
  /\ ReadersCounted
  /\ NoReaderSleepsOnElement

LEMMA ReadersFinite == IsFiniteSet(Readers) /\ Cardinality(Readers) \in Nat
<1>1. Readers \subseteq Threads
  BY DEF Readers
<1> QED
  BY <1>1, ThreadsAssumption, FS_Subset, FS_CardinalityType

LEMMA ReadersInit == Init => ReadersInv
<1> SUFFICES ASSUME Init PROVE ReadersInv
  OBVIOUS
<1>1. Readers = {}
  BY DEF Init, Readers
<1>2. ReadersCounted
  BY <1>1, FS_EmptySet DEF Init, ReadersCounted
<1> QED
  BY <1>2, NoThreadAssumption
  DEF Init, ReadersInv, WaitControl, LockHeld, NobodyTimesOut, RegisterFresh, TakerHasElement,
      NoReaderSleepsOnElement, Places, InCriticalSection

\* A step that leaves w, the mutex and the registers alone, puts no element into an
\* empty queue, and moves threads only where they are not counted, or from sleep.
LEMMA ReadersStay ==
  ASSUME ReadersInv,
         UNCHANGED <<w, lock, reg, timeouts>>,
         pc' \in [Threads -> Places],
         head' = head \/ (lock = NoThread /\ (head # Nil \/ head' = Nil)),
         \A t \in Threads :
            \/ pc'[t] = pc[t]
            \/ /\ pc[t] \in {"idle", "plock", "pwait"}
               /\ pc'[t] \in {"idle", "glock", "plock", "pwait"}
            \/ pc[t] = "gwait" /\ pc'[t] = "grelock"
  PROVE  ReadersInv'
<1>1. Readers' = Readers
  BY DEF Readers
<1>2. ReadersCounted'
  BY <1>1 DEF ReadersInv, ReadersCounted
<1>3. LockHeld'
  BY DEF ReadersInv, LockHeld, InCriticalSection
<1>4. RegisterFresh' /\ NobodyTimesOut' /\ WaitControl'
  BY DEF ReadersInv, WaitControl, RegisterFresh, NobodyTimesOut
<1>5. TakerHasElement'
  BY NoThreadAssumption DEF ReadersInv, TakerHasElement, LockHeld, InCriticalSection
<1>6. NoReaderSleepsOnElement'
  BY DEF ReadersInv, NoReaderSleepsOnElement
<1> QED
  BY <1>2, <1>3, <1>4, <1>5, <1>6, Zenon DEF ReadersInv

LEMMA ReadersStep ==
  ASSUME timeouts' = 0, ReadersInv, [Next]_vars
  PROVE  ReadersInv'
<1> USE DEF WaitControl
<1>1. WaitControl /\ LockHeld /\ NobodyTimesOut /\ RegisterFresh /\ TakerHasElement
  BY DEF ReadersInv
<1>2. CASE UNCHANGED vars
  <2>1. UNCHANGED <<head, w, lock, reg, timeouts, pc>>
    BY <1>2 DEF vars
  <2> QED
    BY <1>1, <2>1, ReadersStay
<1>3. ASSUME NEW t \in Threads, CallGet(t) \/ CallPut(t) \/ PutWait(t) \/ PutTimeout(t)
      PROVE  ReadersInv'
  <2>1. /\ UNCHANGED <<head, w, lock, reg, timeouts>>
        /\ pc[t] \in {"idle", "plock", "pwait"}
        /\ \E place \in {"idle", "glock", "plock", "pwait"} : pc' = [pc EXCEPT ![t] = place]
    BY <1>3 DEF CallGet, CallPut, PutWait, PutTimeout, Goto, list
  <2>2. pc' \in [Threads -> Places]
    BY <1>1, <2>1 DEF Places
  <2>3. \A u \in Threads : \/ pc'[u] = pc[u]
                           \/ /\ pc[u] \in {"idle", "plock", "pwait"}
                              /\ pc'[u] \in {"idle", "glock", "plock", "pwait"}
    BY <1>1, <2>1
  <2> QED
    BY <2>1, <2>2, <2>3, ReadersStay
<1>4. ASSUME NEW t \in Threads, SpuriousWakeup(t) PROVE ReadersInv'
  <2>1. /\ UNCHANGED <<head, w, lock, reg, timeouts>>
        /\ \/ pc[t] = "gwait" /\ pc' = [pc EXCEPT ![t] = "grelock"]
           \/ pc[t] = "pwait" /\ pc' = [pc EXCEPT ![t] = "plock"]
    BY <1>4 DEF SpuriousWakeup, Goto, list
  <2>2. pc' \in [Threads -> Places]
    BY <1>1, <2>1 DEF Places
  <2>3. \A u \in Threads : \/ pc'[u] = pc[u]
                           \/ pc[u] = "pwait" /\ pc'[u] = "plock"
                           \/ pc[u] = "gwait" /\ pc'[u] = "grelock"
    BY <1>1, <2>1
  <2> QED
    BY <2>1, <2>2, <2>3, ReadersStay
<1>5. ASSUME NEW t \in Threads, NEW o \in Values, Remove(t, o) PROVE ReadersInv'
  <2>1. lock = NoThread /\ head # Nil /\ UNCHANGED <<w, lock, reg, timeouts, pc>>
    BY <1>5 DEF Remove
  <2> QED
    BY <1>1, <2>1, ReadersStay, SMTT(30)
<1>6. ASSUME NEW t \in Threads, Clear(t) PROVE ReadersInv'
  BY <1>1, <1>6, ReadersStay DEF Clear
<1>7. ASSUME NEW t \in Threads, GetTimeout(t) \/ GetTimeoutRead(t) \/ GetTimeoutWrite(t)
      PROVE  FALSE
  BY <1>1, <1>7 DEF GetTimeout, GetTimeoutRead, GetTimeoutWrite, NobodyTimesOut
<1>8. ASSUME NEW t \in Threads, GetLock(t) PROVE ReadersInv'
  <2>1. /\ pc[t] = "glock" /\ lock = NoThread /\ lock' = t
        /\ reg' = [reg EXCEPT ![t] = w]
        /\ pc' = [pc EXCEPT ![t] = "gw"]
        /\ UNCHANGED <<head, w, timeouts>>
    BY <1>8 DEF GetLock, Goto, list
  <2>2. Readers' = Readers
    BY <1>1, <2>1 DEF Readers
  <2>3. WaitControl' /\ LockHeld' /\ NobodyTimesOut' /\ RegisterFresh' /\ TakerHasElement'
    BY <1>1, <2>1, NoThreadAssumption
    DEF LockHeld, NobodyTimesOut, RegisterFresh, TakerHasElement, InCriticalSection, Places
  <2> QED
    BY <1>1, <2>1, <2>2, <2>3 DEF ReadersInv, ReadersCounted, NoReaderSleepsOnElement
<1>9. ASSUME NEW t \in Threads, GetAnnounce(t) PROVE ReadersInv'
  <2>1. /\ pc[t] = "gw" /\ w' = reg[t] + 1
        /\ pc' = [u \in Threads |-> IF u = t THEN "gtest"
                                    ELSE IF pc[u] = "pwait" THEN "plock" ELSE pc[u]]
        /\ reg' = [reg EXCEPT ![t] = 0]
        /\ UNCHANGED <<head, lock, timeouts>>
    BY <1>9 DEF GetAnnounce, BroadcastAndGoto, list
  <2>2. Readers' = Readers \cup {t} /\ t \notin Readers
    BY <1>1, <2>1 DEF Readers
  <2>3. ReadersCounted'
    BY <1>1, <2>1, <2>2, ReadersFinite, FS_AddElement, ZenonT(30) DEF ReadersInv, ReadersCounted, RegisterFresh
  <2>4. WaitControl' /\ LockHeld' /\ NobodyTimesOut'
    BY <1>1, <2>1 DEF LockHeld, NobodyTimesOut, InCriticalSection, Places
  <2>5. RegisterFresh' /\ TakerHasElement'
    BY <1>1, <2>1 DEF LockHeld, RegisterFresh, TakerHasElement, InCriticalSection
  <2> QED
    BY <1>1, <2>1, <2>3, <2>4, <2>5, SMTT(30) DEF ReadersInv, NoReaderSleepsOnElement
<1>10. ASSUME NEW t \in Threads, GetTest(t) PROVE ReadersInv'
  <2>1. CASE head = Nil
    <3>1. /\ pc[t] = "gtest" /\ pc' = [pc EXCEPT ![t] = "gwait"] /\ lock' = NoThread
          /\ UNCHANGED <<reg, head, w, timeouts>>
      BY <1>10, <2>1 DEF GetTest, Goto, list
    <3>2. Readers' = Readers
      BY <1>1, <3>1 DEF Readers
    <3>3. WaitControl' /\ LockHeld' /\ NobodyTimesOut' /\ RegisterFresh' /\ TakerHasElement'
      BY <1>1, <3>1, NoThreadAssumption
      DEF LockHeld, NobodyTimesOut, RegisterFresh, TakerHasElement, InCriticalSection, Places
    <3> QED
      BY <2>1, <3>1, <3>2, <3>3 DEF ReadersInv, ReadersCounted, NoReaderSleepsOnElement
  <2>2. CASE head # Nil
    <3>1. /\ pc[t] = "gtest" /\ pc' = [pc EXCEPT ![t] = "gdeq"]
          /\ reg' = [reg EXCEPT ![t] = w]
          /\ UNCHANGED <<lock, head, w, timeouts>>
      BY <1>10, <2>2 DEF GetTest, Goto, list
    <3>2. Readers' = Readers
      BY <1>1, <3>1 DEF Readers
    <3>3. WaitControl' /\ LockHeld' /\ NobodyTimesOut' /\ RegisterFresh' /\ TakerHasElement'
      BY <1>1, <2>2, <3>1, SMTT(30)
      DEF LockHeld, NobodyTimesOut, RegisterFresh, TakerHasElement, InCriticalSection, Places
    <3> QED
      BY <1>1, <3>1, <3>2, <3>3 DEF ReadersInv, ReadersCounted, NoReaderSleepsOnElement
  <2> QED
    BY <2>1, <2>2
<1>11. ASSUME NEW t \in Threads, GetRelock(t) PROVE ReadersInv'
  <2>1. /\ pc[t] = "grelock" /\ lock = NoThread /\ lock' = t
        /\ pc' = [pc EXCEPT ![t] = "gtest"]
        /\ UNCHANGED <<reg, head, w, timeouts>>
    BY <1>11 DEF GetRelock, Goto, list
  <2>2. Readers' = Readers
    BY <1>1, <2>1 DEF Readers
  <2>3. WaitControl' /\ LockHeld' /\ NobodyTimesOut' /\ RegisterFresh' /\ TakerHasElement'
    BY <1>1, <2>1, NoThreadAssumption
    DEF LockHeld, NobodyTimesOut, RegisterFresh, TakerHasElement, InCriticalSection, Places
  <2> QED
    BY <1>1, <2>1, <2>2, <2>3, SMTT(30) DEF ReadersInv, ReadersCounted, NoReaderSleepsOnElement
<1>12. ASSUME NEW t \in Threads, GetTake(t) PROVE ReadersInv'
  <2>1. /\ pc[t] = "gdeq" /\ w' = reg[t] - 1 /\ lock' = NoThread
        /\ reg' = [reg EXCEPT ![t] = 0]
        /\ pc' = [pc EXCEPT ![t] = "idle"]
        /\ UNCHANGED timeouts
    BY <1>12 DEF GetTake, Goto
  <2>2. Readers' = Readers \ {t} /\ t \in Readers
    BY <1>1, <2>1, SMTT(30) DEF Readers
  <2>3. ReadersCounted'
    BY <1>1, <2>1, <2>2, ReadersFinite, FS_RemoveElement, ZenonT(30) DEF ReadersInv, ReadersCounted,
        RegisterFresh
  <2>4. WaitControl' /\ LockHeld' /\ NobodyTimesOut'
    BY <1>1, <2>1, NoThreadAssumption DEF LockHeld, NobodyTimesOut, InCriticalSection, Places
  <2>5. RegisterFresh' /\ TakerHasElement'
    BY <1>1, <2>1 DEF LockHeld, RegisterFresh, TakerHasElement, InCriticalSection
  <2>6. NoReaderSleepsOnElement'
    BY <1>1, <2>1 DEF ReadersInv, TakerHasElement, NoReaderSleepsOnElement
  <2> QED
    BY <2>3, <2>4, <2>5, <2>6, SMTT(30) DEF ReadersInv
<1>13. ASSUME NEW t \in Threads, NEW v \in Values, Put(t, v) PROVE ReadersInv'
  <2>1. /\ pc[t] = "plock" /\ lock = NoThread /\ UNCHANGED <<w, lock, reg, timeouts>>
        /\ WakeReaders(t)
    BY <1>13 DEF Put
  <2>2. pc' \in [Threads -> Places]
    BY <1>1, <2>1 DEF WakeReaders, BroadcastAndGoto, Goto, Places
  \* Were a reader asleep, it would be counted and so w would be positive.
  <2>3. \A u \in Threads : pc'[u] # "gwait"
    <3>1. CASE w > 0
      BY <2>1, <3>1 DEF WakeReaders, BroadcastAndGoto
    <3>2. CASE ~(w > 0)
      <4>1. Readers = {}
        BY <1>1, <3>2, ReadersFinite, FS_EmptySet DEF ReadersInv, ReadersCounted
      <4> QED
        BY <1>1, <2>1, <3>2, <4>1 DEF WakeReaders, Goto, Readers
    <3> QED
      BY <3>1, <3>2
  <2>4. \A u \in Threads : \/ pc'[u] = pc[u]
                           \/ pc[u] = "plock" /\ pc'[u] = "idle"
                           \/ pc[u] = "gwait" /\ pc'[u] = "grelock"
    BY <1>1, <2>1 DEF WakeReaders, BroadcastAndGoto, Goto
  <2>5. Readers' = Readers
    BY <2>4 DEF Readers
  <2>6. WaitControl' /\ LockHeld' /\ NobodyTimesOut' /\ RegisterFresh'
    BY <1>1, <2>1, <2>2, <2>4, SMTT(30) DEF LockHeld, NobodyTimesOut, RegisterFresh, InCriticalSection
  <2>7. TakerHasElement'
    BY <2>1, <2>6, NoThreadAssumption, SMTT(30) DEF LockHeld, TakerHasElement, InCriticalSection
  <2> QED
    BY <2>1, <2>3, <2>5, <2>6, <2>7 DEF ReadersInv, ReadersCounted, NoReaderSleepsOnElement
<1>14. ASSUME NEW t \in Threads, UserLock(t) PROVE ReadersInv'
  <2>1. /\ pc[t] = "idle" /\ lock = NoThread /\ lock' = t
        /\ pc' = [pc EXCEPT ![t] = "user"]
        /\ UNCHANGED <<reg, head, w, timeouts>>
    BY <1>14 DEF UserLock, Goto, list
  <2>2. Readers' = Readers
    BY <1>1, <2>1 DEF Readers
  <2>3. WaitControl' /\ LockHeld' /\ NobodyTimesOut' /\ RegisterFresh' /\ TakerHasElement'
    BY <1>1, <2>1, NoThreadAssumption, SMTT(30)
    DEF LockHeld, NobodyTimesOut, RegisterFresh, TakerHasElement, InCriticalSection, Places
  <2> QED
    BY <1>1, <2>1, <2>2, <2>3 DEF ReadersInv, ReadersCounted, NoReaderSleepsOnElement
<1>15. ASSUME NEW t \in Threads, UserUnlock(t) PROVE ReadersInv'
  <2>1. /\ pc[t] = "user" /\ lock' = NoThread
        /\ pc' = [pc EXCEPT ![t] = "idle"]
        /\ UNCHANGED <<reg, head, w, timeouts>>
    BY <1>15 DEF UserUnlock, Goto, list
  <2>2. Readers' = Readers
    BY <1>1, <2>1 DEF Readers
  <2>3. WaitControl' /\ LockHeld' /\ NobodyTimesOut' /\ RegisterFresh' /\ TakerHasElement'
    BY <1>1, <2>1, NoThreadAssumption
    DEF LockHeld, NobodyTimesOut, RegisterFresh, TakerHasElement, InCriticalSection, Places
  <2> QED
    BY <1>1, <2>1, <2>2, <2>3, Zenon DEF ReadersInv, ReadersCounted, NoReaderSleepsOnElement
<1> QED
  BY <1>2, <1>3, <1>4, <1>5, <1>6, <1>7, <1>8, <1>9, <1>10, <1>11, <1>12, <1>13, <1>14, <1>15, SMTT(30)
  DEF Next, Continue

\* Timeouts are counted up from 0.
LEMMA TimeoutsGrow ==
  ASSUME timeouts \in Nat, [Next]_vars
  PROVE  timeouts' \in Nat /\ (timeouts' = 0 => timeouts = 0)
<1>1. CASE UNCHANGED timeouts
  BY <1>1
<1>2. ASSUME NEW t \in Threads, GetTimeout(t) PROVE timeouts' = timeouts + 1
  BY <1>2 DEF GetTimeout
<1>3. CASE \E t \in Threads : GetTimeout(t)
  BY <1>2, <1>3, SMTT(30)
<1>4. UNCHANGED timeouts \/ \E t \in Threads : GetTimeout(t)
  BY Zenon DEF vars, Next, Continue, CallGet, GetLock, GetAnnounce, GetTest, GetRelock, GetTake,
     GetTimeoutRead, GetTimeoutWrite, CallPut, PutWait, Put, PutTimeout, Remove, Clear, UserLock,
     UserUnlock, SpuriousWakeup
<1> QED
  BY <1>1, <1>3, <1>4

\* Until a shared-queue-get! times out, w is the number of threads inside it and none
\* of them sleeps while the queue has an element, whatever other operations run.
THEOREM ReadersAreServed == Spec => []ReadersServed
<1> DEFINE IInv == timeouts \in Nat /\ (timeouts = 0 => ReadersInv)
<1>1. Init => IInv
  BY ReadersInit DEF Init
<1>2. IInv /\ [Next]_vars => IInv'
  BY ReadersStep, TimeoutsGrow
<1>3. IInv => ReadersServed
  BY DEF ReadersInv, ReadersServed
<1> QED
  BY <1>1, <1>2, <1>3, PTL DEF Spec

(***************************************************************************)
(* The pairs of a list.  A pair is linked to a later one, since pairs are  *)
(* numbered as they are put.                                               *)
(***************************************************************************)
Linked(n, next) ==
  /\ next \in [1..n -> 1..n \cup {Nil}]
  /\ \A c \in 1..n : next[c] # Nil => c < next[c]

\* q is the list of pairs from h on.
Path(q, n, next, h) ==
  /\ q \in Seq(1..n)
  /\ h = IF q = <<>> THEN Nil ELSE q[1]
  /\ \A i \in 1..Len(q) : next[q[i]] = IF i = Len(q) THEN Nil ELSE q[i + 1]
  /\ \A i, j \in 1..Len(q) : i < j => q[i] < q[j]

\* Chain, FirstEqual and Before as functions of what they look at.
ChainFrom(n, next, h) ==
  LET from[c \in 1..n \cup {Nil}] == IF c = Nil THEN <<>> ELSE <<c>> \o from[next[c]]
  IN  from[h]

FirstFrom(n, obj, next, p, o) ==
  LET find[c \in 1..n \cup {Nil}] == IF c = Nil \/ obj[c] = o THEN c ELSE find[next[c]]
  IN  find[p]

BeforeFrom(n, next, h, p) ==
  LET find[c \in 1..n] == IF next[c] \in {p, Nil} THEN c ELSE find[next[c]]
  IN  find[h]

LEMMA Operators ==
  /\ Chain = ChainFrom(Len(car), cdr, head)
  /\ \A p, o : FirstEqual(p, o) = FirstFrom(Len(car), car, cdr, p, o)
  /\ \A p : Before(p) = BeforeFrom(Len(car), cdr, head, p)
  /\ Chain' = ChainFrom(Len(car)', cdr', head')
BY DEF Chain, FirstEqual, Before, ChainFrom, FirstFrom, BeforeFrom, Pairs

\* The recursion Chain is defined by has a solution.
LEMMA ChainEquation ==
  ASSUME NEW n \in Nat, NEW next, Linked(n, next)
  PROVE  \E f : f = [c \in 1..n \cup {Nil} |-> IF c = Nil THEN <<>> ELSE <<c>> \o f[next[c]]]
<1> DEFINE D == 1..n \cup {Nil}
           T == Seq(D)
           Stop == {Nil}
           base == [c \in D |-> <<>>]
           g == [x \in D \X T |-> <<x[1]>> \o x[2]]
<1>1. base \in [D -> T] /\ g \in [D \X T -> T]
  <2>1. <<>> \in T
    OBVIOUS
  <2>2. \A x \in D \X T : <<x[1]>> \o x[2] \in T
    <3> SUFFICES ASSUME NEW c \in D, NEW r \in T PROVE <<c>> \o r \in T
      OBVIOUS
    <3> QED
      OBVIOUS
  <2> HIDE DEF T
  <2> QED
    BY <2>1, <2>2, Zenon
<1>2. Advances(n, D, Stop, next)
  BY DEF Linked, Advances
<1>3. PICK f \in [D -> T] : Solves(f, D, Stop, base, next, g)
  <2> HIDE DEF D, T, Stop, base, g
  <2> QED
    BY <1>1, <1>2, Recursion, Zenon
<1>4. f = [c \in D |-> IF c = Nil THEN <<>> ELSE <<c>> \o f[next[c]]]
  <2> SUFFICES ASSUME NEW c \in D PROVE f[c] = IF c = Nil THEN <<>> ELSE <<c>> \o f[next[c]]
    BY Zenon
  <2>1. CASE c = Nil
    BY <1>3, <2>1, Zenon DEF Solves
  <2>2. CASE c # Nil
    <3>1. <<c, f[next[c]]>> \in D \X T
      BY <1>2, <2>2, Zenon DEF Advances
    <3>2. g[<<c, f[next[c]]>>] = <<c>> \o f[next[c]]
      BY <3>1
    <3> QED
      BY <1>3, <2>2, <3>2, Zenon DEF Solves
  <2> QED
    BY <2>1, <2>2
<1> QED
  BY <1>4, Zenon

\* Chain is the path from the head.
LEMMA ChainIsPath ==
  ASSUME NEW n \in Nat, NEW next, Linked(n, next), NEW h, NEW q, Path(q, n, next, h)
  PROVE  ChainFrom(n, next, h) = q
<1> DEFINE D == 1..n \cup {Nil}
           from[c \in D] == IF c = Nil THEN <<>> ELSE <<c>> \o from[next[c]]
<1>1. from = [c \in D |-> IF c = Nil THEN <<>> ELSE <<c>> \o from[next[c]]]
  BY ChainEquation, Zenon
<1>2. ChainFrom(n, next, h) = from[h]
  BY Zenon DEF ChainFrom
<1> HIDE DEF from
<1>3. Nil \in D /\ \A c \in 1..n : c \in D /\ c # Nil
  BY NilAssumption
<1>4. from[Nil] = <<>> /\ \A c \in 1..n : from[c] = <<c>> \o from[next[c]]
  BY <1>1, <1>3, Zenon
<1>5. /\ q \in Seq(1..n) /\ Len(q) \in Nat
      /\ h = IF q = <<>> THEN Nil ELSE q[1]
      /\ \A i \in 1..Len(q) : next[q[i]] = IF i = Len(q) THEN Nil ELSE q[i + 1]
      /\ \A i \in 1..Len(q) : q[i] \in 1..n
  BY DEF Path
<1>6. CASE q = <<>>
  BY <1>2, <1>4, <1>5, <1>6, Zenon
<1>7. CASE q # <<>>
  <2> DEFINE S == {i \in 1..Len(q) : from[q[i]] = SubSeq(q, i, Len(q))}
  <2>0. Len(q) \in 1..Len(q)
    BY <1>5, <1>7
  <2>1. ASSUME NEW i \in 1..Len(q) PROVE SubSeq(q, i, Len(q)) = <<q[i]>> \o SubSeq(q, i + 1, Len(q))
    BY <1>5, SubSeqRecursiveFirst
  <2>2. Len(q) \in S
    <3>1. from[q[Len(q)]] = <<q[Len(q)]>> \o <<>>
      BY <1>4, <1>5, <2>0, Zenon
    <3>2. SubSeq(q, Len(q) + 1, Len(q)) = <<>>
      BY <1>5, SubSeqEmpty
    <3> QED
      BY <2>0, <2>1, <3>1, <3>2, Zenon
  <2>3. ASSUME NEW i \in 1..(Len(q) - 1), i + 1 \in S PROVE i \in S
    <3>1. i \in 1..Len(q) /\ i # Len(q)
      BY <1>5
    <3>2. from[q[i]] = <<q[i]>> \o from[q[i + 1]]
      BY <1>4, <1>5, <3>1, Zenon
    <3> QED
      BY <2>1, <2>3, <3>1, <3>2, Zenon
  <2>4. 1..Len(q) \subseteq S
    <3> HIDE DEF S
    <3> QED
      BY <1>5, <2>2, <2>3, DownwardInduction, Zenon
  <2>5. from[q[1]] = SubSeq(q, 1, Len(q))
    <3>1. 1 \in 1..Len(q)
      BY <2>0
    <3> QED
      BY <2>4, <3>1, Zenon
  <2>6. SubSeq(q, 1, Len(q)) = q
    BY <1>5, SubSeqFull
  <2> QED
    BY <1>2, <1>5, <1>7, <2>5, <2>6, Zenon
<1> QED
  BY <1>6, <1>7, Zenon

Searches(f, D, Stop, next) == f = [c \in D |-> IF c \in Stop THEN c ELSE f[next[c]]]

\* The recursion of a search along the pairs has a solution.
LEMMA FindEquation ==
  ASSUME NEW n \in Nat, NEW D, NEW Stop, NEW next, Advances(n, D, Stop, next)
  PROVE  \E f : Searches(f, D, Stop, next)
<1> DEFINE base == [c \in D |-> c]
           g == [x \in D \X D |-> x[2]]
<1>1. base \in [D -> D] /\ g \in [D \X D -> D]
  <2>1. \A x \in D \X D : x[2] \in D
    OBVIOUS
  <2> QED
    BY <2>1, Zenon
<1>2. PICK f \in [D -> D] : Solves(f, D, Stop, base, next, g)
  <2> HIDE DEF base, g
  <2> QED
    BY <1>1, Recursion, Zenon
<1>3. ASSUME NEW c \in D PROVE f[c] = IF c \in Stop THEN c ELSE f[next[c]]
  <2>1. CASE c \in Stop
    BY <1>2, <2>1, Zenon DEF Solves
  <2>2. CASE c \notin Stop
    <3>1. <<c, f[next[c]]>> \in D \X D /\ <<c, f[next[c]]>>[2] = f[next[c]]
      BY <2>2 DEF Advances
    <3>2. g[<<c, f[next[c]]>>] = f[next[c]]
      BY <3>1, Zenon
    <3> QED
      BY <1>2, <2>2, <3>2, Zenon DEF Solves
  <2> QED
    BY <2>1, <2>2, Zenon
<1>4. Searches(f, D, Stop, next)
  BY <1>2, <1>3, Zenon DEF Searches
<1> QED
  BY <1>4, Zenon

\* Before finds the pair before one that is not the first.
LEMMA BeforeIsOnPath ==
  ASSUME NEW n \in Nat, NEW next, Linked(n, next), NEW h, NEW q, Path(q, n, next, h),
         NEW j \in 2..Len(q)
  PROVE  BeforeFrom(n, next, h, q[j]) = q[j - 1]
<1> DEFINE D == 1..n
           p == q[j]
           Stop == {c \in D : next[c] \in {p, Nil}}
           find[c \in D] == IF next[c] \in {p, Nil} THEN c ELSE find[next[c]]
<1>0. Advances(n, D, Stop, next)
  BY DEF Linked, Advances
<1>1. find = [c \in D |-> IF next[c] \in {p, Nil} THEN c ELSE find[next[c]]]
  <2>1. PICK f : Searches(f, D, Stop, next)
    <3> HIDE DEF D, Stop
    <3> QED
      BY <1>0, FindEquation, Zenon
  <2>2. f = [c \in D |-> IF next[c] \in {p, Nil} THEN c ELSE f[next[c]]]
    BY <2>1, Zenon DEF Searches
  <2> QED
    BY <2>2, Zenon
<1>2. BeforeFrom(n, next, h, p) = find[h]
  BY Zenon DEF BeforeFrom
<1> HIDE DEF find
<1>3. /\ q \in Seq(1..n) /\ Len(q) \in Nat
      /\ h = IF q = <<>> THEN Nil ELSE q[1]
      /\ \A i \in 1..Len(q) : next[q[i]] = IF i = Len(q) THEN Nil ELSE q[i + 1]
      /\ \A i \in 1..Len(q) : q[i] \in D
      /\ \A i, k \in 1..Len(q) : i < k => q[i] < q[k]
  BY DEF Path
<1>4. j - 1 \in Nat /\ j - 1 \in 1..Len(q) /\ j \in 1..Len(q) /\ j - 1 # Len(q) /\ (j - 1) + 1 = j
  BY <1>3
<1> DEFINE S == {i \in 1..(j - 1) : find[q[i]] = q[j - 1]}
<1>5. j - 1 \in S
  <2>1. next[q[j - 1]] = p
    BY <1>3, <1>4, Zenon
  <2>2. find[q[j - 1]] = q[j - 1]
    BY <1>1, <1>3, <1>4, <2>1, Zenon
  <2>3. j - 1 \in 1..(j - 1)
    BY <1>4
  <2> QED
    BY <2>2, <2>3, Zenon
<1>6. ASSUME NEW i \in 1..((j - 1) - 1), i + 1 \in S PROVE i \in S
  <2>1. i \in 1..(j - 1) /\ i \in 1..Len(q) /\ i + 1 \in 1..Len(q) /\ i # Len(q) /\ i + 1 < j
    BY <1>3, <1>4
  <2>2. next[q[i]] = q[i + 1]
    BY <1>3, <2>1, Zenon
  <2>3. q[i + 1] \in 1..n /\ q[i + 1] < q[j] /\ q[j] \in 1..n
    BY <1>3, <1>4, <2>1, Zenon
  <2>4. q[i + 1] \notin {p, Nil}
    BY <2>3, NilAssumption
  <2>5. find[q[i]] = find[q[i + 1]]
    BY <1>1, <1>3, <2>1, <2>2, <2>4, Zenon
  <2> QED
    BY <1>6, <2>1, <2>5, Zenon
<1>7. 1..(j - 1) \subseteq S
  <2> HIDE DEF S
  <2> QED
    BY <1>4, <1>5, <1>6, DownwardInduction, Zenon
<1>8. 1 \in 1..(j - 1) /\ q # <<>>
  BY <1>3
<1> QED
  BY <1>2, <1>3, <1>7, <1>8, Zenon

\* FirstEqual finds nothing, or a pair of the list with the object.
LEMMA FirstIsOnPath ==
  ASSUME NEW n \in Nat, NEW next, Linked(n, next), NEW h, NEW q, Path(q, n, next, h), q # <<>>,
         NEW obj, NEW o, FirstFrom(n, obj, next, h, o) # Nil
  PROVE  \E j \in 1..Len(q) : FirstFrom(n, obj, next, h, o) = q[j] /\ obj[q[j]] = o
<1> DEFINE D == 1..n \cup {Nil}
           Stop == {c \in D : c = Nil \/ obj[c] = o}
           find[c \in D] == IF c = Nil \/ obj[c] = o THEN c ELSE find[next[c]]
<1>0. Advances(n, D, Stop, next)
  BY DEF Linked, Advances
<1>1. find = [c \in D |-> IF c = Nil \/ obj[c] = o THEN c ELSE find[next[c]]]
  <2>1. PICK f : Searches(f, D, Stop, next)
    <3> HIDE DEF D, Stop
    <3> QED
      BY <1>0, FindEquation, Zenon
  <2>2. f = [c \in D |-> IF c = Nil \/ obj[c] = o THEN c ELSE f[next[c]]]
    BY <2>1, Zenon DEF Searches
  <2> QED
    BY <2>2, Zenon
<1>2. FirstFrom(n, obj, next, h, o) = find[h]
  BY Zenon DEF FirstFrom
<1> HIDE DEF find
<1>3. /\ q \in Seq(1..n) /\ Len(q) \in Nat
      /\ h = IF q = <<>> THEN Nil ELSE q[1]
      /\ \A i \in 1..Len(q) : next[q[i]] = IF i = Len(q) THEN Nil ELSE q[i + 1]
      /\ \A i \in 1..Len(q) : q[i] \in D /\ q[i] # Nil
  BY NilAssumption DEF Path
<1>4. find[Nil] = Nil
  BY <1>1, Zenon
<1> DEFINE Found(c) == find[c] = Nil \/ \E j \in 1..Len(q) : find[c] = q[j] /\ obj[q[j]] = o
           S == {i \in 1..Len(q) : Found(q[i])}
<1>5. ASSUME NEW i \in 1..Len(q), Found(next[q[i]]) PROVE Found(q[i])
  <2>1. CASE obj[q[i]] = o
    BY <1>1, <1>3, <2>1, Zenon
  <2>2. CASE obj[q[i]] # o
    <3>1. find[q[i]] = find[next[q[i]]]
      BY <1>1, <1>3, <2>2, Zenon
    <3> QED
      BY <1>5, <3>1, Zenon
  <2> QED
    BY <2>1, <2>2, Zenon
<1>6. Len(q) \in 1..Len(q) /\ 1 \in 1..Len(q)
  BY <1>3
<1>7. Len(q) \in S
  BY <1>3, <1>4, <1>5, <1>6, Zenon
<1>8. ASSUME NEW i \in 1..(Len(q) - 1), i + 1 \in S PROVE i \in S
  <2>1. i \in 1..Len(q) /\ i # Len(q)
    BY <1>3
  <2>2. next[q[i]] = q[i + 1]
    BY <1>3, <2>1, Zenon
  <2> QED
    BY <1>5, <1>8, <2>1, <2>2, Zenon
<1>9. 1..Len(q) \subseteq S
  <2> HIDE DEF S
  <2> QED
    BY <1>3, <1>7, <1>8, DownwardInduction, Zenon
<1>10. Found(h)
  BY <1>3, <1>6, <1>9, Zenon
<1> QED
  BY <1>2, <1>10, Zenon

(***************************************************************************)
(* What the operations do to a list.                                       *)
(***************************************************************************)
LEMMA FunctionIsSeq ==
  ASSUME NEW n \in Nat, NEW S, NEW f \in [1..n -> S]
  PROVE  f \in Seq(S) /\ Len(f) = n
<1>1. f \in Seq(S)
  BY SeqDef, Zenon
<1>2. DOMAIN f = 1..n /\ DOMAIN f = 1..Len(f) /\ Len(f) \in Nat
  BY <1>1, LenProperties, Zenon
<1> QED
  BY <1>1, <1>2

\* The sequence without its j-th element.
Without(q, j) == [i \in 1..(Len(q) - 1) |-> IF i < j THEN q[i] ELSE q[i + 1]]

LEMMA WithoutIsSeq ==
  ASSUME NEW S, NEW q \in Seq(S), NEW j \in 1..Len(q)
  PROVE  Without(q, j) \in Seq(S) /\ Len(Without(q, j)) = Len(q) - 1
<1>1. Len(q) - 1 \in Nat
  OBVIOUS
<1>2. \A i \in 1..(Len(q) - 1) : q[i] \in S /\ q[i + 1] \in S
  OBVIOUS
<1>3. Without(q, j) \in [1..(Len(q) - 1) -> S]
  BY <1>2, Zenon DEF Without
<1> QED
  BY <1>1, <1>3, FunctionIsSeq, Zenon

\* Tail and the two halves around an element, as AbstractQueue has them.
LEMMA WithoutIsTail ==
  ASSUME NEW S, NEW q \in Seq(S), q # <<>>
  PROVE  Tail(q) = Without(q, 1)
<1>1. /\ 1 \in 1..Len(q)
      /\ Tail(q) \in Seq(S) /\ Len(Tail(q)) = Len(q) - 1
      /\ \A i \in 1..Len(Tail(q)) : Tail(q)[i] = q[i + 1]
  BY HeadTailProperties
<1>2. Without(q, 1) \in Seq(S) /\ Len(Without(q, 1)) = Len(q) - 1
  BY <1>1, WithoutIsSeq, Zenon
<1>3. \A i \in 1..Len(Tail(q)) : Tail(q)[i] = Without(q, 1)[i]
  BY <1>1 DEF Without
<1> QED
  BY <1>1, <1>2, <1>3, SeqEqual, Zenon

LEMMA WithoutIsHalves ==
  ASSUME NEW S, NEW q \in Seq(S), NEW j \in 1..Len(q)
  PROVE  SubSeq(q, 1, j - 1) \o SubSeq(q, j + 1, Len(q)) = Without(q, j)
<1> DEFINE a == SubSeq(q, 1, j - 1)
           b == SubSeq(q, j + 1, Len(q))
<1>0. Len(q) \in Nat /\ j \in Int /\ 1 <= j /\ j <= Len(q)
  OBVIOUS
<1>1. a \in Seq(S) /\ Len(a) = j - 1 /\ \A i \in 1..(j - 1) : a[i] = q[i]
  BY <1>0
<1>2. b \in Seq(S) /\ Len(b) = Len(q) - j /\ \A i \in 1..(Len(q) - j) : b[i] = q[j + i]
  BY <1>0
<1> HIDE DEF a, b
<1>3. /\ a \o b \in Seq(S) /\ Len(a \o b) = Len(a) + Len(b)
      /\ \A i \in 1..(Len(a) + Len(b)) : (a \o b)[i] = IF i <= Len(a) THEN a[i] ELSE b[i - Len(a)]
  BY <1>1, <1>2, ConcatProperties, Zenon
<1>4. Len(a) + Len(b) = Len(q) - 1
  BY <1>0, <1>1, <1>2
<1>5. ASSUME NEW i \in 1..(Len(q) - 1) PROVE (a \o b)[i] = Without(q, j)[i]
  <2>1. (a \o b)[i] = IF i <= Len(a) THEN a[i] ELSE b[i - Len(a)]
    BY <1>3, <1>4, Zenon
  <2>2. Without(q, j)[i] = IF i < j THEN q[i] ELSE q[i + 1]
    BY Zenon DEF Without
  <2>3. CASE i < j
    BY <1>0, <1>1, <2>1, <2>2, <2>3
  <2>4. CASE ~(i < j)
    <3>1. i - (j - 1) \in 1..(Len(q) - j) /\ ~(i <= j - 1) /\ j + (i - (j - 1)) = i + 1
      BY <1>0, <2>4
    <3>2. b[i - (j - 1)] = q[j + (i - (j - 1))]
      BY <1>2, <3>1, Zenon
    <3> QED
      BY <1>1, <2>1, <2>2, <2>4, <3>1, <3>2, Zenon
  <2> QED
    BY <2>3, <2>4, Zenon
<1>6. Without(q, j) \in Seq(S) /\ Len(a \o b) = Len(Without(q, j)) /\ Len(a \o b) = Len(q) - 1
  BY <1>3, <1>4, WithoutIsSeq, Zenon
<1>7. \A i \in 1..Len(a \o b) : (a \o b)[i] = Without(q, j)[i]
  BY <1>5, <1>6, Zenon
<1>8. a \o b = Without(q, j)
  BY <1>3, <1>6, <1>7, SeqEqual, Zenon
<1> QED
  BY <1>8, Zenon DEF a, b

LEMMA EmptyLength ==
  ASSUME NEW S, NEW q \in Seq(S)
  PROVE  Len(q) \in Nat /\ (q = <<>> <=> Len(q) = 0)
OBVIOUS

Last(q) == IF q = <<>> THEN Nil ELSE q[Len(q)]

LEMMA LastOfAppend ==
  ASSUME NEW S, NEW q \in Seq(S), NEW e \in S
  PROVE  Len(Append(q, e)) = Len(q) + 1 /\ Last(Append(q, e)) = e
<1>1. Append(q, e) # <<>> /\ Len(Append(q, e)) = Len(q) + 1 /\ Append(q, e)[Len(q) + 1] = e
  BY AppendProperties
<1> QED
  BY <1>1, Zenon DEF Last

\* Taking the first pair off.
LEMMA PathTail ==
  ASSUME NEW n \in Nat, NEW next, NEW h, NEW q, Path(q, n, next, h), q # <<>>
  PROVE  /\ Path(Without(q, 1), n, next, next[h])
         /\ Last(Without(q, 1)) = IF next[h] = Nil THEN Nil ELSE Last(q)
<1> DEFINE r == Without(q, 1)
<1>0. q \in Seq(1..n) /\ Len(q) \in Nat /\ 1 \in 1..Len(q)
  <2>1. q \in Seq(1..n)
    BY Zenon DEF Path
  <2>2. Len(q) \in Nat /\ Len(q) # 0
    BY <2>1, EmptyLength, Zenon
  <2> QED
    BY <2>1, <2>2
<1>1. /\ h = q[1]
      /\ \A i \in 1..Len(q) : next[q[i]] = IF i = Len(q) THEN Nil ELSE q[i + 1]
      /\ \A i, j \in 1..Len(q) : i < j => q[i] < q[j]
  BY Zenon DEF Path
<1>2. r \in Seq(1..n) /\ Len(r) = Len(q) - 1
  BY <1>0, WithoutIsSeq, Zenon
<1> HIDE DEF r
<1>3. ASSUME NEW i \in 1..Len(r)
      PROVE  r[i] = q[i + 1] /\ i + 1 \in 1..Len(q) /\ (i + 1 = Len(q) <=> i = Len(r))
  <2>1. i \in 1..(Len(q) - 1) /\ ~(i < 1) /\ i + 1 \in 1..Len(q) /\ (i + 1 = Len(q) <=> i = Len(r))
    BY <1>0, <1>2
  <2> QED
    BY <2>1, Zenon DEF r, Without
<1>4. r = <<>> <=> Len(q) = 1
  <2>1. r = <<>> <=> Len(r) = 0
    BY <1>2, EmptyLength, Zenon
  <2> QED
    BY <1>0, <1>2, <2>1
<1>5. next[h] = IF Len(q) = 1 THEN Nil ELSE q[2]
  <2>1. 1 + 1 = 2
    OBVIOUS
  <2> QED
    BY <1>0, <1>1, <2>1, Zenon
<1>6. next[h] = IF r = <<>> THEN Nil ELSE r[1]
  <2>1. r # <<>> => 1 \in 1..Len(r) /\ 1 + 1 = 2
    BY <1>2
  <2> QED
    BY <1>3, <1>4, <1>5, <2>1, Zenon
<1>7. \A i \in 1..Len(r) : next[r[i]] = IF i = Len(r) THEN Nil ELSE r[i + 1]
  <2> SUFFICES ASSUME NEW i \in 1..Len(r) PROVE next[r[i]] = IF i = Len(r) THEN Nil ELSE r[i + 1]
    OBVIOUS
  <2>1. next[r[i]] = IF i = Len(r) THEN Nil ELSE q[(i + 1) + 1]
    BY <1>1, <1>3, Zenon
  <2>2. i # Len(r) => i + 1 \in 1..Len(r)
    BY <1>0, <1>2
  <2> QED
    BY <1>3, <2>1, <2>2, Zenon
<1>8. \A i, j \in 1..Len(r) : i < j => r[i] < r[j]
  <2> SUFFICES ASSUME NEW i \in 1..Len(r), NEW j \in 1..Len(r), i < j PROVE r[i] < r[j]
    OBVIOUS
  <2>1. i + 1 < j + 1
    OBVIOUS
  <2> QED
    BY <1>1, <1>3, <2>1, Zenon
<1>9. Path(r, n, next, next[h])
  BY <1>2, <1>6, <1>7, <1>8, Zenon DEF Path
<1>10. next[h] = Nil <=> r = <<>>
  <2>1. r # <<>> => r[1] \in 1..n
    BY <1>2
  <2> QED
    BY <1>6, <2>1, NilAssumption
<1>11. r # <<>> => r[Len(r)] = q[Len(q)]
  <2>1. r # <<>> => Len(r) \in 1..Len(r) /\ Len(r) + 1 = Len(q)
    BY <1>0, <1>2
  <2> QED
    BY <1>3, <2>1, Zenon
<1> QED
  BY <1>9, <1>10, <1>11, Zenon DEF Last, r

\* Positions before, at and behind the one before the j-th.
LEMMA Positions ==
  ASSUME NEW L \in Nat, NEW j \in 2..L, NEW i \in 1..(L - 1)
  PROVE  /\ \/ i < j - 1 /\ i \in 1..L /\ i # L /\ i < j /\ i + 1 < j /\ i # L - 1
            \/ i = j - 1 /\ i < j /\ ~(i + 1 < j) /\ i + 1 = j /\ (i = L - 1 <=> j = L)
            \/ i > j - 1 /\ i + 1 \in 1..L /\ ~(i < j) /\ ~(i + 1 < j) /\ j - 1 < i + 1
                /\ (i = L - 1 <=> i + 1 = L)
         /\ i # L - 1 => i + 1 \in 1..(L - 1)
OBVIOUS

LEMMA PositionsOrdered ==
  ASSUME NEW L \in Nat, NEW j \in 2..L, NEW i \in 1..(L - 1), NEW k \in 1..(L - 1), i < k
  PROVE  /\ (IF i < j THEN i ELSE i + 1) \in 1..L
         /\ (IF k < j THEN k ELSE k + 1) \in 1..L
         /\ (IF i < j THEN i ELSE i + 1) < (IF k < j THEN k ELSE k + 1)
OBVIOUS

LEMMA Shorter ==
  ASSUME NEW L \in Nat, NEW j \in 2..L
  PROVE  /\ j - 1 \in 1..L /\ j \in 1..L /\ 1 \in 1..L /\ L # 0 /\ j - 1 < j
         /\ L - 1 \in Nat /\ L - 1 # 0 /\ 1 \in 1..(L - 1) /\ 1 < j
         /\ L - 1 \in 1..(L - 1) /\ (L - 1) + 1 = L
         /\ (L - 1 < j <=> j = L) /\ (j = L => L - 1 = j - 1)
OBVIOUS

\* Taking another pair out.
Removed(q, n, next, h, j, next2) ==
  /\ Linked(n, next2)
  /\ Path(Without(q, j), n, next2, h)
  /\ Last(Without(q, j)) = IF j = Len(q) THEN q[j - 1] ELSE Last(q)

LEMMA PathRemove ==
  ASSUME NEW n \in Nat, NEW next, Linked(n, next), NEW h, NEW q, Path(q, n, next, h),
         NEW j \in 2..Len(q), NEW next2, next2 = [next EXCEPT ![q[j - 1]] = next[q[j]]]
  PROVE  Removed(q, n, next, h, j, next2)
<1> DEFINE r == Without(q, j)
<1>0. q \in Seq(1..n) /\ Len(q) \in Nat /\ q # <<>>
  <2>1. q \in Seq(1..n)
    BY Zenon DEF Path
  <2> QED
    BY <2>1, EmptyLength, Shorter, Zenon
<1>1. /\ h = q[1]
      /\ \A i \in 1..Len(q) : q[i] \in 1..n
      /\ \A i \in 1..Len(q) : next[q[i]] = IF i = Len(q) THEN Nil ELSE q[i + 1]
      /\ \A i, k \in 1..Len(q) : i < k => q[i] < q[k]
  <2>1. \A i \in 1..Len(q) : q[i] \in 1..n
    BY <1>0, ElementOfSeq, Zenon
  <2> QED
    BY <1>0, <2>1, Zenon DEF Path
<1>2. j \in 1..Len(q) /\ j - 1 \in 1..Len(q) /\ 1 \in 1..Len(q)
  BY <1>0, Shorter, Zenon
<1>3. r \in Seq(1..n) /\ Len(r) = Len(q) - 1 /\ Len(r) \in Nat /\ r # <<>>
  <2>1. r \in Seq(1..n) /\ Len(r) = Len(q) - 1
    BY <1>0, <1>2, WithoutIsSeq, Zenon
  <2> QED
    BY <1>0, <2>1, EmptyLength, Shorter, Zenon
<1>4. ASSUME NEW i \in 1..Len(r) PROVE r[i] = IF i < j THEN q[i] ELSE q[i + 1]
  BY <1>3, Zenon DEF Without
<1> HIDE DEF r
<1>5. next \in [1..n -> 1..n \cup {Nil}] /\ q[j - 1] \in 1..n /\ q[j] \in 1..n
  BY <1>1, <1>2 DEF Linked
<1>6. \A c \in 1..n : next2[c] = IF c = q[j - 1] THEN next[q[j]] ELSE next[c]
  BY <1>5, Zenon
<1>7. Linked(n, next2)
  <2>1. next2 \in [1..n -> 1..n \cup {Nil}]
    BY <1>5
  <2>2. q[j - 1] < q[j]
    <3>1. j - 1 < j
      BY <1>0, Shorter, Zenon
    <3> QED
      BY <1>1, <1>2, <3>1, Zenon
  <2>3. ASSUME NEW c \in 1..n, next2[c] # Nil PROVE c < next2[c]
    <3>1. CASE c = q[j - 1]
      <4>1. next2[c] = next[q[j]] /\ next[q[j]] \in 1..n /\ q[j] < next[q[j]]
        BY <1>5, <1>6, <2>3, <3>1 DEF Linked
      <4>2. \A x, y, z \in 1..n : x < y /\ y < z => x < z
        OBVIOUS
      <4> QED
        BY <1>5, <2>2, <3>1, <4>1, <4>2, Zenon
    <3>2. CASE c # q[j - 1]
      BY <1>6, <2>3, <3>2, Zenon DEF Linked
    <3> QED
      BY <3>1, <3>2, Zenon
  <2> QED
    BY <2>1, <2>3, Zenon DEF Linked
<1>8. ASSUME NEW i \in 1..Len(r) PROVE next2[r[i]] = IF i = Len(r) THEN Nil ELSE r[i + 1]
  <2>0. i \in 1..(Len(q) - 1) /\ (i # Len(r) => i + 1 \in 1..Len(r))
    BY <1>0, <1>3, Positions, Zenon
  <2>1. ASSUME i < j - 1, i \in 1..Len(q), i # Len(q), i < j, i + 1 < j, i # Len(r)
        PROVE  next2[r[i]] = r[i + 1]
    <3>1. q[i] < q[j - 1] /\ q[i] \in 1..n /\ q[j - 1] \in 1..n
      BY <1>1, <1>2, <2>1, Zenon
    <3>2. q[i] # q[j - 1]
      BY <3>1
    <3>3. next2[q[i]] = q[i + 1]
      BY <1>1, <1>6, <2>1, <3>1, <3>2, Zenon
    <3> QED
      BY <1>4, <2>0, <2>1, <3>3, Zenon
  <2>2. ASSUME i = j - 1, i < j, ~(i + 1 < j), i + 1 = j, i = Len(r) <=> j = Len(q)
        PROVE  next2[r[i]] = IF i = Len(r) THEN Nil ELSE r[i + 1]
    <3>1. next2[q[i]] = next[q[j]]
      BY <1>5, <1>6, <2>2, Zenon
    <3>2. next[q[j]] = IF j = Len(q) THEN Nil ELSE q[j + 1]
      BY <1>1, <1>2, Zenon
    <3> QED
      BY <1>4, <2>0, <2>2, <3>1, <3>2, Zenon
  <2>3. ASSUME i > j - 1, i + 1 \in 1..Len(q), ~(i < j), ~(i + 1 < j), j - 1 < i + 1,
               i = Len(r) <=> i + 1 = Len(q)
        PROVE  next2[r[i]] = IF i = Len(r) THEN Nil ELSE r[i + 1]
    <3>1. q[j - 1] < q[i + 1] /\ q[i + 1] \in 1..n /\ q[j - 1] \in 1..n
      BY <1>1, <1>2, <2>3, Zenon
    <3>2. q[i + 1] # q[j - 1]
      BY <3>1
    <3>3. next2[q[i + 1]] = IF i + 1 = Len(q) THEN Nil ELSE q[(i + 1) + 1]
      BY <1>1, <1>6, <2>3, <3>1, <3>2, Zenon
    <3> QED
      BY <1>4, <2>0, <2>3, <3>3, Zenon
  <2>4. \/ i < j - 1 /\ i \in 1..Len(q) /\ i # Len(q) /\ i < j /\ i + 1 < j /\ i # Len(q) - 1
        \/ i = j - 1 /\ i < j /\ ~(i + 1 < j) /\ i + 1 = j /\ (i = Len(q) - 1 <=> j = Len(q))
        \/ i > j - 1 /\ i + 1 \in 1..Len(q) /\ ~(i < j) /\ ~(i + 1 < j) /\ j - 1 < i + 1
            /\ (i = Len(q) - 1 <=> i + 1 = Len(q))
    BY <1>0, <2>0, Positions, Zenon
  <2> QED
    BY <1>3, <2>1, <2>2, <2>3, <2>4, Zenon
<1>9. ASSUME NEW i \in 1..Len(r), NEW k \in 1..Len(r), i < k PROVE r[i] < r[k]
  <2> DEFINE m(x) == IF x < j THEN x ELSE x + 1
  <2>1. m(i) \in 1..Len(q) /\ m(k) \in 1..Len(q) /\ m(i) < m(k)
    <3>1. i \in 1..(Len(q) - 1) /\ k \in 1..(Len(q) - 1)
      BY <1>3, Zenon
    <3> QED
      BY <1>0, <1>9, <3>1, PositionsOrdered, Zenon
  <2>2. r[i] = q[m(i)] /\ r[k] = q[m(k)]
    BY <1>4, Zenon
  <2> HIDE DEF m
  <2> QED
    BY <1>1, <2>1, <2>2, Zenon
<1>10. r[1] = h
  <2>1. 1 \in 1..Len(r) /\ 1 < j
    BY <1>0, <1>3, Shorter, Zenon
  <2> QED
    BY <1>1, <1>4, <2>1, Zenon
<1>11. Path(r, n, next2, h)
  BY <1>3, <1>8, <1>9, <1>10, Zenon DEF Path
<1>12. r[Len(r)] = IF j = Len(q) THEN q[j - 1] ELSE q[Len(q)]
  <2>1. /\ Len(r) \in 1..Len(r) /\ Len(r) + 1 = Len(q)
        /\ (Len(r) < j <=> j = Len(q)) /\ (j = Len(q) => Len(r) = j - 1)
    <3>1. /\ Len(q) - 1 \in 1..(Len(q) - 1) /\ (Len(q) - 1) + 1 = Len(q)
          /\ (Len(q) - 1 < j <=> j = Len(q)) /\ (j = Len(q) => Len(q) - 1 = j - 1)
      BY <1>0, Shorter, Zenon
    <3> QED
      BY <1>3, <3>1, Zenon
  <2> QED
    BY <1>4, <2>1, Zenon
<1> QED
  BY <1>3, <1>7, <1>11, <1>12, <1>0, Zenon DEF Removed, Last, r

\* The links once a new pair is behind the pair t, or alone.
NewLinks(n, next, t, next2) ==
  /\ next2 \in [1..(n + 1) -> 1..(n + 1) \cup {Nil}]
  /\ next2[n + 1] = Nil
  /\ \A c \in 1..n : next2[c] = IF c = t THEN n + 1 ELSE next[c]

LEMMA LinksAppend ==
  ASSUME NEW n \in Nat, NEW next \in [1..n -> 1..n \cup {Nil}], NEW t \in 1..n \cup {Nil},
         NEW next2, next2 = Append(IF t = Nil THEN next ELSE [next EXCEPT ![t] = n + 1], Nil)
  PROVE  NewLinks(n, next, t, next2)
<1> DEFINE S == 1..(n + 1) \cup {Nil}
           link == IF t = Nil THEN next ELSE [next EXCEPT ![t] = n + 1]
<1>1. n + 1 \in S /\ Nil \in S /\ \A c \in 1..n : c \in S /\ c # Nil
  BY NilAssumption
<1>2. link \in [1..n -> S] /\ \A c \in 1..n : link[c] = IF c = t THEN n + 1 ELSE next[c]
  BY <1>1, Zenon
<1> HIDE DEF S, link
<1>3. link \in Seq(S) /\ Len(link) = n
  BY <1>2, FunctionIsSeq, Zenon
<1>4. next2 = Append(link, Nil)
  BY Zenon DEF link
<1>5. /\ next2 \in Seq(S) /\ Len(next2) = Len(link) + 1
      /\ \A i \in 1..Len(link) : next2[i] = link[i]
      /\ next2[Len(link) + 1] = Nil
  <2>1. /\ Append(link, Nil) \in Seq(S) /\ Len(Append(link, Nil)) = Len(link) + 1
        /\ \A i \in 1..Len(link) : Append(link, Nil)[i] = link[i]
        /\ Append(link, Nil)[Len(link) + 1] = Nil
    BY <1>1, <1>3
  <2> QED
    BY <1>4, <2>1, Zenon
<1>6. next2 \in [1..(n + 1) -> S]
  BY <1>3, <1>5, LenProperties, Zenon
<1> QED
  BY <1>2, <1>3, <1>5, <1>6, Zenon DEF S, NewLinks

\* Putting a pair behind the last one.
Added(q, n, next, h, next2) ==
  /\ Linked(n + 1, next2)
  /\ Path(Append(q, n + 1), n + 1, next2, IF Last(q) = Nil THEN n + 1 ELSE h)

LEMMA PathAppend ==
  ASSUME NEW n \in Nat, NEW next, Linked(n, next), NEW h, NEW q, Path(q, n, next, h),
         NEW next2,
         next2 = Append(IF Last(q) = Nil THEN next ELSE [next EXCEPT ![Last(q)] = n + 1], Nil)
  PROVE  Added(q, n, next, h, next2)
<1> DEFINE t == Last(q)
           r == Append(q, n + 1)
<1>0. q \in Seq(1..n) /\ Len(q) \in Nat /\ (q = <<>> <=> Len(q) = 0) /\ n + 1 \in Nat
  <2>1. q \in Seq(1..n)
    BY Zenon DEF Path
  <2>2. n + 1 \in Nat
    OBVIOUS
  <2> QED
    BY <2>1, <2>2, EmptyLength, Zenon
<1>1. /\ h = IF q = <<>> THEN Nil ELSE q[1]
      /\ \A i \in 1..Len(q) : next[q[i]] = IF i = Len(q) THEN Nil ELSE q[i + 1]
      /\ \A i, j \in 1..Len(q) : i < j => q[i] < q[j]
      /\ \A i \in 1..Len(q) : q[i] \in 1..n
  <2>1. \A i \in 1..Len(q) : q[i] \in 1..n
    BY <1>0, ElementOfSeq, Zenon
  <2> QED
    BY <2>1, Zenon DEF Path
<1>2. next \in [1..n -> 1..n \cup {Nil}] /\ \A c \in 1..n : next[c] # Nil => c < next[c]
  BY Zenon DEF Linked
<1>3. q # <<>> => Len(q) \in 1..Len(q) /\ 1 \in 1..Len(q)
  BY <1>0
<1>4. t \in 1..n \cup {Nil} /\ (t = Nil <=> q = <<>>) /\ (q # <<>> => t = q[Len(q)])
  <2>1. Nil \notin 1..n
    BY NilAssumption
  <2> QED
    BY <1>1, <1>3, <2>1, Zenon DEF Last
<1> HIDE DEF t
<1>5. /\ next2 \in [1..(n + 1) -> 1..(n + 1) \cup {Nil}]
      /\ next2[n + 1] = Nil
      /\ \A c \in 1..n : next2[c] = IF c = t THEN n + 1 ELSE next[c]
  <2>1. next2 = Append(IF t = Nil THEN next ELSE [next EXCEPT ![t] = n + 1], Nil)
    BY Zenon DEF t
  <2>2. NewLinks(n, next, t, next2)
    BY <1>2, <1>4, <2>1, LinksAppend, Zenon
  <2> QED
    BY <2>2, Zenon DEF NewLinks
<1>6. Linked(n + 1, next2)
  <2>1. ASSUME NEW c \in 1..(n + 1), next2[c] # Nil PROVE c < next2[c]
    <3>1. c \in 1..n /\ c < n + 1
      <4>1. c # n + 1
        BY <1>5, <2>1, Zenon
      <4> QED
        BY <4>1
    <3> QED
      BY <1>2, <1>5, <2>1, <3>1, Zenon
  <2> QED
    BY <1>5, <2>1, Zenon DEF Linked
<1>7. /\ r \in Seq(1..(n + 1)) /\ Len(r) = Len(q) + 1 /\ r # <<>>
      /\ \A i \in 1..Len(q) : r[i] = q[i]
      /\ r[Len(q) + 1] = n + 1
  <2>1. 1..n \subseteq 1..(n + 1) /\ n + 1 \in 1..(n + 1)
    OBVIOUS
  <2>2. q \in Seq(1..(n + 1))
    BY <1>0, <2>1, SeqMonotonic, Zenon
  <2> QED
    BY <2>1, <2>2, AppendProperties
<1> HIDE DEF r
<1>8. ASSUME NEW i \in 1..Len(r)
      PROVE  \/ i = Len(q) + 1 /\ i = Len(r) /\ i \notin 1..Len(q)
             \/ i \in 1..Len(q) /\ i # Len(r) /\ (i # Len(q) => i + 1 \in 1..Len(q))
  BY <1>0, <1>7
<1>9. ASSUME NEW i \in 1..Len(r) PROVE next2[r[i]] = IF i = Len(r) THEN Nil ELSE r[i + 1]
  <2>1. CASE i = Len(q) + 1 /\ i = Len(r)
    BY <1>5, <1>7, <2>1, Zenon
  <2>2. CASE i \in 1..Len(q) /\ i # Len(r) /\ i = Len(q)
    <3>1. q # <<>>
      <4>1. Len(q) # 0
        BY <1>0, <2>2
      <4> QED
        BY <1>0, <4>1, Zenon
    <3>2. q[i] = t /\ q[i] \in 1..n
      BY <1>1, <1>4, <2>2, <3>1, Zenon
    <3> QED
      BY <1>5, <1>7, <2>2, <3>2, Zenon
  <2>3. CASE i \in 1..Len(q) /\ i # Len(r) /\ i # Len(q) /\ i + 1 \in 1..Len(q)
    <3>1. next[q[i]] = q[i + 1] /\ q[i + 1] \in 1..n /\ q[i] \in 1..n
      BY <1>1, <2>3, Zenon
    <3>2. q[i] # t
      <4>1. q[i + 1] # Nil
        BY <3>1, NilAssumption
      <4>2. q # <<>> => next[t] = Nil
        BY <1>1, <1>3, <1>4, Zenon
      <4>3. q # <<>>
        <5>1. Len(q) # 0
          BY <1>0, <2>3
        <5> QED
          BY <1>0, <5>1, Zenon
      <4> QED
        BY <3>1, <4>1, <4>2, <4>3, Zenon
    <3> QED
      BY <1>5, <1>7, <2>3, <3>1, <3>2, Zenon
  <2> QED
    BY <1>8, <2>1, <2>2, <2>3, Zenon
<1>10. ASSUME NEW i \in 1..Len(r), NEW j \in 1..Len(r), i < j PROVE r[i] < r[j]
  <2>1. i \in 1..Len(q)
    BY <1>0, <1>7, <1>10
  <2>2. r[i] = q[i] /\ q[i] \in 1..n
    BY <1>1, <1>7, <2>1, Zenon
  <2>3. CASE j = Len(q) + 1
    <3>1. q[i] < n + 1
      BY <2>2
    <3> QED
      BY <1>7, <2>2, <2>3, <3>1, Zenon
  <2>4. CASE j \in 1..Len(q)
    BY <1>1, <1>7, <1>10, <2>1, <2>2, <2>4, Zenon
  <2> QED
    BY <1>8, <2>3, <2>4, Zenon
<1>11. (IF t = Nil THEN n + 1 ELSE h) = r[1]
  <2>1. CASE q = <<>>
    <3>1. Len(q) + 1 = 1
      BY <1>0, <2>1
    <3> QED
      BY <1>4, <1>7, <2>1, <3>1, Zenon
  <2>2. CASE q # <<>>
    BY <1>1, <1>3, <1>4, <1>7, <2>2, Zenon
  <2> QED
    BY <2>1, <2>2, Zenon
<1>12. Path(r, n + 1, next2, IF t = Nil THEN n + 1 ELSE h)
  BY <1>7, <1>9, <1>10, <1>11, Zenon DEF Path
<1> QED
  BY <1>6, <1>12, Zenon DEF Added, r, t


(***************************************************************************)
(* The inductive invariant.  The list is only changed with the mutex free  *)
(* or held by the thread that changes it, and the element a reader has     *)
(* seen is still there when it takes it.                                   *)
(***************************************************************************)
Control ==
  /\ maxLength \in MaxLengths
  /\ w \in Int
  /\ lock \in Threads \cup {NoThread}
  /\ pc \in [Threads -> Places]
  /\ reg \in [Threads -> Int]
  /\ timeouts \in 0..MaxTimeouts

List ==
  /\ car \in Seq(Values)
  /\ Linked(Len(car), cdr)
  /\ Path(Chain, Len(car), cdr, head)
  /\ tail = Last(Chain)
  /\ size = Len(Chain)
  /\ maxLength > 0 => size <= maxLength

Inv == Control /\ LockHeld /\ TakerHasElement /\ List

LEMMA InitEstablishes == Init => Inv
<1> SUFFICES ASSUME Init PROVE Inv
  OBVIOUS
<1>1. car = <<>> /\ cdr = <<>> /\ head = Nil /\ tail = Nil /\ size = 0 /\ maxLength \in MaxLengths
  BY Zenon DEF Init
<1>2. Len(car) = 0 /\ car \in Seq(Values) /\ 0 \in Nat
  BY <1>1
<1>3. Linked(0, <<>>)
  BY DEF Linked
<1>4. Path(<<>>, 0, <<>>, Nil)
  BY DEF Path
<1>5. Chain = <<>>
  <2>1. ChainFrom(0, <<>>, Nil) = <<>>
    BY <1>2, <1>3, <1>4, ChainIsPath, Zenon
  <2> QED
    BY <1>1, <1>2, <2>1, Operators, Zenon
<1>6. List
  <2>1. Len(<<>>) = 0 /\ (maxLength > 0 => 0 <= maxLength)
    BY <1>1, MaxLengthsAssumption
  <2> QED
    BY <1>1, <1>2, <1>3, <1>4, <1>5, <2>1, Zenon DEF List, Last
<1>7. Control
  BY BoundsAssumption DEF Init, Control, Places
<1>8. LockHeld /\ TakerHasElement
  BY NoThreadAssumption DEF Init, LockHeld, TakerHasElement, InCriticalSection
<1> QED
  BY <1>6, <1>7, <1>8, Zenon DEF Inv

(***************************************************************************)
(* What the steps do to the list.                                          *)
(***************************************************************************)
LEMMA ListFrame ==
  ASSUME List, UNCHANGED <<list, maxLength>>
  PROVE  List' /\ UNCHANGED Chain
<1>1. UNCHANGED <<head, tail, size, car, cdr, maxLength>>
  BY Zenon DEF list
<1>2. Chain' = Chain
  BY <1>1, Operators, Zenon
<1> QED
  BY <1>1, <1>2, Zenon DEF List

\* The first pair is taken off.
LEMMA TakeFirst ==
  ASSUME List, head # Nil, maxLength \in MaxLengths,
         head' = cdr[head], tail' = IF cdr[head] = Nil THEN Nil ELSE tail,
         size' = size - 1, UNCHANGED <<car, cdr, maxLength>>
  PROVE  List' /\ Chain # <<>> /\ Chain' = Without(Chain, 1)
<1>1. /\ car \in Seq(Values) /\ Linked(Len(car), cdr) /\ Path(Chain, Len(car), cdr, head)
      /\ tail = Last(Chain) /\ size = Len(Chain) /\ (maxLength > 0 => size <= maxLength)
  BY Zenon DEF List
<1>2. Len(car) \in Nat
  BY <1>1, EmptyLength, Zenon
<1>3. Chain \in Seq(1..Len(car)) /\ Chain # <<>>
  BY <1>1, Zenon DEF Path
<1>4. /\ Path(Without(Chain, 1), Len(car), cdr, cdr[head])
      /\ Last(Without(Chain, 1)) = IF cdr[head] = Nil THEN Nil ELSE Last(Chain)
  BY <1>1, <1>2, <1>3, PathTail, Zenon
<1>5. Chain' = Without(Chain, 1)
  <2>1. ChainFrom(Len(car), cdr, cdr[head]) = Without(Chain, 1)
    BY <1>1, <1>2, <1>4, ChainIsPath, Zenon
  <2> QED
    BY <2>1, Operators, Zenon
<1>6. Len(Without(Chain, 1)) = Len(Chain) - 1 /\ Len(Chain) \in Nat
  <2>1. Len(Chain) \in Nat /\ Len(Chain) # 0
    BY <1>3, EmptyLength, Zenon
  <2>2. 1 \in 1..Len(Chain)
    BY <2>1
  <2> QED
    BY <1>3, <2>1, <2>2, WithoutIsSeq, Zenon
<1>7. maxLength > 0 => size' <= maxLength
  BY <1>1, <1>6, MaxLengthsAssumption
<1> QED
  BY <1>1, <1>3, <1>4, <1>5, <1>6, <1>7, Zenon DEF List

\* The j-th pair is taken out, which is not the first.
LEMMA TakeOther ==
  ASSUME List, maxLength \in MaxLengths, NEW j \in 2..Len(Chain),
         cdr' = [cdr EXCEPT ![Chain[j - 1]] = cdr[Chain[j]]],
         tail' = IF Chain[j] = tail THEN Chain[j - 1] ELSE tail,
         size' = size - 1, UNCHANGED <<head, car, maxLength>>
  PROVE  List' /\ Chain' = Without(Chain, j)
<1>1. /\ car \in Seq(Values) /\ Linked(Len(car), cdr) /\ Path(Chain, Len(car), cdr, head)
      /\ tail = Last(Chain) /\ size = Len(Chain) /\ (maxLength > 0 => size <= maxLength)
  BY Zenon DEF List
<1>2. Len(car) \in Nat
  BY <1>1, EmptyLength, Zenon
<1>3. Chain \in Seq(1..Len(car)) /\ Len(Chain) \in Nat /\ Chain # <<>> /\ j \in 1..Len(Chain)
  <2>1. Chain \in Seq(1..Len(car))
    BY <1>1, Zenon DEF Path
  <2> QED
    BY <2>1, EmptyLength, Shorter, Zenon
<1>4. /\ Linked(Len(car), cdr')
      /\ Path(Without(Chain, j), Len(car), cdr', head)
      /\ Last(Without(Chain, j)) = IF j = Len(Chain) THEN Chain[j - 1] ELSE Last(Chain)
  <2>1. Removed(Chain, Len(car), cdr, head, j, cdr')
    BY <1>1, <1>2, PathRemove, Zenon
  <2> QED
    BY <2>1, Zenon DEF Removed
<1>5. Chain' = Without(Chain, j)
  <2>1. ChainFrom(Len(car), cdr', head) = Without(Chain, j)
    BY <1>2, <1>4, ChainIsPath, Zenon
  <2> QED
    BY <2>1, Operators, Zenon
<1>6. Chain[j] = tail <=> j = Len(Chain)
  <2>1. tail = Chain[Len(Chain)] /\ Len(Chain) \in 1..Len(Chain)
    <3>1. Len(Chain) # 0
      BY <1>3, EmptyLength, Zenon
    <3>2. Len(Chain) \in 1..Len(Chain)
      BY <1>3, <3>1
    <3> QED
      BY <1>1, <1>3, <3>2, Zenon DEF Last
  <2>2. CASE j # Len(Chain)
    <3>1. j < Len(Chain) /\ Chain[j] \in Int
      BY <1>3, <2>2
    <3>2. Chain[j] < Chain[Len(Chain)]
      BY <1>1, <1>3, <2>1, <3>1, Zenon DEF Path
    <3> QED
      BY <2>1, <2>2, <3>1, <3>2
  <2> QED
    BY <2>1, <2>2, Zenon
<1>7. Len(Without(Chain, j)) = Len(Chain) - 1
  BY <1>3, WithoutIsSeq, Zenon
<1>8. maxLength > 0 => size' <= maxLength
  BY <1>1, <1>3, MaxLengthsAssumption
<1> QED
  BY <1>1, <1>4, <1>5, <1>6, <1>7, <1>8, Zenon DEF List

\* A new pair is put behind the last one.
LEMMA PutLast ==
  ASSUME List, maxLength \in MaxLengths, maxLength > 0 => size < maxLength,
         NEW v \in Values,
         car' = Append(car, v),
         cdr' = Append(IF tail = Nil THEN cdr ELSE [cdr EXCEPT ![tail] = Len(car) + 1], Nil),
         head' = IF tail = Nil THEN Len(car) + 1 ELSE head,
         tail' = Len(car) + 1,
         size' = size + 1, UNCHANGED maxLength
  PROVE  List' /\ Chain' = Append(Chain, Len(car) + 1)
<1>1. /\ car \in Seq(Values) /\ Linked(Len(car), cdr) /\ Path(Chain, Len(car), cdr, head)
      /\ tail = Last(Chain) /\ size = Len(Chain) /\ (maxLength > 0 => size <= maxLength)
  BY Zenon DEF List
<1>2. Len(car) \in Nat /\ Len(car) + 1 \in Nat
  <2>1. Len(car) \in Nat
    BY <1>1, EmptyLength, Zenon
  <2> QED
    BY <2>1
<1>3. Chain \in Seq(1..Len(car))
  BY <1>1, Zenon DEF Path
<1>4. car' \in Seq(Values) /\ Len(car') = Len(car) + 1
  BY <1>1, AppendProperties
<1>5. /\ Linked(Len(car) + 1, cdr')
      /\ Path(Append(Chain, Len(car) + 1), Len(car) + 1, cdr', head')
  <2>1. /\ cdr' = Append(IF Last(Chain) = Nil THEN cdr ELSE [cdr EXCEPT ![Last(Chain)] = Len(car) + 1], Nil)
        /\ head' = IF Last(Chain) = Nil THEN Len(car) + 1 ELSE head
    BY <1>1, Zenon
  <2>2. Added(Chain, Len(car), cdr, head, cdr')
    BY <1>1, <1>2, <2>1, PathAppend, Zenon
  <2> QED
    BY <2>1, <2>2, Zenon DEF Added
<1>6. Chain' = Append(Chain, Len(car) + 1)
  <2>1. ChainFrom(Len(car) + 1, cdr', head') = Append(Chain, Len(car) + 1)
    BY <1>2, <1>5, ChainIsPath, Zenon
  <2> QED
    BY <1>4, <2>1, Operators, Zenon
<1>7. /\ Len(Append(Chain, Len(car) + 1)) = Len(Chain) + 1 /\ Len(Chain) \in Nat
      /\ Last(Append(Chain, Len(car) + 1)) = Len(car) + 1
  <2>1. Chain \in Seq(Nat)
    <3>1. 1..Len(car) \subseteq Nat
      BY <1>2
    <3> QED
      BY <1>3, <3>1, SeqMonotonic, Zenon
  <2>2. Len(Chain) \in Nat
    BY <2>1, EmptyLength, Zenon
  <2> QED
    BY <1>2, <2>1, <2>2, LastOfAppend, Zenon
<1>8. maxLength > 0 => size' <= maxLength
  BY <1>1, <1>7, MaxLengthsAssumption
<1> QED
  BY <1>1, <1>4, <1>5, <1>6, <1>7, <1>8, Zenon DEF List

\* The list is emptied.
LEMMA TakeAll ==
  ASSUME List, maxLength \in MaxLengths, head' = Nil, tail' = Nil, size' = 0,
         UNCHANGED <<car, cdr, maxLength>>
  PROVE  List' /\ Chain' = <<>>
<1>1. car \in Seq(Values) /\ Linked(Len(car), cdr)
  BY Zenon DEF List
<1>2. Len(car) \in Nat
  BY <1>1, EmptyLength, Zenon
<1>3. Path(<<>>, Len(car), cdr, Nil)
  BY DEF Path
<1>4. Chain' = <<>>
  <2>1. ChainFrom(Len(car), cdr, Nil) = <<>>
    BY <1>1, <1>2, <1>3, ChainIsPath, Zenon
  <2> QED
    BY <2>1, Operators, Zenon
<1>5. Len(<<>>) = 0 /\ (maxLength > 0 => 0 <= maxLength)
  BY MaxLengthsAssumption
<1> QED
  BY <1>1, <1>3, <1>4, <1>5, Zenon DEF List, Last

(***************************************************************************)
(* What that does to the elements.                                         *)
(***************************************************************************)
QueueOf(chain, objs) == [i \in 1..Len(chain) |-> objs[chain[i]]]

LEMMA QueueIsSeq ==
  ASSUME NEW V, NEW objs \in Seq(V), NEW chain \in Seq(1..Len(objs))
  PROVE  QueueOf(chain, objs) \in Seq(V) /\ Len(QueueOf(chain, objs)) = Len(chain)
<1>1. Len(chain) \in Nat
  BY EmptyLength, Zenon
<1>2. \A i \in 1..Len(chain) : objs[chain[i]] \in V
  BY ElementOfSeq, Zenon
<1>3. QueueOf(chain, objs) \in [1..Len(chain) -> V]
  BY <1>2, Zenon DEF QueueOf
<1> QED
  BY <1>1, <1>3, FunctionIsSeq, Zenon

LEMMA QueueWithout ==
  ASSUME NEW V, NEW objs \in Seq(V), NEW chain \in Seq(1..Len(objs)), NEW j \in 1..Len(chain)
  PROVE  QueueOf(Without(chain, j), objs) = Without(QueueOf(chain, objs), j)
<1> DEFINE r == Without(chain, j)
           q == QueueOf(chain, objs)
<1>1. r \in Seq(1..Len(objs)) /\ Len(r) = Len(chain) - 1
  BY WithoutIsSeq, Zenon
<1>2. Len(q) = Len(chain)
  BY QueueIsSeq, Zenon
<1>3. ASSUME NEW i \in 1..(Len(chain) - 1) PROVE objs[r[i]] = IF i < j THEN q[i] ELSE q[i + 1]
  <2>1. i \in 1..Len(chain) /\ i + 1 \in 1..Len(chain)
    OBVIOUS
  <2>2. r[i] = IF i < j THEN chain[i] ELSE chain[i + 1]
    BY Zenon DEF Without
  <2> QED
    BY <2>1, <2>2, Zenon DEF QueueOf
<1> HIDE DEF r, q
<1>4. QueueOf(r, objs) = Without(q, j)
  BY <1>1, <1>2, <1>3, Zenon DEF QueueOf, Without
<1> QED
  BY <1>4, Zenon DEF r, q

LEMMA QueueAppend ==
  ASSUME NEW V, NEW objs \in Seq(V), NEW chain \in Seq(1..Len(objs)), NEW v \in V
  PROVE  QueueOf(Append(chain, Len(objs) + 1), Append(objs, v)) = Append(QueueOf(chain, objs), v)
<1> DEFINE n == Len(objs)
           r == Append(chain, n + 1)
           o == Append(objs, v)
           q == QueueOf(chain, objs)
           a == Append(q, v)
<1>1. n \in Nat /\ Len(chain) \in Nat /\ \A i \in 1..Len(chain) : chain[i] \in 1..n
  BY EmptyLength, ElementOfSeq, Zenon
<1>2. /\ o \in Seq(V) /\ Len(o) = n + 1 /\ o[n + 1] = v
      /\ \A i \in 1..n : o[i] = objs[i]
  BY AppendProperties
<1>3. /\ r \in Seq(1..(n + 1)) /\ Len(r) = Len(chain) + 1 /\ r[Len(chain) + 1] = n + 1
      /\ \A i \in 1..Len(chain) : r[i] = chain[i]
  <2>1. n + 1 \in 1..(n + 1) /\ 1..n \subseteq 1..(n + 1)
    BY <1>1
  <2>2. chain \in Seq(1..(n + 1))
    BY <2>1, SeqMonotonic, Zenon
  <2> QED
    BY <2>1, <2>2, AppendProperties
<1>4. q \in Seq(V) /\ Len(q) = Len(chain)
  BY QueueIsSeq, Zenon
<1>5. a \in Seq(V) /\ Len(a) = Len(q) + 1 /\ a[Len(q) + 1] = v /\ \A i \in 1..Len(q) : a[i] = q[i]
  <2> HIDE DEF q
  <2> QED
    BY <1>4, AppendProperties
<1>6. QueueOf(r, o) \in Seq(V) /\ Len(QueueOf(r, o)) = Len(chain) + 1
  <2> HIDE DEF r, o, n
  <2> QED
    BY <1>2, <1>3, QueueIsSeq, Zenon
<1> HIDE DEF r, o, q, a, n
<1>7. ASSUME NEW i \in 1..(Len(chain) + 1) PROVE QueueOf(r, o)[i] = a[i]
  <2>1. QueueOf(r, o)[i] = o[r[i]]
    BY <1>3, Zenon DEF QueueOf
  <2>2. i = Len(chain) + 1 \/ i \in 1..Len(chain)
    BY <1>1
  <2>3. CASE i = Len(chain) + 1
    BY <1>2, <1>3, <1>4, <1>5, <2>1, <2>3, Zenon
  <2>4. CASE i \in 1..Len(chain)
    <3>1. q[i] = objs[chain[i]]
      BY <2>4, Zenon DEF q, QueueOf
    <3> QED
      BY <1>1, <1>2, <1>3, <1>4, <1>5, <2>1, <2>4, <3>1, Zenon
  <2> QED
    BY <2>2, <2>3, <2>4, Zenon
<1>8. Len(a) = Len(QueueOf(r, o)) /\ \A i \in 1..Len(QueueOf(r, o)) : QueueOf(r, o)[i] = a[i]
  BY <1>4, <1>5, <1>6, <1>7, Zenon
<1>9. QueueOf(r, o) = a
  BY <1>5, <1>6, <1>8, SeqEqual, Zenon
<1> QED
  BY <1>9, Zenon DEF r, o, q, a, n

(***************************************************************************)
(* The threads and the mutex.                                              *)
(***************************************************************************)
\* Thread t goes to a place, and takes the mutex with it or gives it up.
Moves(t, place) ==
  /\ place \in Places
  /\ \/ Goto(t, place)
     \/ BroadcastAndGoto("gwait", "grelock", t, place)
     \/ BroadcastAndGoto("pwait", "plock", t, place)
  /\ \/ lock' = lock /\ (pc[t] \in InCriticalSection <=> place \in InCriticalSection)
     \/ lock' = t /\ lock = NoThread /\ place \in InCriticalSection
     \/ lock' = NoThread /\ pc[t] \in InCriticalSection /\ place \notin InCriticalSection
  /\ w' \in {w, reg[t] - 1, reg[t] + 1}
  /\ reg' \in {reg, [reg EXCEPT ![t] = w], [reg EXCEPT ![t] = 0]}
  /\ timeouts' \in {timeouts, timeouts + 1} /\ timeouts' \in 0..MaxTimeouts
  /\ UNCHANGED maxLength

Moved(t, place) ==
  /\ Control' /\ LockHeld'
  /\ pc'[t] = place
  /\ \A u \in Threads \ {t} : pc'[u] = "gdeq" => pc[u] = "gdeq"

LEMMA MoveKeeps ==
  ASSUME Control, LockHeld, NEW t \in Threads, NEW place, Moves(t, place)
  PROVE  Moved(t, place)
<1>0. /\ pc \in [Threads -> Places] /\ lock \in Threads \cup {NoThread}
      /\ w \in Int /\ reg \in [Threads -> Int] /\ maxLength \in MaxLengths
  BY Zenon DEF Control
<1>1. "grelock" \in Places /\ "plock" \in Places /\ place \in Places
  BY Zenon DEF Places, Moves
<1>2. /\ pc' \in [Threads -> Places] /\ pc'[t] = place
      /\ \A u \in Threads \ {t} : \/ pc'[u] = pc[u]
                                  \/ pc[u] = "gwait" /\ pc'[u] = "grelock"
                                  \/ pc[u] = "pwait" /\ pc'[u] = "plock"
  <2>1. CASE Goto(t, place)
    BY <1>0, <1>1, <2>1 DEF Goto
  <2>2. CASE BroadcastAndGoto("gwait", "grelock", t, place)
    BY <1>0, <1>1, <2>2 DEF BroadcastAndGoto
  <2>3. CASE BroadcastAndGoto("pwait", "plock", t, place)
    BY <1>0, <1>1, <2>3 DEF BroadcastAndGoto
  <2> QED
    BY <2>1, <2>2, <2>3, Zenon DEF Moves
<1>3. \A u \in Threads \ {t} : /\ pc'[u] = "gdeq" => pc[u] = "gdeq"
                               /\ pc'[u] \in InCriticalSection <=> pc[u] \in InCriticalSection
  BY <1>2 DEF InCriticalSection
<1>4. lock' \in Threads \cup {NoThread}
  BY <1>0, Zenon DEF Moves
<1>5. LockHeld'
  <2> SUFFICES ASSUME NEW u \in Threads PROVE pc'[u] \in InCriticalSection <=> lock' = u
    BY Zenon DEF LockHeld
  <2>1. pc[u] \in InCriticalSection <=> lock = u
    BY Zenon DEF LockHeld
  <2>2. pc[t] \in InCriticalSection <=> lock = t
    BY Zenon DEF LockHeld
  <2>3. u # NoThread
    BY NoThreadAssumption, Zenon
  <2>4. \/ lock' = lock /\ (pc[t] \in InCriticalSection <=> place \in InCriticalSection)
        \/ lock' = t /\ lock = NoThread /\ place \in InCriticalSection
        \/ lock' = NoThread /\ pc[t] \in InCriticalSection /\ place \notin InCriticalSection
    BY Zenon DEF Moves
  <2>5. CASE u = t
    BY <1>2, <2>2, <2>3, <2>4, <2>5, Zenon
  <2>6. CASE u # t
    BY <1>3, <2>1, <2>2, <2>3, <2>4, <2>6
  <2> QED
    BY <2>5, <2>6, Zenon
<1>6. w' \in Int
  <2>1. reg[t] \in Int
    BY <1>0, Zenon
  <2> QED
    BY <1>0, <2>1 DEF Moves
<1>7. reg' \in [Threads -> Int]
  BY <1>0 DEF Moves
<1>8. Control'
  BY <1>0, <1>2, <1>4, <1>6, <1>7, Zenon DEF Control, Moves
<1> QED
  BY <1>2, <1>3, <1>5, <1>8, Zenon DEF Moved

\* The steps that leave the list alone.
QuietStep(t) ==
  \/ GetLock(t) \/ GetAnnounce(t) \/ GetTest(t) \/ GetRelock(t)
  \/ GetTimeoutRead(t) \/ GetTimeoutWrite(t)
  \/ PutWait(t) \/ UserUnlock(t)
  \/ CallGet(t) \/ GetTimeout(t) \/ CallPut(t) \/ PutTimeout(t)
  \/ UserLock(t) \/ SpuriousWakeup(t)

LEMMA QuietMoves ==
  ASSUME Control, LockHeld, NEW t \in Threads, QuietStep(t)
  PROVE  /\ UNCHANGED <<list, maxLength>>
         /\ \E place : Moves(t, place) /\ (place = "gdeq" => head # Nil)
<1> USE DEF Moves, Places, InCriticalSection
<1>0. timeouts \in 0..MaxTimeouts
  BY Zenon DEF Control
<1>1. CASE GetLock(t)
  <2>1. Moves(t, "gw")
    BY <1>0, <1>1, Zenon DEF GetLock
  <2> QED
    BY <1>1, <2>1 DEF GetLock
<1>2. CASE GetAnnounce(t)
  <2>1. Moves(t, "gtest")
    BY <1>0, <1>2, Zenon DEF GetAnnounce
  <2> QED
    BY <1>2, <2>1 DEF GetAnnounce
<1>3. CASE GetTest(t)
  <2>1. CASE head = Nil
    <3>1. Moves(t, "gwait")
      BY <1>0, <1>3, <2>1, Zenon DEF GetTest
    <3> QED
      BY <1>3, <3>1, Zenon DEF GetTest
  <2>2. CASE head # Nil
    <3>1. Moves(t, "gdeq")
      BY <1>0, <1>3, <2>2, Zenon DEF GetTest
    <3> QED
      BY <1>3, <2>2, <3>1, Zenon DEF GetTest
  <2> QED
    BY <2>1, <2>2, Zenon
<1>4. CASE GetRelock(t)
  <2>1. Moves(t, "gtest")
    BY <1>0, <1>4, Zenon DEF GetRelock
  <2> QED
    BY <1>4, <2>1 DEF GetRelock
<1>5. CASE GetTimeoutRead(t)
  <2>1. Moves(t, "gto2")
    BY <1>0, <1>5, Zenon DEF GetTimeoutRead
  <2> QED
    BY <1>5, <2>1, Zenon DEF GetTimeoutRead
<1>6. CASE GetTimeoutWrite(t)
  <2>1. Moves(t, "idle")
    BY <1>0, <1>6, Zenon DEF GetTimeoutWrite
  <2> QED
    BY <1>6, <2>1, Zenon DEF GetTimeoutWrite
<1>7. CASE PutWait(t)
  <2>1. Moves(t, "pwait")
    BY <1>0, <1>7, Zenon DEF PutWait
  <2> QED
    BY <1>7, <2>1, Zenon DEF PutWait
<1>8. CASE UserUnlock(t)
  <2>1. Moves(t, "idle")
    BY <1>0, <1>8, Zenon DEF UserUnlock
  <2> QED
    BY <1>8, <2>1, Zenon DEF UserUnlock
<1>9. CASE CallGet(t)
  <2>1. Moves(t, "glock")
    BY <1>0, <1>9, Zenon DEF CallGet
  <2> QED
    BY <1>9, <2>1, Zenon DEF CallGet
<1>10. CASE GetTimeout(t)
  <2>1. timeouts + 1 \in 0..MaxTimeouts
    BY <1>0, <1>10, BoundsAssumption DEF GetTimeout
  <2>2. Moves(t, "gto")
    BY <1>10, <2>1, Zenon DEF GetTimeout
  <2> QED
    BY <1>10, <2>2, Zenon DEF GetTimeout
<1>11. CASE CallPut(t)
  <2>1. Moves(t, "plock")
    BY <1>0, <1>11, Zenon DEF CallPut
  <2> QED
    BY <1>11, <2>1, Zenon DEF CallPut
<1>12. CASE PutTimeout(t)
  <2>1. Moves(t, "idle")
    BY <1>0, <1>12, Zenon DEF PutTimeout
  <2> QED
    BY <1>12, <2>1, Zenon DEF PutTimeout
<1>13. CASE UserLock(t)
  <2>1. Moves(t, "user")
    BY <1>0, <1>13, Zenon DEF UserLock
  <2> QED
    BY <1>13, <2>1, Zenon DEF UserLock
<1>14. CASE SpuriousWakeup(t)
  <2>1. Moves(t, "grelock") \/ Moves(t, "plock")
    BY <1>0, <1>14, Zenon DEF SpuriousWakeup
  <2> QED
    BY <1>14, <2>1, Zenon DEF SpuriousWakeup
<1> QED
  BY <1>1, <1>2, <1>3, <1>4, <1>5, <1>6, <1>7, <1>8, <1>9, <1>10, <1>11, <1>12, <1>13, <1>14, Zenon DEF QuietStep

(***************************************************************************)
(* Every step keeps the invariant, and is one of these for the list.       *)
(***************************************************************************)
Stays == UNCHANGED <<Chain, car, maxLength>>
TakesFirst == Chain # <<>> /\ Chain' = Without(Chain, 1) /\ UNCHANGED <<car, maxLength>>
TakesOut(o) ==
  /\ \E j \in 1..Len(Chain) : car[Chain[j]] = o /\ Chain' = Without(Chain, j)
  /\ UNCHANGED <<car, maxLength>>
PutsLast(v) ==
  /\ maxLength > 0 => Len(Chain) < maxLength
  /\ car' = Append(car, v) /\ Chain' = Append(Chain, Len(car) + 1)
  /\ UNCHANGED maxLength
Empties == Chain' = <<>> /\ UNCHANGED <<car, maxLength>>

LEMMA TakersKeep ==
  ASSUME TakerHasElement, NEW t \in Threads, NEW place, Moved(t, place),
         place = "gdeq" => head' # Nil,
         \A u \in Threads \ {t} : pc[u] = "gdeq" /\ head # Nil => head' # Nil
  PROVE  TakerHasElement'
<1> SUFFICES ASSUME NEW u \in Threads, pc'[u] = "gdeq" PROVE head' # Nil
  BY Zenon DEF TakerHasElement
<1>1. CASE u = t
  BY <1>1, Zenon DEF Moved
<1>2. CASE u # t
  <2>1. u \in Threads \ {t}
    BY <1>2, Zenon
  <2>2. pc[u] = "gdeq"
    BY <2>1, Zenon DEF Moved
  <2> QED
    BY <2>1, <2>2, Zenon DEF TakerHasElement
<1> QED
  BY <1>1, <1>2, Zenon

LEMMA QuietKeeps ==
  ASSUME Inv, NEW t \in Threads, QuietStep(t)
  PROVE  Inv' /\ Stays
<1>1. Control /\ LockHeld /\ TakerHasElement /\ List
  BY Zenon DEF Inv
<1>2. PICK place : Moves(t, place) /\ (place = "gdeq" => head # Nil)
  BY <1>1, QuietMoves, Zenon
<1>3. UNCHANGED <<list, maxLength>>
  BY <1>1, QuietMoves, Zenon
<1>4. head' = head /\ car' = car /\ maxLength' = maxLength
  BY <1>3, Zenon DEF list
<1>5. Moved(t, place)
  BY <1>1, <1>2, MoveKeeps, Zenon
<1>6. TakerHasElement'
  BY <1>1, <1>2, <1>4, <1>5, TakersKeep, Zenon
<1>7. List' /\ UNCHANGED Chain
  BY <1>1, <1>3, ListFrame, Zenon
<1> QED
  BY <1>4, <1>5, <1>6, <1>7, Zenon DEF Inv, Moved, Stays

LEMMA TakeKeeps ==
  ASSUME Inv, NEW t \in Threads, GetTake(t)
  PROVE  Inv' /\ TakesFirst
<1>1. Control /\ LockHeld /\ TakerHasElement /\ List
  BY Zenon DEF Inv
<1>2. head # Nil /\ maxLength \in MaxLengths /\ timeouts \in 0..MaxTimeouts
  BY <1>1, Zenon DEF GetTake, TakerHasElement, Control
<1>3. Moves(t, "idle")
  <2>1. "idle" \in Places /\ "idle" \notin InCriticalSection /\ "gdeq" \in InCriticalSection
    BY DEF Places, InCriticalSection
  <2> QED
    BY <1>2, <2>1, Zenon DEF GetTake, Moves
<1>4. Moved(t, "idle")
  BY <1>1, <1>3, MoveKeeps, Zenon
<1>5. \A u \in Threads \ {t} : pc[u] # "gdeq"
  <2>1. "gdeq" \in InCriticalSection
    BY DEF InCriticalSection
  <2>2. pc[t] = "gdeq"
    BY Zenon DEF GetTake
  <2>3. lock = t
    BY <1>1, <2>1, <2>2, Zenon DEF LockHeld
  <2>4. ASSUME NEW u \in Threads \ {t}, pc[u] = "gdeq" PROVE FALSE
    <3>1. lock = u
      BY <1>1, <2>1, <2>4, Zenon DEF LockHeld
    <3> QED
      BY <2>3, <3>1, Zenon
  <2> QED
    BY <2>4, Zenon
<1>6. TakerHasElement'
  <2>1. "idle" # "gdeq"
    OBVIOUS
  <2> QED
    BY <1>1, <1>4, <1>5, <2>1, TakersKeep, Zenon
<1>7. List' /\ Chain # <<>> /\ Chain' = Without(Chain, 1)
  <2>1. /\ head' = cdr[head] /\ tail' = IF cdr[head] = Nil THEN Nil ELSE tail
        /\ size' = size - 1 /\ UNCHANGED <<car, cdr, maxLength>>
    BY Zenon DEF GetTake
  <2> QED
    BY <1>1, <1>2, <2>1, TakeFirst, Zenon
<1> QED
  BY <1>4, <1>6, <1>7, Zenon DEF Inv, Moved, TakesFirst, GetTake

LEMMA PutKeeps ==
  ASSUME Inv, NEW t \in Threads, NEW v \in Values, Put(t, v)
  PROVE  Inv' /\ PutsLast(v)
<1>1. Control /\ LockHeld /\ TakerHasElement /\ List
  BY Zenon DEF Inv
<1>2. maxLength \in MaxLengths /\ timeouts \in 0..MaxTimeouts
  BY <1>1, Zenon DEF Control
<1>3. Moves(t, "idle")
  <2>1. "idle" \in Places /\ "idle" \notin InCriticalSection /\ "plock" \notin InCriticalSection
    BY DEF Places, InCriticalSection
  <2> QED
    BY <1>2, <2>1, Zenon DEF Put, Moves, WakeReaders
<1>4. Moved(t, "idle")
  BY <1>1, <1>3, MoveKeeps, Zenon
<1>5. maxLength > 0 => size < maxLength
  <2>1. size \in Nat
    <3>1. Chain \in Seq(1..Len(car)) /\ size = Len(Chain)
      BY <1>1, Zenon DEF List, Path
    <3> QED
      BY <3>1, EmptyLength, Zenon
  <2>2. ~MustWait
    BY Zenon DEF Put
  <2> QED
    BY <1>2, <2>1, <2>2, MaxLengthsAssumption DEF MustWait, Overflows
<1>6. /\ car' = Append(car, v)
      /\ cdr' = Append(IF tail = Nil THEN cdr ELSE [cdr EXCEPT ![tail] = Len(car) + 1], Nil)
      /\ head' = IF tail = Nil THEN Len(car) + 1 ELSE head
      /\ tail' = Len(car) + 1
      /\ size' = size + 1 /\ UNCHANGED maxLength
  BY Zenon DEF Put
<1>7. List' /\ Chain' = Append(Chain, Len(car) + 1)
  BY <1>1, <1>2, <1>5, <1>6, PutLast, Zenon
<1>8. TakerHasElement'
  <2>1. Len(car) \in Nat
    BY <1>1, EmptyLength, Zenon DEF List
  <2>2. Len(car) + 1 # Nil
    BY <2>1, NilAssumption
  <2>3. "idle" # "gdeq"
    OBVIOUS
  <2> QED
    BY <1>1, <1>4, <1>6, <2>2, <2>3, TakersKeep, Zenon
<1>9. Len(Chain) = size
  BY <1>1, Zenon DEF List
<1> QED
  BY <1>4, <1>5, <1>6, <1>7, <1>8, <1>9, Zenon DEF Inv, Moved, PutsLast

\* With the mutex free no thread has read w to take an element.
LEMMA FreeKeeps ==
  ASSUME Control, LockHeld, lock = NoThread,
         UNCHANGED <<w, lock, pc, reg, timeouts, maxLength>>
  PROVE  Control' /\ LockHeld' /\ TakerHasElement'
<1>1. "gdeq" \in InCriticalSection
  BY DEF InCriticalSection
<1>2. ASSUME NEW u \in Threads, pc'[u] = "gdeq" PROVE FALSE
  <2>1. pc[u] \in InCriticalSection
    BY <1>1, <1>2, Zenon
  <2> QED
    BY <2>1, NoThreadAssumption, Zenon DEF LockHeld
<1> QED
  BY <1>2, Zenon DEF Control, LockHeld, TakerHasElement

\* The pair that shared-queue-remove! finds is on the list.
Found(o) ==
  IF head = Nil THEN Nil
  ELSE IF car[head] # o /\ car[tail] = o THEN tail
  ELSE FirstEqual(head, o)

LEMMA Finds ==
  ASSUME List, NEW o, Found(o) # Nil
  PROVE  /\ head # Nil /\ head = Chain[1] /\ 1 \in 1..Len(Chain)
         /\ \E j \in 1..Len(Chain) : Found(o) = Chain[j] /\ car[Chain[j]] = o
<1>1. /\ car \in Seq(Values) /\ Linked(Len(car), cdr) /\ Path(Chain, Len(car), cdr, head)
      /\ tail = Last(Chain)
  BY Zenon DEF List
<1>2. head # Nil
  BY Zenon DEF Found
<1>3. Len(car) \in Nat
  BY <1>1, EmptyLength, Zenon
<1>4. Chain \in Seq(1..Len(car)) /\ Chain # <<>> /\ head = Chain[1]
  BY <1>1, <1>2, Zenon DEF Path
<1>5. Len(Chain) \in Nat /\ Len(Chain) # 0
  BY <1>4, EmptyLength, Zenon
<1>6. 1 \in 1..Len(Chain) /\ Len(Chain) \in 1..Len(Chain)
  BY <1>5
<1>7. CASE car[head] # o /\ car[tail] = o
  <2>1. Found(o) = tail /\ tail = Chain[Len(Chain)]
    BY <1>1, <1>2, <1>4, <1>7, Zenon DEF Last, Found
  <2> QED
    BY <1>2, <1>4, <1>6, <1>7, <2>1, Zenon
<1>8. CASE ~(car[head] # o /\ car[tail] = o)
  <2>1. Found(o) = FirstFrom(Len(car), car, cdr, head, o)
    BY <1>2, <1>8, Operators, Zenon DEF Found
  <2>2. FirstFrom(Len(car), car, cdr, head, o) # Nil
    BY <2>1, Zenon
  <2>3. \E j \in 1..Len(Chain) :
           FirstFrom(Len(car), car, cdr, head, o) = Chain[j] /\ car[Chain[j]] = o
    BY <1>1, <1>3, <1>4, <2>2, FirstIsOnPath
  <2> QED
    BY <1>2, <1>4, <1>6, <2>1, <2>3, Zenon
<1> QED
  BY <1>7, <1>8, Zenon

LEMMA RemoveKeeps ==
  ASSUME Inv, NEW t \in Threads, NEW o \in Values, Remove(t, o)
  PROVE  Inv' /\ TakesOut(o)
<1>1. Control /\ LockHeld /\ TakerHasElement /\ List
  BY Zenon DEF Inv
<1>2. /\ lock = NoThread /\ Found(o) # Nil
      /\ UNCHANGED <<w, lock, pc, reg, timeouts, maxLength>>
      /\ size' = size - 1 /\ UNCHANGED <<car, maxLength>>
  BY Zenon DEF Remove, Found
<1>3. IF Found(o) = head
      THEN /\ head' = cdr[head]
           /\ tail' = IF cdr[head] = Nil THEN Nil ELSE tail
           /\ UNCHANGED cdr
      ELSE /\ cdr' = [cdr EXCEPT ![Before(Found(o))] = cdr[Found(o)]]
           /\ tail' = IF Found(o) = tail THEN Before(Found(o)) ELSE tail
           /\ UNCHANGED head
  BY Zenon DEF Remove, Found
<1>4. /\ head # Nil /\ head = Chain[1] /\ 1 \in 1..Len(Chain)
      /\ \E j \in 1..Len(Chain) : Found(o) = Chain[j] /\ car[Chain[j]] = o
  BY <1>1, <1>2, Finds, Zenon
<1>5. PICK j \in 1..Len(Chain) : Found(o) = Chain[j] /\ car[Chain[j]] = o
  BY <1>4, Zenon
<1>6. Control' /\ LockHeld' /\ TakerHasElement' /\ maxLength \in MaxLengths
  BY <1>1, <1>2, FreeKeeps, Zenon DEF Control
<1>7. CASE Found(o) = head
  <2>1. List' /\ Chain' = Without(Chain, 1)
    BY <1>1, <1>2, <1>3, <1>4, <1>6, <1>7, TakeFirst, Zenon
  <2>2. car[Chain[1]] = o
    BY <1>4, <1>5, <1>7, Zenon
  <2> QED
    BY <1>2, <1>4, <1>6, <2>1, <2>2, Zenon DEF Inv, TakesOut
<1>8. CASE Found(o) # head
  <2>1. Len(Chain) \in Nat
    <3>1. Chain \in Seq(1..Len(car))
      BY <1>1, Zenon DEF List, Path
    <3> QED
      BY <3>1, EmptyLength, Zenon
  <2>2. j # 1
    BY <1>4, <1>5, <1>8, Zenon
  <2>3. j \in 2..Len(Chain)
    BY <2>1, <2>2
  <2>4. Before(Found(o)) = Chain[j - 1]
    <3>1. Linked(Len(car), cdr) /\ Path(Chain, Len(car), cdr, head) /\ Len(car) \in Nat
      BY <1>1, EmptyLength, Zenon DEF List
    <3>2. BeforeFrom(Len(car), cdr, head, Chain[j]) = Chain[j - 1]
      BY <2>3, <3>1, BeforeIsOnPath
    <3> QED
      BY <1>5, <3>2, Operators, Zenon
  <2>5. /\ cdr' = [cdr EXCEPT ![Chain[j - 1]] = cdr[Chain[j]]]
        /\ tail' = IF Chain[j] = tail THEN Chain[j - 1] ELSE tail
        /\ UNCHANGED head
    BY <1>3, <1>5, <1>8, <2>4, Zenon
  <2>6. List' /\ Chain' = Without(Chain, j)
    BY <1>1, <1>2, <1>6, <2>3, <2>5, TakeOther, Zenon
  <2> QED
    BY <1>2, <1>5, <1>6, <2>6, Zenon DEF Inv, TakesOut
<1> QED
  BY <1>7, <1>8, Zenon

LEMMA ClearKeeps ==
  ASSUME Inv, NEW t \in Threads, Clear(t)
  PROVE  Inv' /\ Empties
<1>1. Control /\ LockHeld /\ List /\ maxLength \in MaxLengths
  BY Zenon DEF Inv, Control
<1>2. Control' /\ LockHeld' /\ TakerHasElement'
  BY <1>1, FreeKeeps, Zenon DEF Clear
<1>3. List' /\ Chain' = <<>>
  BY <1>1, TakeAll, Zenon DEF Clear
<1> QED
  BY <1>2, <1>3, Zenon DEF Inv, Empties, Clear

LEMMA StutterKeeps ==
  ASSUME Inv, UNCHANGED vars
  PROVE  Inv' /\ Stays
<1>1. List /\ UNCHANGED <<list, maxLength, pc, lock, w, reg, timeouts, head, car>>
  BY Zenon DEF Inv, vars, list
<1>2. List' /\ UNCHANGED Chain
  BY <1>1, ListFrame, Zenon
<1> QED
  BY <1>1, <1>2, Zenon DEF Inv, Control, LockHeld, TakerHasElement, Stays

ListStep ==
  Stays \/ TakesFirst \/ Empties \/ \E v \in Values : PutsLast(v) \/ TakesOut(v)

LEMMA StepKeeps ==
  ASSUME Inv, [Next]_vars
  PROVE  Inv' /\ ListStep
<1>1. CASE UNCHANGED vars
  BY <1>1, StutterKeeps, Zenon DEF ListStep
<1>2. ASSUME NEW t \in Threads,
             \/ QuietStep(t) \/ GetTake(t) \/ Clear(t)
             \/ \E v \in Values : Put(t, v) \/ Remove(t, v)
      PROVE  Inv' /\ ListStep
  BY <1>2, QuietKeeps, TakeKeeps, ClearKeeps, PutKeeps, RemoveKeeps, Zenon DEF ListStep
<1>3. CASE Next
  <2>1. \E t \in Threads : \/ QuietStep(t) \/ GetTake(t) \/ Clear(t)
                           \/ \E v \in Values : Put(t, v) \/ Remove(t, v)
    BY <1>3, Zenon DEF Next, Continue, QuietStep
  <2> QED
    BY <1>2, <2>1, Zenon
<1> QED
  BY <1>1, <1>3, Zenon

LEMMA Inductive == Spec => []Inv
BY InitEstablishes, StepKeeps, PTL DEF Spec

(***************************************************************************)
(* The theorems.                                                           *)
(***************************************************************************)
LEMMA InvImplies == Inv => ListIntact
<1> SUFFICES ASSUME Inv PROVE ListIntact
  OBVIOUS
<1>1. /\ car \in Seq(Values) /\ Linked(Len(car), cdr) /\ Path(Chain, Len(car), cdr, head)
      /\ tail = Last(Chain) /\ size = Len(Chain) /\ (maxLength > 0 => size <= maxLength)
  BY Zenon DEF Inv, List
<1>2. Len(car) \in Nat
  BY <1>1, EmptyLength, Zenon
<1>3. Chain \in Seq(1..Len(car)) /\ (head = Nil <=> Chain = <<>>) /\ (Chain # <<>> => head = Chain[1])
  <2>1. 1..Len(car) \subseteq Int
    BY <1>2
  <2>2. Chain \in Seq(1..Len(car)) /\ head = IF Chain = <<>> THEN Nil ELSE Chain[1]
    BY <1>1, Zenon DEF Path
  <2>3. CASE Chain # <<>>
    <3>1. Len(Chain) \in Nat /\ Len(Chain) # 0
      BY <2>2, <2>3, EmptyLength, Zenon
    <3>2. 1 \in 1..Len(Chain)
      BY <3>1
    <3>3. Chain[1] \in 1..Len(car)
      BY <2>2, <3>2, ElementOfSeq, Zenon
    <3> QED
      BY <2>1, <2>2, <2>3, <3>3, NilAssumption, Zenon
  <2> QED
    BY <2>2, <2>3, Zenon
<1>4. head \in Pairs \cup {Nil} /\ tail \in Pairs \cup {Nil} /\ size \in Int
  <2>1. Len(Chain) \in Nat /\ (Chain = <<>> <=> Len(Chain) = 0)
    BY <1>3, EmptyLength, Zenon
  <2>2. size \in Int
    BY <1>1, <2>1
  <2>3. CASE Chain = <<>>
    BY <1>1, <1>3, <2>2, <2>3, Zenon DEF Last
  <2>4. CASE Chain # <<>>
    <3>1. 1 \in 1..Len(Chain) /\ Len(Chain) \in 1..Len(Chain)
      BY <2>1, <2>4
    <3>2. Chain[1] \in 1..Len(car) /\ Chain[Len(Chain)] \in 1..Len(car)
      BY <1>3, <3>1, ElementOfSeq, Zenon
    <3> QED
      BY <1>1, <1>3, <2>2, <2>4, <3>2, Zenon DEF Last, Pairs
  <2> QED
    BY <2>3, <2>4, Zenon
<1>5. cdr \in [Pairs -> Pairs \cup {Nil}]
  BY <1>1, Zenon DEF Linked, Pairs
<1>6. TypeOK
  BY <1>1, <1>4, <1>5, Zenon DEF Inv, Control, TypeOK
<1> QED
  BY <1>1, <1>3, <1>6, Zenon DEF ListIntact, Last

\* The list is well formed in every state that shared-queue-put!, -get!, -remove! and
\* -clear! reach, whatever the threads, the values, the max-length and the timeouts:
\* the tail is its last pair, the field size its length, and a positive max-length
\* is kept.
THEOREM ListsAreIntact == Spec => []ListIntact
BY Inductive, InvImplies, PTL

LEMMA InitRefines == Init => Abstract!Init
<1> SUFFICES ASSUME Init PROVE Abstract!Init
  OBVIOUS
<1>1. List /\ size = 0 /\ car = <<>> /\ maxLength \in MaxLengths
  BY InitEstablishes, Zenon DEF Inv, Init
<1>2. Len(Chain) = 0
  BY <1>1, Zenon DEF List
<1>3. Len(car) = 0
  BY <1>1
<1>4. [i \in 1..0 |-> car[Chain[i]]] = <<>>
  OBVIOUS
<1> QED
  BY <1>1, <1>2, <1>3, <1>4, Zenon DEF Abstract!Init

LEMMA StepRefines ==
  ASSUME Inv, Inv', ListStep
  PROVE  [Abstract!Next]_<<[i \in 1..Len(Chain) |-> car[Chain[i]]], Len(car), maxLength>>
<1> DEFINE q == QueueOf(Chain, car)
<1>1. car \in Seq(Values) /\ Chain \in Seq(1..Len(car))
  BY Zenon DEF Inv, List, Path
<1>2. q \in Seq(Values) /\ Len(q) = Len(Chain)
  BY <1>1, QueueIsSeq, Zenon
<1>3. [i \in 1..Len(Chain) |-> car[Chain[i]]] = q
  BY Zenon DEF QueueOf
<1>4. [i \in 1..Len(Chain) |-> car[Chain[i]]]' = q'
  BY Zenon DEF QueueOf
<1>5. q' = QueueOf(Chain', car')
  BY Zenon DEF QueueOf
<1> HIDE DEF q
<1>6. CASE Stays
  BY <1>3, <1>4, <1>6, Zenon DEF Stays, q, QueueOf
<1>7. CASE TakesFirst
  <2>1. Len(Chain) \in Nat /\ Len(Chain) # 0
    BY <1>1, <1>7, EmptyLength, Zenon DEF TakesFirst
  <2>2. 1 \in 1..Len(Chain)
    BY <2>1
  <2>3. QueueOf(Without(Chain, 1), car) = Without(q, 1)
    BY <1>1, <2>2, QueueWithout, Zenon DEF q
  <2>4. q # <<>>
    BY <1>2, <2>1, EmptyLength, Zenon
  <2>5. q' = Tail(q)
    BY <1>2, <1>5, <1>7, <2>3, <2>4, WithoutIsTail, Zenon DEF TakesFirst
  <2>6. Abstract!Get
    BY <1>3, <1>4, <1>7, <2>4, <2>5, Zenon DEF TakesFirst, Abstract!Get
  <2> QED
    BY <2>6, Zenon DEF Abstract!Next
<1>8. CASE Empties
  <2>1. Len(<<>>) = 0
    OBVIOUS
  <2>2. [i \in 1..0 |-> car[<<>>[i]]] = <<>>
    OBVIOUS
  <2>3. q' = <<>>
    BY <1>5, <1>8, <2>1, <2>2, Zenon DEF Empties, QueueOf
  <2>4. Abstract!Clear
    BY <1>4, <1>8, <2>3, Zenon DEF Empties, Abstract!Clear
  <2> QED
    BY <2>4, Zenon DEF Abstract!Next
<1>9. ASSUME NEW v \in Values, PutsLast(v) PROVE Abstract!Next
  <2>1. q' = Append(q, v)
    BY <1>1, <1>5, <1>9, QueueAppend, Zenon DEF PutsLast, q
  <2>2. Len(car') = Len(car) + 1
    BY <1>1, <1>9, AppendProperties DEF PutsLast
  <2>3. maxLength > 0 => Len(q) < maxLength
    BY <1>2, <1>9, Zenon DEF PutsLast
  <2>4. Abstract!Put(v)
    BY <1>3, <1>4, <1>9, <2>1, <2>2, <2>3, Zenon DEF PutsLast, Abstract!Put
  <2> QED
    BY <2>4, Zenon DEF Abstract!Next
<1>10. ASSUME NEW v \in Values, TakesOut(v) PROVE Abstract!Next
  <2>1. PICK j \in 1..Len(Chain) : car[Chain[j]] = v /\ Chain' = Without(Chain, j)
    BY <1>10, Zenon DEF TakesOut
  <2>2. QueueOf(Without(Chain, j), car) = Without(q, j)
    BY <1>1, QueueWithout, Zenon DEF q
  <2>3. q[j] = v /\ j \in 1..Len(q)
    BY <1>2, <2>1, Zenon DEF q, QueueOf
  <2>4. q' = SubSeq(q, 1, j - 1) \o SubSeq(q, j + 1, Len(q))
    BY <1>2, <1>5, <1>10, <2>1, <2>2, <2>3, WithoutIsHalves, Zenon DEF TakesOut
  <2>5. Abstract!RemoveOne(v)
    BY <1>3, <1>4, <1>10, <2>3, <2>4, Zenon DEF TakesOut, Abstract!RemoveOne
  <2> QED
    BY <2>5, Zenon DEF Abstract!Next
<1> QED
  BY <1>6, <1>7, <1>8, <1>9, <1>10, Zenon DEF ListStep

\* Every step of the linked list is one step of a first-in first-out queue, or none:
\* shared-queue-get! takes the oldest element, shared-queue-put! adds one at the end and
\* only if there is room, shared-queue-remove! takes out one equal element and keeps the
\* order of the others, and no wait, wake-up or timeout changes the queue.
THEOREM QueueRefinement == Spec => ImplementsAbstractQueue
<1>1. Inv /\ Inv' /\ [Next]_vars
        => [Abstract!Next]_<<[i \in 1..Len(Chain) |-> car[Chain[i]]], Len(car), maxLength>>
  BY StepKeeps, StepRefines, Zenon
<1> QED
  BY <1>1, Inductive, InitRefines, PTL DEF Spec, ImplementsAbstractQueue, Abstract!Spec
=============================================================================
