----------------------------- MODULE SharedQueue -----------------------------
(***************************************************************************)
(* The shared queue of sitelib/util/concurrent/shared-queue.scm: a linked  *)
(* list with a head and a tail, its size, a counter w of the threads       *)
(* inside shared-queue-get!, a mutex and two condition variables.          *)
(*                                                                         *)
(* The mutex is an AbstractMutex.  A critical section is one step, except  *)
(* where it reads and writes w: a shared-queue-get! that times out changes *)
(* w without the mutex, so each of its reads and writes is a step.         *)
(***************************************************************************)
EXTENDS Integers, Sequences, FiniteSets

CONSTANTS Threads,      \* the threads that use the queue
          Maintainers,  \* those that also remove, clear and lock
          Values,       \* the objects put into it, told apart by equal?
          MaxLengths,   \* the max-lengths: -1 unbounded, 0 synchronised
          MaxPuts,      \* bound: how many elements are ever put
          MaxTimeouts,  \* bound: how often shared-queue-get! times out
          NoThread, Nil

ASSUME MaxLengthsAssumption == MaxLengths \subseteq Int
ASSUME BoundsAssumption == MaxPuts \in Nat /\ MaxTimeouts \in Nat
ASSUME ThreadsAssumption == IsFiniteSet(Threads)
ASSUME NoThreadAssumption == NoThread \notin Threads
ASSUME MaintainersAssumption == Maintainers \subseteq Threads
ASSUME NilAssumption == Nil \notin Int

VARIABLES head, tail, size,  \* the fields of the record
          maxLength,         \* the field max-length, which never changes
          w,                 \* the field w: threads inside shared-queue-get!
          lock,              \* who holds the mutex
          car, cdr,          \* the pairs of the list; pair n is the n-th ever put
          pc,                \* where each thread is
          reg,               \* what each thread last read from w
          timeouts           \* how often shared-queue-get! has timed out

vars == <<head, tail, size, maxLength, w, lock, car, cdr, pc, reg, timeouts>>
list == <<head, tail, size, car, cdr>>

Pairs == 1..Len(car)

\* glock: waits for the mutex to begin shared-queue-get!; gw: has read w, to add
\* itself; gtest: about to look at the head; gwait: waits on read-cv; grelock:
\* woken, waits for the mutex; gdeq: has read w, to take the element; gto, gto2:
\* timed out, without the mutex.  plock: waits for the mutex to look whether there
\* is room; pwait: waits on write-cv.  user: inside shared-queue-lock!.
Places == {"idle", "glock", "gw", "gtest", "gwait", "grelock", "gdeq", "gto", "gto2",
           "plock", "pwait", "user"}

Goto(t, place) == pc' = [pc EXCEPT ![t] = place]

\* condition-variable-broadcast!, with thread t going to place.
BroadcastAndGoto(from, to, t, place) ==
  pc' = [u \in Threads |-> IF u = t THEN place ELSE IF pc[u] = from THEN to ELSE pc[u]]

Init ==
  /\ head = Nil /\ tail = Nil /\ size = 0
  /\ maxLength \in MaxLengths
  /\ w = 0
  /\ lock = NoThread
  /\ car = <<>> /\ cdr = <<>>
  /\ pc = [t \in Threads |-> "idle"]
  /\ reg = [t \in Threads |-> 0]
  /\ timeouts = 0

(***************************************************************************)
(* shared-queue-get!                                                       *)
(***************************************************************************)
CallGet(t) ==
  /\ pc[t] = "idle"
  /\ Goto(t, "glock")
  /\ UNCHANGED <<list, w, lock, reg, timeouts, maxLength>>

\* (mutex-lock! (%lock sq)), and the read of w in (%w-set! sq (+ (%w sq) 1))
GetLock(t) ==
  /\ pc[t] = "glock" /\ lock = NoThread
  /\ lock' = t
  /\ reg' = [reg EXCEPT ![t] = w]
  /\ Goto(t, "gw")
  /\ UNCHANGED <<list, w, timeouts, maxLength>>

\* The write of w, and the broadcast that tells the writers of a new reader.
GetAnnounce(t) ==
  /\ pc[t] = "gw"
  /\ w' = reg[t] + 1
  /\ BroadcastAndGoto("pwait", "plock", t, "gtest")
  /\ reg' = [reg EXCEPT ![t] = 0]
  /\ UNCHANGED <<list, lock, timeouts, maxLength>>

\* shared-queue-empty?: wait on read-cv, which releases the mutex; else go on and
\* read w, to take it back by one.
GetTest(t) ==
  /\ pc[t] = "gtest"
  /\ IF head = Nil
     THEN /\ Goto(t, "gwait")
          /\ lock' = NoThread
          /\ UNCHANGED reg
     ELSE /\ Goto(t, "gdeq")
          /\ reg' = [reg EXCEPT ![t] = w]
          /\ UNCHANGED lock
  /\ UNCHANGED <<list, w, timeouts, maxLength>>

GetRelock(t) ==
  /\ pc[t] = "grelock" /\ lock = NoThread
  /\ lock' = t
  /\ Goto(t, "gtest")
  /\ UNCHANGED <<list, w, reg, timeouts, maxLength>>

\* Mutated: w is not taken back.
GetTakeKeepsW(t) ==
  /\ pc[t] = "gdeq"
  /\ head' = cdr[head]
  /\ tail' = IF cdr[head] = Nil THEN Nil ELSE tail
  /\ size' = size - 1
  /\ lock' = NoThread
  /\ reg' = [reg EXCEPT ![t] = 0]
  /\ Goto(t, "idle")
  /\ UNCHANGED <<car, cdr, w, timeouts, maxLength>>

\* Mutated: the tail keeps the pair taken off.
GetTakeKeepsTail(t) ==
  /\ pc[t] = "gdeq"
  /\ w' = reg[t] - 1
  /\ head' = cdr[head]
  /\ size' = size - 1
  /\ lock' = NoThread
  /\ reg' = [reg EXCEPT ![t] = 0]
  /\ Goto(t, "idle")
  /\ UNCHANGED <<car, cdr, tail, timeouts, maxLength>>

\* Take the first pair off the list and unlock the mutex.
GetTake(t) ==
  /\ pc[t] = "gdeq"
  /\ w' = reg[t] - 1
  /\ head' = cdr[head]
  /\ tail' = IF cdr[head] = Nil THEN Nil ELSE tail
  /\ size' = size - 1
  /\ lock' = NoThread
  /\ reg' = [reg EXCEPT ![t] = 0]
  /\ Goto(t, "idle")
  /\ UNCHANGED <<car, cdr, timeouts, maxLength>>

\* mutex-unlock! with read-cv returns #f, not holding the mutex.
GetTimeout(t) ==
  /\ pc[t] = "gwait" /\ timeouts < MaxTimeouts
  /\ timeouts' = timeouts + 1
  /\ Goto(t, "gto")
  /\ UNCHANGED <<list, w, lock, reg, maxLength>>

\* (%w-set! sq (- (%w sq) 1)), unlocked: a read, then a write.
GetTimeoutRead(t) ==
  /\ pc[t] = "gto"
  /\ reg' = [reg EXCEPT ![t] = w]
  /\ Goto(t, "gto2")
  /\ UNCHANGED <<list, w, lock, timeouts, maxLength>>

GetTimeoutWrite(t) ==
  /\ pc[t] = "gto2"
  /\ w' = reg[t] - 1
  /\ reg' = [reg EXCEPT ![t] = 0]
  /\ Goto(t, "idle")
  /\ UNCHANGED <<list, lock, timeouts, maxLength>>

(***************************************************************************)
(* shared-queue-put!                                                       *)
(***************************************************************************)
CallPut(t) ==
  /\ pc[t] = "idle"
  /\ Len(car) + Cardinality({u \in Threads : pc[u] \in {"plock", "pwait"}}) < MaxPuts
  /\ Goto(t, "plock")
  /\ UNCHANGED <<list, w, lock, reg, timeouts, maxLength>>

Overflows(count) == maxLength >= 0 /\ count + size > maxLength

MustWait == IF maxLength = 0 THEN w = 0 ELSE Overflows(1)

PutWait(t) ==
  /\ pc[t] = "plock" /\ lock = NoThread
  /\ MustWait
  /\ Goto(t, "pwait")
  /\ UNCHANGED <<list, w, lock, reg, timeouts, maxLength>>

\* Mutated: the broadcast is left out for a single reader.
WakeSeveralReaders(t) ==
  IF w > 1 THEN BroadcastAndGoto("gwait", "grelock", t, "idle") ELSE Goto(t, "idle")

\* (when (> (%w sq) 0) (condition-variable-broadcast! (%read-cv sq)))
WakeReaders(t) ==
  IF w > 0 THEN BroadcastAndGoto("gwait", "grelock", t, "idle") ELSE Goto(t, "idle")

\* A new pair behind the tail, and a broadcast if threads are inside
\* shared-queue-get!.
Put(t, v) ==
  /\ pc[t] = "plock" /\ lock = NoThread
  /\ ~MustWait
  /\ LET new == Len(car) + 1
     IN  /\ car' = Append(car, v)
         /\ cdr' = Append(IF tail = Nil THEN cdr ELSE [cdr EXCEPT ![tail] = new], Nil)
         /\ head' = IF tail = Nil THEN new ELSE head
         /\ tail' = new
  /\ size' = size + 1
  /\ WakeReaders(t)
  /\ UNCHANGED <<w, lock, reg, timeouts, maxLength>>

PutTimeout(t) ==
  /\ pc[t] = "pwait" /\ MaxTimeouts > 0
  /\ Goto(t, "idle")
  /\ UNCHANGED <<list, w, lock, reg, timeouts, maxLength>>

(***************************************************************************)
(* The operations that are one critical section.                           *)
(***************************************************************************)
\* The first pair with the object o from pair p on, or Nil.
FirstEqual(p, o) ==
  LET find[c \in Pairs \cup {Nil}] ==
        IF c = Nil \/ car[c] = o THEN c ELSE find[cdr[c]]
  IN  find[p]

\* The pair of the list before pair p; the search would end with the list.
Before(p) ==
  LET find[c \in Pairs] == IF cdr[c] \in {p, Nil} THEN c ELSE find[cdr[c]]
  IN  find[head]

\* Mutated: the tail stays when the last pair is removed.
RemoveKeepsTail(t, o) ==
  /\ t \in Maintainers
  /\ pc[t] = "idle" /\ lock = NoThread
  /\ LET found == IF head = Nil THEN Nil
                  ELSE IF car[head] # o /\ car[tail] = o THEN tail
                  ELSE FirstEqual(head, o)
     IN  /\ found # Nil
         /\ IF found = head
            THEN /\ head' = cdr[head]
                 /\ tail' = IF cdr[head] = Nil THEN Nil ELSE tail
                 /\ UNCHANGED cdr
            ELSE /\ cdr' = [cdr EXCEPT ![Before(found)] = cdr[found]]
                 /\ UNCHANGED <<head, tail>>
  /\ size' = size - 1
  /\ UNCHANGED <<w, lock, car, pc, reg, timeouts, maxLength>>

\* shared-queue-remove!: the head is looked at first, then the tail, then the
\* pairs in between; the pair before the one found is linked to the one after it.
Remove(t, o) ==
  /\ t \in Maintainers
  /\ pc[t] = "idle" /\ lock = NoThread
  /\ LET found == IF head = Nil THEN Nil
                  ELSE IF car[head] # o /\ car[tail] = o THEN tail
                  ELSE FirstEqual(head, o)
     IN  /\ found # Nil
         /\ IF found = head
            THEN /\ head' = cdr[head]
                 /\ tail' = IF cdr[head] = Nil THEN Nil ELSE tail
                 /\ UNCHANGED cdr
            ELSE /\ cdr' = [cdr EXCEPT ![Before(found)] = cdr[found]]
                 /\ tail' = IF found = tail THEN Before(found) ELSE tail
                 /\ UNCHANGED head
  /\ size' = size - 1
  /\ UNCHANGED <<w, lock, car, pc, reg, timeouts, maxLength>>

Clear(t) ==
  /\ t \in Maintainers
  /\ pc[t] = "idle" /\ lock = NoThread
  /\ size' = 0 /\ head' = Nil /\ tail' = Nil
  /\ UNCHANGED <<w, lock, car, cdr, pc, reg, timeouts, maxLength>>

\* shared-queue-lock! and shared-queue-unlock!
UserLock(t) ==
  /\ t \in Maintainers
  /\ pc[t] = "idle" /\ lock = NoThread
  /\ lock' = t
  /\ Goto(t, "user")
  /\ UNCHANGED <<list, w, reg, timeouts, maxLength>>

UserUnlock(t) ==
  /\ pc[t] = "user"
  /\ lock' = NoThread
  /\ Goto(t, "idle")
  /\ UNCHANGED <<list, w, reg, timeouts, maxLength>>

\* A wait on a condition variable may return without a signal.
SpuriousWakeup(t) ==
  /\ \/ pc[t] = "gwait" /\ Goto(t, "grelock")
     \/ pc[t] = "pwait" /\ Goto(t, "plock")
  /\ UNCHANGED <<list, w, lock, reg, timeouts, maxLength>>

\* The steps inside an operation, which the scheduler lets every thread take.
Continue(t) ==
  \/ GetLock(t) \/ GetAnnounce(t) \/ GetTest(t) \/ GetRelock(t) \/ GetTake(t)
  \/ GetTimeoutRead(t) \/ GetTimeoutWrite(t)
  \/ PutWait(t) \/ \E v \in Values : Put(t, v)
  \/ UserUnlock(t)

Next ==
  \E t \in Threads :
     \/ Continue(t)
     \/ CallGet(t) \/ GetTimeout(t)
     \/ CallPut(t) \/ PutTimeout(t)
     \/ \E o \in Values : Remove(t, o)
     \/ Clear(t)
     \/ UserLock(t)
     \/ SpuriousWakeup(t)

Spec == Init /\ [][Next]_vars

\* Every thread inside an operation that can go on does so.
FairSpec == Spec /\ \A t \in Threads : WF_vars(Continue(t))

(***************************************************************************)
(* Properties.                                                             *)
(***************************************************************************)
\* Every variable has its type.
TypeOK ==
  /\ car \in Seq(Values)
  /\ cdr \in [Pairs -> Pairs \cup {Nil}]
  /\ head \in Pairs \cup {Nil} /\ tail \in Pairs \cup {Nil}
  /\ size \in Int
  /\ maxLength \in MaxLengths
  /\ w \in Int
  /\ lock \in Threads \cup {NoThread}
  /\ pc \in [Threads -> Places]
  /\ reg \in [Threads -> Int]
  /\ timeouts \in 0..MaxTimeouts

\* The pairs of the list, from the head on.
Chain ==
  LET from[c \in Pairs \cup {Nil}] == IF c = Nil THEN <<>> ELSE <<c>> \o from[cdr[c]]
  IN  from[head]

\* The list is well formed after any mix of operations: it ends in the tail, behind
\* which shared-queue-put! links the next pair, the field size is its length, and that
\* is never more than a positive max-length, though several writers wake for one place.
ListIntact ==
  /\ TypeOK
  /\ maxLength > 0 => size <= maxLength
  /\ size = Len(Chain)
  /\ tail = IF head = Nil THEN Nil ELSE Chain[Len(Chain)]

\* The threads that have added themselves to w and not yet taken themselves off.
Readers == {t \in Threads : pc[t] \in {"gtest", "gwait", "grelock", "gdeq"}}

\* w is the number of threads inside shared-queue-get!, which shared-queue-put!
\* relies on to leave out the broadcast.
ReadersCounted == w = Cardinality(Readers)

\* shared-queue-get! waits until the queue gets something, and not longer: no
\* thread sleeps on read-cv while there is an element.
NoReaderSleepsOnElement == head # Nil => \A t \in Threads : pc[t] # "gwait"

\* Until a shared-queue-get! times out, w is right and no reader is forgotten,
\* though the threads change w at many places and read it to save a broadcast.
ReadersServed == timeouts = 0 => ReadersCounted /\ NoReaderSleepsOnElement

\* Every step is a step of a bounded FIFO queue: no element is lost, taken twice
\* or overtaken, though two condition variables and three locations are involved.
Abstract == INSTANCE AbstractQueue WITH
              queue <- [i \in 1..Len(Chain) |-> car[Chain[i]]],
              puts <- Len(car)
ImplementsAbstractQueue == Abstract!Spec

\* Readers and writers never block each other for good: an element at the head of
\* the queue is taken or removed once a thread is inside shared-queue-get!, if no
\* get has timed out and no thread keeps taking the mutex with shared-queue-lock!.
ElementIsTaken ==
  [](timeouts = 0 /\ \A t \in Threads : pc[t] # "user")
    => \A c \in 1..MaxPuts : head = c /\ Readers # {} ~> head # c
=============================================================================
