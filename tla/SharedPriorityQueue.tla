------------------------- MODULE SharedPriorityQueue -------------------------
(***************************************************************************)
(* The shared priority queue of sitelib/util/concurrent/shared-queue.scm:  *)
(* a binary heap in a vector that grows, its size, and the waiting of the  *)
(* shared queue (SharedQueue).                                             *)
(*                                                                         *)
(* The mutex is an AbstractMutex and a critical section one step, except   *)
(* for the accesses to w, as in SharedQueue.  remove! reads the field      *)
(* elements before it takes the mutex, which is a step of its own.         *)
(***************************************************************************)
EXTENDS Integers, Sequences, FiniteSets, FiniteSetsExt

CONSTANTS PqThreads,     \* the threads that use the queue
          Objects,       \* positive integers, which compare orders
          PqMaxLengths,  \* the max-lengths: -1 unbounded, 0 synchronised
          Capacity,      \* of the first vector, 10 in the code, if unbounded
          PqMaxPuts,     \* bound: how many objects are ever put, by max-length
          PqMaxTimeouts, \* bound: how often get! times out, by max-length
          Nobody

ASSUME ObjectsAssumption == Objects \subseteq Nat \ {0}
ASSUME PqAssumption ==
  /\ PqMaxLengths \subseteq Int
  /\ Capacity \in Nat
  /\ PqMaxPuts \in [PqMaxLengths -> Nat] /\ PqMaxTimeouts \in [PqMaxLengths -> Nat]
  /\ Nobody \notin PqThreads

VARIABLES vectors,     \* the vectors the queue has had; the last is elements
          count,       \* the field size
          bound,       \* the field max-length, which never changes
          pqW,         \* the field w
          pqLock,      \* who holds the mutex
          pqPc,        \* where each thread is
          pqReg,       \* what it last read: w, or which vector is elements
          pqPuts,      \* how many objects have been put
          pqTimeouts,  \* how often get! has timed out
          stale        \* remove! has worked on a vector that was replaced

pqVars == <<vectors, count, bound, pqW, pqLock, pqPc, pqReg, pqPuts, pqTimeouts, stale>>
pqRest == <<bound, pqPuts, pqTimeouts>>

\* What a vector holds where there is no object: empty-marker, and what
\* make-vector leaves in a vector that has grown.
Empty == 0
Unset == -1

Es == Len(vectors)
elements == vectors[Es]

PqGoto(t, place) == pqPc' = [pqPc EXCEPT ![t] = place]

\* condition-variable-broadcast!, with thread t going to place.
PqBroadcast(from, to, t, place) ==
  pqPc' = [u \in PqThreads |->
             IF u = t THEN place ELSE IF pqPc[u] = from THEN to ELSE pqPc[u]]

PqInit ==
  /\ bound \in PqMaxLengths
  /\ vectors = <<[i \in 1..(IF bound >= 0 THEN bound ELSE Capacity) |-> Empty]>>
  /\ count = 0 /\ pqW = 0
  /\ pqLock = Nobody
  /\ pqPc = [t \in PqThreads |-> "idle"]
  /\ pqReg = [t \in PqThreads |-> 0]
  /\ pqPuts = 0 /\ pqTimeouts = 0
  /\ stale = FALSE

(***************************************************************************)
(* The heap.  Position k of the code is element k + 1 of the sequence.     *)
(* The sifting looks only at elements that it has not yet written, so they *)
(* are those of the vector that it starts with.                            *)
(***************************************************************************)
shift_up(es, k, o) ==
  LET parent(j) == (j - 1) \div 2
      up[j \in 0..k] ==
        IF j > 0 /\ o < es[parent(j) + 1]
        THEN [up[parent(j)] EXCEPT ![j + 1] = es[parent(j) + 1]]
        ELSE [es EXCEPT ![j + 1] = o]
  IN  up[k]

\* Mutated: only the left child is looked at.
ShiftDownLeft(es, size, k, x) ==
  LET child(j) == 2 * j + 1
      down[j \in 0..size - 1] ==
        IF j < size \div 2 /\ x > es[child(j) + 1]
        THEN [down[child(j)] EXCEPT ![j + 1] = es[child(j) + 1]]
        ELSE [es EXCEPT ![j + 1] = x]
  IN  down[k]

shift_down(es, size, k, x) ==
  LET left(j) == 2 * j + 1
      right(j) == left(j) + 1
      child(j) == IF right(j) < size /\ es[left(j) + 1] > es[right(j) + 1]
                  THEN right(j) ELSE left(j)
      down[j \in 0..size - 1] ==
        IF j < size \div 2 /\ x > es[child(j) + 1]
        THEN [down[child(j)] EXCEPT ![j + 1] = es[child(j) + 1]]
        ELSE [es EXCEPT ![j + 1] = x]
  IN  down[k]

\* The vector that grow! makes: twice the size and two more, below 64.
grow(old, size) ==
  [i \in 1..size + (IF size < 64 THEN size + 2 ELSE size \div 2) |->
     IF i <= size THEN old[i] ELSE Unset]

\* Vectors that nothing refers to any more are gone.
Collected(vs) ==
  [i \in 1..Len(vs) |->
     IF i = Len(vs) \/ \E t \in PqThreads : pqPc[t] = "rlock" /\ pqReg[t] = i
     THEN vs[i] ELSE <<>>]

(***************************************************************************)
(* shared-priority-queue-get!                                              *)
(***************************************************************************)
PqCallGet(t) ==
  /\ pqPc[t] = "idle"
  /\ PqGoto(t, "glock")
  /\ UNCHANGED <<vectors, count, pqW, pqLock, pqReg, stale, pqRest>>

PqGetLock(t) ==
  /\ pqPc[t] = "glock" /\ pqLock = Nobody
  /\ pqLock' = t
  /\ pqReg' = [pqReg EXCEPT ![t] = pqW]
  /\ PqGoto(t, "gw")
  /\ UNCHANGED <<vectors, count, pqW, stale, pqRest>>

PqGetAnnounce(t) ==
  /\ pqPc[t] = "gw"
  /\ pqW' = pqReg[t] + 1
  /\ PqBroadcast("pwait", "plock", t, "gtest")
  /\ pqReg' = [pqReg EXCEPT ![t] = 0]
  /\ UNCHANGED <<vectors, count, pqLock, stale, pqRest>>

PqGetTest(t) ==
  /\ pqPc[t] = "gtest"
  /\ IF count = 0
     THEN PqGoto(t, "gwait") /\ pqLock' = Nobody /\ UNCHANGED pqReg
     ELSE PqGoto(t, "gdeq") /\ pqReg' = [pqReg EXCEPT ![t] = pqW] /\ UNCHANGED pqLock
  /\ UNCHANGED <<vectors, count, pqW, stale, pqRest>>

PqGetRelock(t) ==
  /\ pqPc[t] = "grelock" /\ pqLock = Nobody
  /\ pqLock' = t
  /\ PqGoto(t, "gtest")
  /\ UNCHANGED <<vectors, count, pqW, pqReg, stale, pqRest>>

\* The first object is taken, the last one sifted down from its place.
PqGetTake(t) ==
  /\ pqPc[t] = "gdeq"
  /\ LET s == count - 1
         x == elements[s + 1]
         es == [elements EXCEPT ![s + 1] = Empty]
     IN  vectors' = [vectors EXCEPT ![Es] =
                       IF s = 0 THEN es ELSE shift_down(es, s, 0, x)]
  /\ count' = count - 1
  /\ pqW' = pqReg[t] - 1
  /\ pqReg' = [pqReg EXCEPT ![t] = 0]
  /\ pqLock' = Nobody
  /\ PqGoto(t, "idle")
  /\ UNCHANGED <<stale, pqRest>>

PqGetTimeout(t) ==
  /\ pqPc[t] = "gwait" /\ pqTimeouts < PqMaxTimeouts[bound]
  /\ pqTimeouts' = pqTimeouts + 1
  /\ PqGoto(t, "gto")
  /\ UNCHANGED <<vectors, count, bound, pqW, pqLock, pqReg, pqPuts, stale>>

PqGetTimeoutRead(t) ==
  /\ pqPc[t] = "gto"
  /\ pqReg' = [pqReg EXCEPT ![t] = pqW]
  /\ PqGoto(t, "gto2")
  /\ UNCHANGED <<vectors, count, pqW, pqLock, stale, pqRest>>

PqGetTimeoutWrite(t) ==
  /\ pqPc[t] = "gto2"
  /\ pqW' = pqReg[t] - 1
  /\ pqReg' = [pqReg EXCEPT ![t] = 0]
  /\ PqGoto(t, "idle")
  /\ UNCHANGED <<vectors, count, pqLock, stale, pqRest>>

(***************************************************************************)
(* shared-priority-queue-put!                                              *)
(***************************************************************************)
PqCallPut(t) ==
  /\ pqPc[t] = "idle"
  /\ pqPuts + Cardinality({u \in PqThreads : pqPc[u] \in {"plock", "pwait"}})
       < PqMaxPuts[bound]
  /\ PqGoto(t, "plock")
  /\ UNCHANGED <<vectors, count, pqW, pqLock, pqReg, stale, pqRest>>

PqOverflows(n) == bound >= 0 /\ n + count > bound

PqMustWait == IF bound = 0 THEN pqW = 0 ELSE PqOverflows(1)

PqPutWait(t) ==
  /\ pqPc[t] = "plock" /\ pqLock = Nobody
  /\ PqMustWait
  /\ PqGoto(t, "pwait")
  /\ UNCHANGED <<vectors, count, pqW, pqLock, pqReg, stale, pqRest>>

\* (when (> (%spq-w spq) 0) (condition-variable-broadcast! (%spq-cv spq)))
PqWakeReaders(t) ==
  IF pqW > 0 THEN PqBroadcast("gwait", "grelock", t, "idle") ELSE PqGoto(t, "idle")

\* The vector grows if it is full; the object is sifted up from the end.
PqPut(t, o) ==
  /\ pqPc[t] = "plock" /\ pqLock = Nobody
  /\ ~PqMustWait
  /\ LET vs == IF count >= Len(elements) THEN Append(vectors, grow(elements, count))
               ELSE vectors
         n == Len(vs)
     IN  vectors' = Collected([vs EXCEPT ![n] =
                       IF count = 0 THEN [@ EXCEPT ![1] = o] ELSE shift_up(@, count, o)])
  /\ count' = count + 1
  /\ pqPuts' = pqPuts + 1
  /\ PqWakeReaders(t)
  /\ UNCHANGED <<bound, pqW, pqLock, pqReg, pqTimeouts, stale>>

PqPutTimeout(t) ==
  /\ pqPc[t] = "pwait" /\ PqMaxTimeouts[bound] > 0
  /\ PqGoto(t, "idle")
  /\ UNCHANGED <<vectors, count, pqW, pqLock, pqReg, stale, pqRest>>

(***************************************************************************)
(* shared-priority-queue-remove!, clear!, lock! and unlock!                *)
(***************************************************************************)
\* (define es (%spq-es spq)), before the mutex is taken.
PqCallRemove(t) ==
  /\ pqPc[t] = "idle"
  /\ pqReg' = [pqReg EXCEPT ![t] = Es]
  /\ PqGoto(t, "rlock")
  /\ UNCHANGED <<vectors, count, pqW, pqLock, stale, pqRest>>

\* Where find stops in the vector es: at an object equal to o, or, only in a vector
\* that was replaced, where there is no object to compare or no position.
Stops(es, o) ==
  {i \in 0..count - 1 : i >= Len(es) \/ es[i + 1] \notin Objects \/ es[i + 1] = o}

\* Mutated: the object moved to the hole is only sifted down.
RemovedAtDown(e, i) ==
  LET s == count - 1
      cleared == [vectors EXCEPT ![e][s + 1] = Empty]
  IN  IF i = s THEN cleared
      ELSE [cleared EXCEPT ![Es] = shift_down(@, s, i, vectors[e][s + 1])]

\* remove-at: the last object of vector e moves to the hole at i and is sifted down
\* or up; the sifting looks at the field elements again.
RemovedAt(e, i) ==
  LET s == count - 1
      moved == vectors[e][s + 1]
      cleared == [vectors EXCEPT ![e][s + 1] = Empty]
      down == [cleared EXCEPT ![Es] = shift_down(@, s, i, moved)]
  IN  CASE i = s -> cleared
        [] i # s /\ down[e][i + 1] = moved ->
              [down EXCEPT ![Es] = shift_up(@, i, moved)]
        [] OTHER -> down

PqRemove(t, o) ==
  /\ pqPc[t] = "rlock" /\ pqLock = Nobody
  /\ LET e == pqReg[t]
         i == Min(Stops(vectors[e], o))
     IN  /\ Stops(vectors[e], o) # {}
         /\ i < Len(vectors[e]) /\ vectors[e][i + 1] = o
         /\ count <= Len(vectors[e])
         /\ i < (count - 1) \div 2 => vectors[e][count] \in Objects
         /\ vectors' = RemovedAt(e, i)
         /\ stale' = (e # Es)
  /\ count' = count - 1
  /\ PqBroadcast("pwait", "plock", t, "idle")
  /\ pqReg' = [pqReg EXCEPT ![t] = 0]
  /\ UNCHANGED <<pqW, pqLock, pqRest>>

PqRemoveNothing(t, o) ==
  /\ pqPc[t] = "rlock" /\ pqLock = Nobody
  /\ Stops(vectors[pqReg[t]], o) = {}
  /\ stale' = (pqReg[t] # Es)
  /\ PqGoto(t, "idle")
  /\ pqReg' = [pqReg EXCEPT ![t] = 0]
  /\ UNCHANGED <<vectors, count, pqW, pqLock, pqRest>>

\* In a vector that was replaced, vector-ref or compare may raise; the mutex stays
\* locked.
PqRemoveRaises(t, o) ==
  /\ pqPc[t] = "rlock" /\ pqLock = Nobody
  /\ LET e == pqReg[t]
         i == Min(Stops(vectors[e], o))
         found == i < Len(vectors[e]) /\ vectors[e][i + 1] = o
         last == found /\ count <= Len(vectors[e])
     IN  /\ Stops(vectors[e], o) # {}
         /\ last => i < (count - 1) \div 2 /\ vectors[e][count] \notin Objects
         /\ count' = IF found THEN count - 1 ELSE count
         /\ vectors' = IF last THEN [vectors EXCEPT ![e][count] = Empty] ELSE vectors
  /\ stale' = TRUE
  /\ pqLock' = t
  /\ PqGoto(t, "raised")
  /\ UNCHANGED <<pqW, pqReg, pqRest>>

PqClear(t) ==
  /\ pqPc[t] = "idle" /\ pqLock = Nobody
  /\ vectors' = [vectors EXCEPT ![Es] =
                    [i \in 1..Len(@) |-> IF i <= count THEN Empty ELSE @[i]]]
  /\ count' = 0
  /\ UNCHANGED <<pqW, pqLock, pqPc, pqReg, stale, pqRest>>

PqUserLock(t) ==
  /\ pqPc[t] = "idle" /\ pqLock = Nobody
  /\ pqLock' = t
  /\ PqGoto(t, "user")
  /\ UNCHANGED <<vectors, count, pqW, pqReg, stale, pqRest>>

PqUserUnlock(t) ==
  /\ pqPc[t] = "user"
  /\ pqLock' = Nobody
  /\ PqGoto(t, "idle")
  /\ UNCHANGED <<vectors, count, pqW, pqReg, stale, pqRest>>

PqSpuriousWakeup(t) ==
  /\ \/ pqPc[t] = "gwait" /\ PqGoto(t, "grelock")
     \/ pqPc[t] = "pwait" /\ PqGoto(t, "plock")
  /\ UNCHANGED <<vectors, count, pqW, pqLock, pqReg, stale, pqRest>>

\* Bound: no step after one on a vector that was replaced.
PqNext ==
  /\ ~stale
  /\ \E t \in PqThreads :
        \/ PqCallGet(t) \/ PqGetLock(t) \/ PqGetAnnounce(t) \/ PqGetTest(t)
        \/ PqGetRelock(t) \/ PqGetTake(t)
        \/ PqGetTimeout(t) \/ PqGetTimeoutRead(t) \/ PqGetTimeoutWrite(t)
        \/ PqCallPut(t) \/ PqPutWait(t) \/ PqPutTimeout(t) \/ PqCallRemove(t)
        \/ \E o \in Objects : \/ PqPut(t, o) \/ PqRemove(t, o)
                              \/ PqRemoveNothing(t, o) \/ PqRemoveRaises(t, o)
        \/ PqClear(t) \/ PqUserLock(t) \/ PqUserUnlock(t)
        \/ PqSpuriousWakeup(t)

PqSpec == PqInit /\ [][PqNext]_pqVars

(***************************************************************************)
(* Properties.                                                             *)
(***************************************************************************)
\* The heap in the vector after any mix of put!, get!, remove! and clear!: every
\* object is at least the one at its parent, no place below the size is without an
\* object and none above it holds one, so get! finds a least object at 0.  This is
\* so until a remove! works on a vector that put! has replaced.
HeapOrdered ==
  ~stale =>
    /\ count <= Len(elements)
    /\ \A k \in 1..Len(elements) : elements[k] \in Objects <=> k <= count
    /\ \A k \in 1..count - 1 : elements[(k - 1) \div 2 + 1] <= elements[k + 1]

\* How many of each object there are in the vector.
Content == [o \in Objects |-> Cardinality({k \in 1..Len(elements) : elements[k] = o})]

PriorityQueue == INSTANCE AbstractPriorityQueue WITH bag <- Content

\* Every step is one of a bounded bag, and get! takes a least object from it: none
\* is lost, doubled or overtaken when the vector grows or a hole is filled from the
\* end, unless a remove! works on a vector that put! has replaced.
ImplementsPriorityQueue ==
  [][\/ stale'
     \/ IF \E t \in PqThreads : pqPc[t] = "gdeq" /\ pqPc'[t] = "idle"
        THEN PriorityQueue!Get /\ UNCHANGED bound
        ELSE PriorityQueue!Next \/ UNCHANGED <<Content, bound>>]_pqVars

=============================================================================
