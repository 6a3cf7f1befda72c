--------------------------- MODULE ThreadPoolProofs ---------------------------
(***************************************************************************)
(* No idling thread of the thread pool is forgotten, a release runs the    *)
(* tasks pushed before it, and thread-pool-wait-all! waits for them while  *)
(* every push finds an idling thread, proved for any number of pooled      *)
(* threads, clients, tasks and replaced threads.                           *)
(***************************************************************************)
EXTENDS ThreadPool, FiniteSetTheorems, TLAPS

Regs == [i : 0..N, where : -1..(N - 1), size : Int, queue : Pooled \cup {0}, thread : Pooled \cup {0},
         old : Pooled \cup {0}, seen : [Ids -> Pooled \cup {NoQueue}]]

\* The variables the argument is about.
Fields ==
  /\ threads \in [Ids -> Pooled] /\ queues \in [Ids -> Pooled \cup {NoQueue}]
  /\ idlings \in Seq(Ids)
  /\ content \in [Pooled -> Seq(Nat)] /\ given \in Nat
  /\ wpc \in [Pooled -> WorkerPlaces]
  /\ cpc \in [Clients -> ClientPlaces] /\ reg \in [Clients -> Regs]

\* The id and the queue a push has chosen.
Chosen ==
  \A c \in Clients :
    /\ cpc[c] \in {"read", "put"} => reg[c].where \in Ids
    /\ cpc[c] = "put" => reg[c].queue \in Pooled

Replacing(c) == cpc[c] \in {"clear", "terminate", "remove", "start"}

\* No two ids share a thread or a queue, and every thread has been started.
Distinct ==
  /\ \A v, w \in Ids : threads[v] = threads[w] => v = w
  /\ \A v, w \in Ids : queues[v] = queues[w] /\ queues[v] # NoQueue => v = w
  /\ \A w \in Ids : wpc[threads[w]] # "none"

\* While a thread is replaced its id has a queue that no thread reads, and no id has
\* the old queue.
Replacement ==
  \A c \in Clients : Replacing(c) =>
    /\ c \in Managers
    /\ reg[c].i \in Ids /\ reg[c].queue \in Pooled /\ reg[c].old \in Pooled
    /\ reg[c].thread = threads[reg[c].i]
    /\ wpc[reg[c].queue] = "none"
    /\ queues[reg[c].i] \in {reg[c].queue, NoQueue}
    /\ \A w \in Ids : queues[w] # reg[c].old

\* An id that a client took counts only as long as its task will reach the thread.
Taken(w) ==
  \E c \in Clients :
    /\ reg[c].where = w
    /\ cpc[c] = "read" \/ (cpc[c] = "put" /\ reg[c].queue = threads[w])
Waiting(w) ==
  threads[w] = queues[w] /\ wpc[threads[w]] = "get" /\ content[threads[w]] = <<>>
Listed == \A w \in Ids : Waiting(w) => w \in Elements(idlings) \/ Taken(w)

\* What makes the property inductive.
IInv == Fields /\ Chosen /\ Distinct /\ Replacement /\ Listed

LEMMA ElementsAppend ==
  ASSUME NEW S, NEW s \in Seq(S), NEW e \in S
  PROVE  Elements(Append(s, e)) = Elements(s) \cup {e}
  <1>1. Elements(Append(s, e)) \subseteq Elements(s) \cup {e}
    BY DEF Elements
  <1>2. ASSUME NEW i \in 1..Len(s) PROVE s[i] \in Elements(Append(s, e))
    <2>1. i \in 1..Len(Append(s, e)) /\ Append(s, e)[i] = s[i] OBVIOUS
    <2> QED BY <2>1 DEF Elements
  <1>3. e \in Elements(Append(s, e))
    <2>1. Len(s) + 1 \in 1..Len(Append(s, e)) /\ Append(s, e)[Len(s) + 1] = e OBVIOUS
    <2> QED BY <2>1 DEF Elements
  <1> QED BY <1>1, <1>2, <1>3 DEF Elements

LEMMA ElementsTail ==
  ASSUME NEW S, NEW s \in Seq(S), s # <<>>, NEW e \in Elements(s), e # Head(s)
  PROVE  e \in Elements(Tail(s))
  <1>1. PICK i \in 1..Len(s) : s[i] = e BY DEF Elements
  <1>2. i # 1 BY <1>1
  <1>3. i - 1 \in 1..Len(Tail(s)) /\ Tail(s)[i - 1] = e BY <1>1, <1>2
  <1> QED BY <1>3 DEF Elements

\* The list that shared-queue-remove! leaves.
LEMMA ElementsRemove ==
  ASSUME NEW S, NEW s \in Seq(S), NEW f \in 1..Len(s), NEW t,
         t = [i \in 1..(Len(s) - 1) |-> s[IF i < f THEN i ELSE i + 1]]
  PROVE  t \in Seq(S) /\ \A e \in Elements(s) : e # s[f] => e \in Elements(t)
  <1>1. t \in [1..(Len(s) - 1) -> S]
    OBVIOUS
  <1>2. t \in Seq(S) /\ Len(t) = Len(s) - 1
    BY <1>1
  <1>3. ASSUME NEW e \in Elements(s), e # s[f] PROVE e \in Elements(t)
    <2>1. PICK i \in 1..Len(s) : s[i] = e BY DEF Elements
    <2>2. CASE i < f
      <3>1. i \in 1..Len(t) /\ t[i] = e BY <2>1, <2>2, <1>2
      <3> QED BY <3>1 DEF Elements
    <2>3. CASE i > f
      <3>1. i - 1 \in 1..Len(t) /\ t[i - 1] = e BY <2>1, <2>3, <1>2
      <3> QED BY <3>1 DEF Elements
    <2> QED BY <2>1, <2>2, <2>3, <1>3
  <1> QED BY <1>2, <1>3

\* A queue that was put to is not empty.
LEMMA AppendNotEmpty ==
  ASSUME NEW S, NEW s \in Seq(S), NEW e \in S
  PROVE  Append(s, e) # <<>>
  <1>1. Len(Append(s, e)) = Len(s) + 1 /\ Len(s) \in Nat OBVIOUS
  <1> QED BY <1>1

LEMMA NoRegType == NoReg \in Regs
  BY SizeAssumption, BoundsAssumption DEF NoReg, Regs, Ids

LEMMA InitEstablishes == Init => IInv
  <1> SUFFICES ASSUME Init PROVE IInv
    OBVIOUS
  <1>1. Fields
    <2>1. given \in Nat BY DEF Init
    <2>2. idlings \in Seq(Ids) BY SizeAssumption DEF Init
    <2>3. reg \in [Clients -> Regs] BY NoRegType DEF Init
    <2>4. threads \in [Ids -> Pooled] BY SizeAssumption, BoundsAssumption DEF Init, Ids, Pooled
    <2>5. queues \in [Ids -> Pooled \cup {NoQueue}] BY <2>4 DEF Init
    <2>6. content \in [Pooled -> Seq(Nat)] /\ wpc \in [Pooled -> WorkerPlaces]
      BY DEF Init, WorkerPlaces
    <2>7. cpc \in [Clients -> ClientPlaces] BY DEF Init, ClientPlaces
    <2> QED BY <2>1, <2>2, <2>3, <2>4, <2>5, <2>6, <2>7 DEF Fields
  <1>2. Chosen /\ Replacement
    BY DEF Init, Chosen, Replacement, Replacing
  <1>3. Distinct
    BY SizeAssumption, BoundsAssumption, NoQueueAssumption DEF Init, Distinct, Ids, Pooled
  <1>4. Listed
    BY SizeAssumption, Zenon DEF Init, Listed, Elements, Ids
  <1> QED BY <1>1, <1>2, <1>3, <1>4 DEF IInv

\* A step that makes no thread wait, unlists no id and takes back none keeps every
\* waiting thread listed.
LEMMA ListedStep ==
  ASSUME Listed,
         \A w \in Ids : Waiting(w)' => Waiting(w),
         \A w \in Ids : Waiting(w)' /\ w \in Elements(idlings) => w \in Elements(idlings') \/ Taken(w)',
         \A w \in Ids : Waiting(w)' /\ Taken(w) => Taken(w)'
  PROVE  Listed'
  BY DEF Listed

\* A queue is only taken out of the vector, and a started thread stays started.
Frame ==
  /\ UNCHANGED threads
  /\ \A w \in Ids : queues'[w] \in {queues[w], NoQueue}
  /\ \A k \in Pooled : wpc'[k] = "none" <=> wpc[k] = "none"

LEMMA DistinctStep ==
  ASSUME Fields, Distinct, Frame
  PROVE  Distinct'
  <1>1. \A w \in Ids : threads[w] \in Pooled /\ threads'[w] = threads[w] BY DEF Fields, Frame
  <1>2. \A v, w \in Ids : queues'[v] = queues'[w] /\ queues'[v] # NoQueue => v = w
    BY DEF Distinct, Frame
  <1> QED BY <1>1, <1>2 DEF Distinct, Frame

LEMMA ChosenStep ==
  ASSUME Chosen,
         \A d \in Clients : \/ cpc'[d] = cpc[d] /\ reg'[d] = reg[d]
                            \/ cpc'[d] \notin {"read", "put"}
                            \/ cpc'[d] = "read" /\ reg'[d].where \in Ids
                            \/ cpc'[d] = "put" /\ reg'[d].where \in Ids /\ reg'[d].queue \in Pooled
  PROVE  Chosen'
  BY DEF Chosen

LEMMA ReplacementStep ==
  ASSUME Replacement, Frame,
         \A d \in Clients : Replacing(d)' => Replacing(d) /\ reg'[d] = reg[d]
  PROVE  Replacement'
  <1> SUFFICES ASSUME NEW d \in Clients, Replacing(d)'
               PROVE  /\ d \in Managers
                      /\ reg'[d].i \in Ids /\ reg'[d].queue \in Pooled /\ reg'[d].old \in Pooled
                      /\ reg'[d].thread = threads'[reg'[d].i]
                      /\ wpc'[reg'[d].queue] = "none"
                      /\ queues'[reg'[d].i] \in {reg'[d].queue, NoQueue}
                      /\ \A w \in Ids : queues'[w] # reg'[d].old
    BY Zenon DEF Replacement
  <1>1. Replacing(d) /\ reg'[d] = reg[d] OBVIOUS
  <1>2. /\ d \in Managers
        /\ reg[d].i \in Ids /\ reg[d].queue \in Pooled /\ reg[d].old \in Pooled
        /\ reg[d].thread = threads[reg[d].i]
        /\ wpc[reg[d].queue] = "none"
        /\ queues[reg[d].i] \in {reg[d].queue, NoQueue}
        /\ \A w \in Ids : queues[w] # reg[d].old
    BY <1>1 DEF Replacement
  <1>3. reg[d].old # NoQueue BY <1>2, NoQueueAssumption DEF Pooled
  <1> QED BY <1>1, <1>2, <1>3 DEF Frame

\* Client c goes to place with the variables r.
Move(c, place, r) == cpc' = [cpc EXCEPT ![c] = place] /\ reg' = [reg EXCEPT ![c] = r]

LEMMA MoveOne ==
  ASSUME Fields, NEW c \in Clients, NEW place, NEW r, Move(c, place, r)
  PROVE  /\ cpc'[c] = place /\ reg'[c] = r
         /\ \A d \in Clients : d # c => cpc'[d] = cpc[d] /\ reg'[d] = reg[d]
  BY DEF Fields, Move

\* What the step of a client does not disturb.
LEMMA ClientFrame ==
  ASSUME Fields, Chosen, Distinct, Replacement, Frame,
         NEW c \in Clients, NEW place, NEW r, Move(c, place, r),
         \/ place \notin {"clear", "terminate", "remove", "start"}
         \/ Replacing(c) /\ r = reg[c],
         place \in {"read", "put"} => r.where \in Ids,
         place = "put" => r.queue \in Pooled
  PROVE  Chosen' /\ Distinct' /\ Replacement'
  <1>1. /\ cpc'[c] = place /\ reg'[c] = r
        /\ \A d \in Clients : d # c => cpc'[d] = cpc[d] /\ reg'[d] = reg[d]
    BY MoveOne, Zenon
  <1>2. ASSUME NEW d \in Clients
        PROVE  \/ cpc'[d] = cpc[d] /\ reg'[d] = reg[d]
               \/ cpc'[d] \notin {"read", "put"}
               \/ cpc'[d] = "read" /\ reg'[d].where \in Ids
               \/ cpc'[d] = "put" /\ reg'[d].where \in Ids /\ reg'[d].queue \in Pooled
    BY <1>1
  <1>3. Chosen' BY <1>2, ChosenStep, Zenon
  <1>4. \A d \in Clients : Replacing(d)' => Replacing(d) /\ reg'[d] = reg[d]
    BY <1>1 DEF Replacing
  <1>5. Replacement' BY <1>4, ReplacementStep, Zenon
  <1> QED BY <1>3, <1>5, DistinctStep, Zenon

\* What the step of a pooled thread does not disturb.
LEMMA WorkerFrame ==
  ASSUME Fields, Chosen, Distinct, Replacement, NEW k \in Pooled, NEW place,
         wpc[k] # "none", place # "none", Work(k, place), UNCHANGED <<threads, queues, cpc, reg>>
  PROVE  Chosen' /\ Distinct' /\ Replacement'
  <1>1. Frame BY DEF Fields, Frame, Work
  <1>2. Distinct' BY <1>1, DistinctStep, Zenon
  <1>3. Chosen' BY Zenon DEF Chosen
  <1>4. \A d \in Clients : Replacing(d)' => Replacing(d) /\ reg'[d] = reg[d]
    BY Zenon DEF Replacing
  <1>5. Replacement' BY <1>1, <1>4, ReplacementStep, Zenon
  <1> QED BY <1>2, <1>3, <1>5

\* The id a client holds stays taken while the client stays where it is.
LEMMA TakenFrame ==
  ASSUME Fields, NEW c \in Clients, NEW place, NEW r, Move(c, place, r), UNCHANGED threads,
         cpc[c] \notin {"read", "put"}
  PROVE  \A w \in Ids : Taken(w) => Taken(w)'
  <1>1. \A d \in Clients : d # c => cpc'[d] = cpc[d] /\ reg'[d] = reg[d]
    BY MoveOne, Zenon
  <1> SUFFICES ASSUME NEW w \in Ids, Taken(w) PROVE Taken(w)'
    OBVIOUS
  <1>2. PICK d \in Clients : /\ reg[d].where = w
                             /\ cpc[d] = "read" \/ (cpc[d] = "put" /\ reg[d].queue = threads[w])
    BY Zenon DEF Taken
  <1>3. d # c BY <1>2
  <1> QED BY <1>1, <1>2, <1>3, Zenon DEF Taken

\* A thread waits after a step only if it did before.
LEMMA WaitingFrame ==
  ASSUME Fields, UNCHANGED <<threads, queues>>,
         \A k \in Pooled : wpc'[k] = "get" => wpc[k] = "get",
         \A k \in Pooled : content'[k] = <<>> /\ wpc[k] = "get" => content[k] = <<>>
  PROVE  \A w \in Ids : Waiting(w)' => Waiting(w)
  <1>1. \A w \in Ids : threads[w] \in Pooled BY DEF Fields
  <1> QED BY <1>1 DEF Waiting

\* The loop of a pooled thread.
LEMMA WorkerPreserves ==
  ASSUME NEW k \in Pooled, IInv, Worker(k)
  PROVE  IInv'
  <1>0. Fields /\ Chosen /\ Distinct /\ Replacement /\ Listed BY DEF IInv
  <1>1. CASE \E w \in Ids : List(k, w)
    <2> PICK w \in Ids : List(k, w) BY <1>1
    <2>1. /\ wpc[k] = "list" /\ threads[w] = k /\ idlings' = Append(idlings, w)
          /\ Work(k, "get") /\ UNCHANGED <<threads, queues, content, cpc, reg, given>>
      BY Zenon DEF List, history
    <2>2. Elements(idlings') = Elements(idlings) \cup {w} /\ idlings' \in Seq(Ids)
      BY <1>0, <2>1, ElementsAppend DEF Fields
    <2>3. Fields' BY <1>0, <2>1, <2>2 DEF Fields, Work, WorkerPlaces
    <2>4. Chosen' /\ Distinct' /\ Replacement'
      BY <1>0, <2>1, WorkerFrame, Zenon
    <2>5. ASSUME NEW v \in Ids, Waiting(v)' PROVE v \in Elements(idlings') \/ Taken(v)'
      <3>1. CASE v = w BY <2>2, <3>1
      <3>2. CASE v # w
        <4>1. threads[v] # k /\ threads[v] \in Pooled BY <1>0, <2>1, <3>2 DEF Distinct, Fields
        <4>2. wpc'[threads[v]] = wpc[threads[v]] BY <1>0, <2>1, <4>1, Zenon DEF Fields, Work
        <4>3. Waiting(v) BY <2>1, <2>5, <4>2 DEF Waiting
        <4>4. Taken(v) => Taken(v)' BY <2>1, Zenon DEF Taken
        <4> QED BY <1>0, <2>2, <4>3, <4>4 DEF Listed
      <3> QED BY <3>1, <3>2
    <2> QED BY <2>3, <2>4, <2>5 DEF IInv, Listed
  <1>2. CASE Get(k)
    <2>1. /\ wpc[k] = "get" /\ content[k] # <<>> /\ content' = [content EXCEPT ![k] = Tail(@)]
          /\ UNCHANGED <<threads, queues, idlings, cpc, reg, given>>
      BY <1>2, Zenon DEF Get, history
    <2>2. PICK place \in {"done", "run"} : Work(k, place) BY <1>2 DEF Get
    <2>3. Tail(content[k]) \in Seq(Nat) BY <1>0, <2>1 DEF Fields
    <2>4. Fields' BY <1>0, <2>1, <2>2, <2>3 DEF Fields, Work, WorkerPlaces
    <2>5. Chosen' /\ Distinct' /\ Replacement'
      BY <1>0, <2>1, <2>2, WorkerFrame
    <2>6. \A j \in Pooled : wpc'[j] = "get" => wpc[j] = "get" /\ content'[j] = content[j]
      BY <1>0, <2>1, <2>2 DEF Fields, Work
    <2>7. \A w \in Ids : Waiting(w)' => Waiting(w)
      <3>1. \A w \in Ids : threads[w] \in Pooled BY <1>0 DEF Fields
      <3> QED BY <2>1, <2>6, <3>1, ZenonT(30) DEF Waiting
    <2>8. \A w \in Ids : Taken(w) => Taken(w)' BY <2>1, Zenon DEF Taken
    <2>9. Listed' BY <1>0, <2>1, <2>7, <2>8, ListedStep, Zenon
    <2> QED BY <2>4, <2>5, <2>9 DEF IInv
  <1>3. CASE Run(k)
    <2>1. /\ wpc[k] = "run" /\ Work(k, "check")
          /\ UNCHANGED <<threads, queues, idlings, content, cpc, reg, given>>
      BY <1>3, Zenon DEF Run
    <2>2. Fields' BY <1>0, <2>1 DEF Fields, Work, WorkerPlaces
    <2>3. Chosen' /\ Distinct' /\ Replacement' BY <1>0, <2>1, WorkerFrame, Zenon
    <2>4. \A j \in Pooled : wpc'[j] = "get" => wpc[j] = "get" BY <1>0, <2>1 DEF Fields, Work
    <2>5. \A w \in Ids : Waiting(w)' => Waiting(w) BY <1>0, <2>1, <2>4, WaitingFrame, Zenon
    <2>6. \A w \in Ids : Taken(w) => Taken(w)' BY <2>1, Zenon DEF Taken
    <2>7. Listed' BY <1>0, <2>1, <2>5, <2>6, ListedStep, Zenon
    <2> QED BY <2>2, <2>3, <2>7 DEF IInv
  <1>4. CASE Check(k)
    <2>1. /\ wpc[k] = "check" /\ UNCHANGED <<threads, queues, idlings, content, cpc, reg, given>>
          /\ Work(k, IF content[k] = <<>> THEN "list" ELSE "get")
      BY <1>4, Zenon DEF Check, history
    <2>2. PICK place \in {"list", "get"} : /\ Work(k, place)
                                           /\ place = "get" => content[k] # <<>>
      BY <2>1
    <2>3. Fields' BY <1>0, <2>1, <2>2, Zenon DEF Fields, Work, WorkerPlaces
    <2>4. Chosen' /\ Distinct' /\ Replacement' BY <1>0, <2>1, <2>2, WorkerFrame
    <2>5. \A j \in Pooled : wpc'[j] = "get" => wpc[j] = "get" \/ content[j] # <<>>
      BY <1>0, <2>1, <2>2 DEF Fields, Work
    <2>6. \A w \in Ids : Waiting(w)' => Waiting(w)
      <3>1. \A w \in Ids : threads[w] \in Pooled BY <1>0 DEF Fields
      <3> QED BY <2>1, <2>5, <3>1 DEF Waiting
    <2>7. \A w \in Ids : Taken(w) => Taken(w)' BY <2>1, Zenon DEF Taken
    <2>8. Listed' BY <1>0, <2>1, <2>6, <2>7, ListedStep, Zenon
    <2> QED BY <2>3, <2>4, <2>8 DEF IInv
  <1> QED BY <1>1, <1>2, <1>3, <1>4, Zenon DEF Worker

\* A client whose step changes none of this but its own place and variables.
LEMMA ElsewherePreserves ==
  ASSUME NEW c \in Clients, IInv,
         UNCHANGED <<threads, queues, idlings, content, wpc, given>>,
         NEW place \in ClientPlaces \ {"put", "clear", "terminate", "remove", "start"},
         NEW r \in Regs,
         place = "read" => r.where \in Ids,
         cpc[c] \notin {"read", "put"},
         Move(c, place, r)
  PROVE  IInv'
  <1>0. Fields /\ Chosen /\ Distinct /\ Replacement /\ Listed BY DEF IInv
  <1>1. Fields' BY <1>0 DEF Fields, Move
  <1>2. Frame BY Zenon DEF Frame
  <1>3. Chosen' /\ Distinct' /\ Replacement' BY <1>0, <1>2, ClientFrame
  <1>4. \A w \in Ids : Waiting(w)' => Waiting(w) BY Zenon DEF Waiting
  <1>5. \A w \in Ids : Taken(w) => Taken(w)' BY <1>0, TakenFrame, Zenon
  <1>6. Listed' BY <1>0, <1>4, <1>5, ListedStep, Zenon
  <1> QED BY <1>1, <1>3, <1>6 DEF IInv

\* The variables of a client before a step.
LEMMA OwnRegs ==
  ASSUME Fields, NEW c \in Clients
  PROVE  /\ reg[c] \in Regs /\ cpc[c] \in ClientPlaces
         /\ reg = [reg EXCEPT ![c] = reg[c]] /\ cpc = [cpc EXCEPT ![c] = cpc[c]]
  BY DEF Fields

\* find-available of thread-pool-push-task!
LEMMA FindPreserves ==
  ASSUME NEW c \in Clients, IInv, PushFind(c)
  PROVE  IInv'
  <1>0. Fields BY DEF IInv
  <1>1. /\ cpc[c] = "find" /\ reg[c] \in Regs /\ UNCHANGED <<threads, queues, idlings, content, wpc, given>>
        /\ cpc = [cpc EXCEPT ![c] = "find"]
    <2>1. cpc[c] = "find" /\ UNCHANGED <<threads, queues, idlings, content, wpc, given>>
      BY Zenon DEF PushFind, workers, history
    <2> QED BY <1>0, <2>1, OwnRegs
  <1>2. CASE reg[c].i = N /\ Go(c, "read") /\ Set(c, [reg[c] EXCEPT !.where = IF @ < 0 THEN 0 ELSE @])
    <2> DEFINE at == IF reg[c].where < 0 THEN 0 ELSE reg[c].where
               r == [reg[c] EXCEPT !.where = at]
    <2>1. at \in Ids /\ at \in -1..(N - 1)
      <3>1. reg[c].where \in -1..(N - 1) BY <1>1 DEF Regs
      <3> QED BY <3>1, SizeAssumption DEF Ids
    <2>2. Move(c, "read", r) BY <1>2 DEF Move, Go, Set
    <2> HIDE DEF at
    <2>3. r \in Regs /\ r.where = at BY <1>1, <2>1 DEF Regs
    <2> HIDE DEF r
    <2> QED BY <1>1, <2>1, <2>2, <2>3, ElsewherePreserves DEF ClientPlaces
  <1>3. CASE Go(c, "idle") /\ Set(c, NoReg)
    <2>1. Move(c, "idle", NoReg) BY <1>3 DEF Move, Go, Set
    <2> QED BY <1>1, <2>1, NoRegType, ElsewherePreserves DEF ClientPlaces
  <1>4. CASE /\ reg[c].i < N /\ queues[reg[c].i] # NoQueue /\ UNCHANGED cpc
             /\ LET s == Len(content[queues[reg[c].i]])
                IN  Set(c, IF s < reg[c].size THEN [reg[c] EXCEPT !.i = @ + 1, !.where = reg[c].i, !.size = s]
                                              ELSE [reg[c] EXCEPT !.i = @ + 1])
    <2> DEFINE n == reg[c].i
               s == Len(content[queues[n]])
    <2>1. n \in Ids /\ n + 1 \in 0..N /\ n \in -1..(N - 1)
      <3>1. n \in 0..N BY <1>1 DEF Regs
      <3> QED BY <1>4, <3>1, SizeAssumption DEF Ids
    <2>2. s \in Int BY <1>0, <1>4, <2>1 DEF Fields
    <2> HIDE DEF s
    <2>3. [reg[c] EXCEPT !.i = n + 1] \in Regs BY <1>1, <2>1 DEF Regs
    <2>4. [reg[c] EXCEPT !.i = n + 1, !.where = n, !.size = s] \in Regs BY <1>1, <2>1, <2>2,
        Zenon DEF Regs
    <2>5. PICK r \in Regs : Set(c, r)
      <3>1. Set(c, IF s < reg[c].size THEN [reg[c] EXCEPT !.i = n + 1, !.where = n, !.size = s]
                                      ELSE [reg[c] EXCEPT !.i = n + 1])
        BY <1>4 DEF s
      <3> HIDE DEF n
      <3> QED BY <2>3, <2>4, <3>1, Zenon
    <2>6. Move(c, "find", r) BY <1>1, <1>4, <2>5, Zenon DEF Move, Set
    <2> QED BY <1>1, <2>5, <2>6, ElsewherePreserves, Zenon DEF ClientPlaces
  <1> QED BY <1>2, <1>3, <1>4, Zenon DEF PushFind

\* thread-pool-push-task!, the id taken from idlings.
LEMMA GetPreserves ==
  ASSUME NEW c \in Clients, IInv, PushGet(c)
  PROVE  IInv'
  <1> DEFINE r == [NoReg EXCEPT !.where = Head(idlings)]
  <1>0. Fields /\ Chosen /\ Distinct /\ Replacement /\ Listed BY DEF IInv
  <1>1. /\ cpc[c] = "get" /\ idlings # <<>> /\ idlings' = Tail(idlings) /\ Move(c, "read", r)
        /\ UNCHANGED <<threads, queues, content, wpc, given>>
    BY Zenon DEF PushGet, Move, Go, Set, workers, history
  <1>2. Head(idlings) \in Ids /\ idlings' \in Seq(Ids)
    BY <1>0, <1>1 DEF Fields
  <1>3. r \in Regs /\ r.where = Head(idlings)
    <2>1. Head(idlings) \in -1..(N - 1) BY <1>2, SizeAssumption DEF Ids
    <2> QED BY <2>1, NoRegType DEF Regs, NoReg
  <1> HIDE DEF r
  <1>4. Fields' BY <1>0, <1>1, <1>2, <1>3 DEF Fields, Move, ClientPlaces
  <1>5. Frame BY <1>1, Zenon DEF Frame
  <1>6. Chosen' /\ Distinct' /\ Replacement' BY <1>0, <1>1, <1>2, <1>3, <1>5, ClientFrame
  <1>7. \A w \in Ids : Waiting(w)' => Waiting(w) BY <1>1, Zenon DEF Waiting
  <1>8. \A w \in Ids : Taken(w) => Taken(w)' BY <1>0, <1>1, TakenFrame
  <1>9. \A e \in Elements(idlings) : e = Head(idlings) \/ e \in Elements(idlings')
    BY <1>0, <1>1, ElementsTail DEF Fields
  <1>10. cpc'[c] = "read" /\ reg'[c].where = Head(idlings) BY <1>0, <1>1, <1>3, MoveOne
  <1>11. ASSUME NEW w \in Ids, Waiting(w)' PROVE w \in Elements(idlings') \/ Taken(w)'
    <2>1. w \in Elements(idlings) \/ Taken(w) BY <1>0, <1>7, <1>11, Zenon DEF Listed
    <2>2. CASE w = Head(idlings)
      <3>1. cpc'[c] = "read" /\ reg'[c].where = w BY <1>10, <2>2
      <3> QED BY <3>1, Zenon DEF Taken
    <2> QED BY <1>8, <1>9, <2>1, <2>2, Zenon
  <1>12. Listed' BY <1>11, Zenon DEF Listed
  <1> QED BY <1>4, <1>6, <1>12 DEF IInv

\* The queue of the id is read.
LEMMA ReadPreserves ==
  ASSUME NEW c \in Clients, IInv, PushRead(c)
  PROVE  IInv'
  <1> DEFINE at == reg[c].where
             q == queues[at]
             r == [NoReg EXCEPT !.queue = q, !.where = at]
  <1>0. Fields /\ Chosen /\ Distinct /\ Replacement /\ Listed BY DEF IInv
  <1>1. at \in Ids /\ cpc[c] = "read" /\ UNCHANGED <<threads, queues, idlings, content, wpc, given>>
    BY <1>0 DEF PushRead, Chosen, workers, history
  <1>2. Frame BY <1>1, Zenon DEF Frame
  <1>3. \A w \in Ids : Waiting(w)' => Waiting(w) /\ threads[w] = queues[w]
    BY <1>1, Zenon DEF Waiting
  <1>4. CASE q = NoQueue
    <2>1. Move(c, "idle", NoReg) BY <1>4, Zenon DEF PushRead, Move, Go, Set
    <2>2. Fields' BY <1>0, <1>1, <2>1, NoRegType DEF Fields, Move, ClientPlaces
    <2>3. Chosen' /\ Distinct' /\ Replacement' BY <1>0, <1>2, <2>1, ClientFrame
    <2>4. \A w \in Ids : Waiting(w)' => w # at
      <3>1. \A w \in Ids : threads[w] # NoQueue BY <1>0, NoQueueAssumption DEF Fields, Pooled
      <3> QED BY <1>3, <1>4, <3>1
    <2>5. ASSUME NEW w \in Ids, Waiting(w)', Taken(w) PROVE Taken(w)'
      <3>1. \A d \in Clients : d # c => cpc'[d] = cpc[d] /\ reg'[d] = reg[d]
        BY <1>0, <2>1, MoveOne
      <3>2. w # at BY <2>4, <2>5
      <3> HIDE DEF at
      <3>3. PICK d \in Clients : /\ reg[d].where = w
                                 /\ cpc[d] = "read" \/ (cpc[d] = "put" /\ reg[d].queue = threads[w])
        BY <2>5, Zenon DEF Taken
      <3>4. d # c BY <3>2, <3>3, Zenon DEF at
      <3> QED BY <1>1, <3>1, <3>3, <3>4, Zenon DEF Taken
    <2>6. Listed' BY <1>0, <1>1, <1>3, <2>5, ListedStep
    <2> QED BY <2>2, <2>3, <2>6 DEF IInv
  <1>5. CASE q # NoQueue
    <2>1. Move(c, "put", r) BY <1>5, Zenon DEF PushRead, Move, Go, Set
    <2>2. q \in Pooled BY <1>0, <1>1, <1>5 DEF Fields
    <2>3. r \in Regs /\ r.queue = q /\ r.where = at
      <3>1. at \in -1..(N - 1) BY <1>1, SizeAssumption DEF Ids
      <3> HIDE DEF at, q
      <3> QED BY <2>2, <3>1, NoRegType, ZenonT(30) DEF NoReg, Regs
    <2> HIDE DEF q, r
    <2>4. Fields' BY <1>0, <1>1, <2>1, <2>3, Zenon DEF Fields, Move, ClientPlaces
    <2>5. Chosen' /\ Distinct' /\ Replacement' BY <1>0, <1>1, <1>2, <2>1, <2>2, <2>3, ClientFrame
    <2>6. ASSUME NEW w \in Ids, Waiting(w)', Taken(w) PROVE Taken(w)'
      <3>1. /\ cpc'[c] = "put" /\ reg'[c] = r
            /\ \A d \in Clients : d # c => cpc'[d] = cpc[d] /\ reg'[d] = reg[d]
        BY <1>0, <2>1, MoveOne
      <3>2. PICK d \in Clients : /\ reg[d].where = w
                                 /\ cpc[d] = "read" \/ (cpc[d] = "put" /\ reg[d].queue = threads[w])
        BY <2>6, Zenon DEF Taken
      <3>3. CASE d = c
        <4>1. threads'[w] = q BY <1>1, <1>3, <2>6, <3>2, <3>3, Zenon DEF q
        <4>2. reg'[c].where = w /\ cpc'[c] = "put" /\ reg'[c].queue = threads'[w]
          BY <2>3, <3>1, <3>2, <3>3, <4>1
        <4> QED BY <4>2, Zenon DEF Taken
      <3>4. CASE d # c
        BY <1>1, <3>1, <3>2, <3>4, Zenon DEF Taken
      <3> QED BY <3>3, <3>4
    <2>7. Listed' BY <1>0, <1>1, <1>3, <2>6, ListedStep
    <2> QED BY <2>4, <2>5, <2>7 DEF IInv
  <1> QED BY <1>4, <1>5

\* The task is put into the queue.
LEMMA PutPreserves ==
  ASSUME NEW c \in Clients, IInv, PushPut(c)
  PROVE  IInv'
  <1> DEFINE q == reg[c].queue
             task == given + 1
  <1>0. Fields /\ Chosen /\ Distinct /\ Replacement /\ Listed BY DEF IInv
  <1>1. /\ cpc[c] = "put" /\ Move(c, "idle", NoReg) /\ content' = [content EXCEPT ![q] = Append(@, task)]
        /\ UNCHANGED <<threads, queues, idlings, wpc>> /\ given' = task
    BY Zenon DEF PushPut, Move, Go, Set
  <1>2. q \in Pooled BY <1>0, <1>1 DEF Chosen
  <1>3. task \in Nat BY <1>0 DEF Fields
  <1> HIDE DEF task
  <1>5. content[q] \in Seq(Nat) /\ content'[q] = Append(content[q], task) BY <1>0, <1>1, <1>2 DEF Fields
  <1>6. content'[q] # <<>> BY <1>3, <1>5, AppendNotEmpty, Zenon
  <1>7. Fields'
    <2>1. Append(content[q], task) \in Seq(Nat) BY <1>3, <1>5
    <2>2. content' \in [Pooled -> Seq(Nat)] BY <1>0, <1>1, <1>2, <2>1, Zenon DEF Fields
    <2>3. cpc' \in [Clients -> ClientPlaces] /\ reg' \in [Clients -> Regs]
      BY <1>0, <1>1, NoRegType DEF Fields, Move, ClientPlaces
    <2> QED BY <1>0, <1>1, <1>3, <2>2, <2>3, Zenon DEF Fields
  <1>8. Frame BY <1>1, Zenon DEF Frame
  <1>9. Chosen' /\ Distinct' /\ Replacement' BY <1>0, <1>1, <1>8, ClientFrame, Zenon
  <1>10. \A w \in Ids : Waiting(w)' => Waiting(w) /\ threads[w] # q
    <2>1. \A k \in Pooled : k # q => content'[k] = content[k] BY <1>0, <1>1, <1>2 DEF Fields
    <2>2. \A w \in Ids : threads[w] \in Pooled BY <1>0 DEF Fields
    <2> HIDE DEF q
    <2> QED BY <1>1, <1>6, <2>1, <2>2, Zenon DEF Waiting
  <1>11. ASSUME NEW w \in Ids, Waiting(w)', Taken(w) PROVE Taken(w)'
    <2>1. \A d \in Clients : d # c => cpc'[d] = cpc[d] /\ reg'[d] = reg[d]
      BY <1>0, <1>1, MoveOne, Zenon
    <2>2. PICK d \in Clients : /\ reg[d].where = w
                               /\ cpc[d] = "read" \/ (cpc[d] = "put" /\ reg[d].queue = threads[w])
      BY <1>11, Zenon DEF Taken
    <2>3. d # c BY <1>1, <1>10, <1>11, <2>2, Zenon
    <2> QED BY <1>1, <2>1, <2>2, <2>3, Zenon DEF Taken
  <1>12. Listed' BY <1>0, <1>1, <1>10, <1>11, ListedStep
  <1> QED BY <1>7, <1>9, <1>12 DEF IInv

LEMMA PushPreserves ==
  ASSUME NEW c \in Clients, IInv, Push(c) \/ PushGet(c) \/ PushFind(c) \/ PushRead(c) \/ PushPut(c)
  PROVE  IInv'
  <1>1. CASE Push(c)
    <2>1. Fields BY DEF IInv
    <2>2. PICK place \in {"get", "find"} : Go(c, place) BY <1>1 DEF Push
    <2>3. cpc[c] = "idle" /\ UNCHANGED <<threads, queues, idlings, content, wpc, given, reg>>
      BY <1>1, Zenon DEF Push, workers, history
    <2>4. Move(c, place, reg[c]) /\ reg[c] \in Regs BY <2>1, <2>2, <2>3, OwnRegs DEF Move, Go
    <2> QED BY <2>2, <2>3, <2>4, ElsewherePreserves DEF ClientPlaces
  <1> QED BY <1>1, GetPreserves, FindPreserves, ReadPreserves, PutPreserves, Zenon

\* thread-pool-wait-all!
LEMMA WaitPreserves ==
  ASSUME NEW c \in Clients, IInv, WaitAll(c) \/ WaitQueue(c) \/ WaitThreads(c) \/ Waited(c)
  PROVE  IInv'
  <1>0. Fields BY DEF IInv
  <1>1. reg[c] \in Regs /\ reg = [reg EXCEPT ![c] = reg[c]] /\ cpc = [cpc EXCEPT ![c] = cpc[c]]
    BY <1>0, OwnRegs, Zenon
  <1>2. /\ cpc[c] \in {"idle", "waitqueue", "waitthreads", "waited"}
        /\ UNCHANGED <<threads, queues, idlings, content, wpc, given>>
    BY DEF WaitAll, WaitQueue, WaitThreads, Waited, workers, history
  <1>3. CASE WaitAll(c)
    <2> DEFINE r == [NoReg EXCEPT !.seen = queues]
    <2>1. r \in Regs
      <3>1. queues \in [Ids -> Pooled \cup {NoQueue}] BY <1>0 DEF Fields
      <3> QED BY <3>1, NoRegType DEF NoReg, Regs
    <2>2. Move(c, "waitqueue", r) BY <1>3, Zenon DEF WaitAll, Move, Go, Set
    <2> HIDE DEF r
    <2> QED BY <1>2, <2>1, <2>2, ElsewherePreserves DEF ClientPlaces
  <1>4. CASE WaitQueue(c)
    <2>1. CASE Go(c, "waitthreads") /\ Set(c, NoReg)
      <3>1. Move(c, "waitthreads", NoReg) BY <2>1, Zenon DEF Move, Go, Set
      <3> QED BY <1>2, <3>1, NoRegType, ElsewherePreserves DEF ClientPlaces
    <2>2. CASE /\ reg[c].i < N /\ UNCHANGED cpc
               /\ Set(c, [reg[c] EXCEPT !.i = IF content[reg[c].seen[reg[c].i]] = <<>> THEN @ + 1 ELSE 0])
      <3> DEFINE n == IF content[reg[c].seen[reg[c].i]] = <<>> THEN reg[c].i + 1 ELSE 0
                 r == [reg[c] EXCEPT !.i = n]
      <3>1. n \in 0..N
        <4>1. reg[c].i \in 0..N BY <1>1 DEF Regs
        <4> QED BY <2>2, <4>1, SizeAssumption
      <3>2. reg' = [reg EXCEPT ![c] = r] BY <2>2 DEF Set
      <3>3. Move(c, "waitqueue", r)
        <4>1. cpc[c] = "waitqueue" BY <1>4, Zenon DEF WaitQueue
        <4> QED BY <1>1, <2>2, <3>2, <4>1, Zenon DEF Move
      <3> HIDE DEF n
      <3>4. r \in Regs BY <1>1, <3>1 DEF Regs
      <3> HIDE DEF r
      <3> QED BY <1>2, <3>3, <3>4, ElsewherePreserves, Zenon DEF ClientPlaces
    <2> QED BY <1>4, <2>1, <2>2, Zenon DEF WaitQueue
  <1>5. CASE WaitThreads(c)
    <2>1. Move(c, "waited", reg[c]) BY <1>1, <1>5, Zenon DEF WaitThreads, Move, Go
    <2> QED BY <1>1, <1>2, <2>1, ElsewherePreserves DEF ClientPlaces
  <1>6. CASE Waited(c)
    <2>1. Move(c, "idle", reg[c]) BY <1>1, <1>6, Zenon DEF Waited, Move, Go
    <2> QED BY <1>1, <1>2, <2>1, ElsewherePreserves DEF ClientPlaces
  <1> QED BY <1>3, <1>4, <1>5, <1>6

\* thread-terminate! of a thread that is in the vector.
LEMMA KillPreserves ==
  ASSUME IInv, NEW v \in Ids, Kill(threads[v]),
         UNCHANGED <<threads, queues, idlings, content, given>>,
         NEW c \in Clients,
         NEW place \in ClientPlaces \ {"read", "put", "clear", "start"},
         NEW r \in Regs,
         place \in {"terminate", "remove"} => Replacing(c) /\ r = reg[c],
         cpc[c] \notin {"read", "put"},
         Move(c, place, r)
  PROVE  IInv'
  <1>0. Fields /\ Chosen /\ Distinct /\ Replacement /\ Listed BY DEF IInv
  <1>1. wpc' = [wpc EXCEPT ![threads[v]] = IF @ = "done" THEN @ ELSE "killed"]
    BY DEF Kill
  <1>2. threads[v] \in Pooled /\ wpc[threads[v]] # "none" BY <1>0, Zenon DEF Fields, Distinct
  <1>3. \A k \in Pooled : \/ wpc'[k] = wpc[k]
                          \/ wpc'[k] = "killed" /\ wpc[k] # "none"
    BY <1>0, <1>1, <1>2, Zenon DEF Fields
  <1>4. Fields'
    <2>1. wpc' \in [Pooled -> WorkerPlaces] BY <1>0, <1>1 DEF Fields, WorkerPlaces
    <2>2. cpc' \in [Clients -> ClientPlaces] /\ reg' \in [Clients -> Regs] BY <1>0, Zenon
        DEF Fields, Move
    <2> QED BY <1>0, <2>1, <2>2, Zenon DEF Fields
  <1>5. Frame BY <1>3, Zenon DEF Frame
  <1>6. Chosen' /\ Distinct' /\ Replacement' BY <1>0, <1>5, ClientFrame
  <1>7. \A w \in Ids : Waiting(w)' => Waiting(w)
    <2>1. \A k \in Pooled : wpc'[k] = "get" => wpc[k] = "get" BY <1>3
    <2> QED BY <1>0, <2>1, WaitingFrame, Zenon
  <1>8. \A w \in Ids : Taken(w) => Taken(w)' BY <1>0, TakenFrame, Zenon
  <1>9. Listed' BY <1>0, <1>7, <1>8, ListedStep, Zenon
  <1> QED BY <1>4, <1>6, <1>9 DEF IInv

\* thread-pool-release!
LEMMA ReleasePreserves ==
  ASSUME NEW c \in Clients, IInv, Release(c) \/ ReleaseStop(c) \/ ReleaseEach(c)
  PROVE  IInv'
  <1> DEFINE r == [reg[c] EXCEPT !.i = @ + 1]
  <1>0. Fields /\ Chosen /\ Distinct /\ Replacement /\ Listed BY DEF IInv
  <1>1. reg[c] \in Regs /\ reg = [reg EXCEPT ![c] = reg[c]] /\ cpc = [cpc EXCEPT ![c] = cpc[c]]
    BY <1>0, OwnRegs, Zenon
  <1>2. reg[c].i < N => reg[c].i \in Ids /\ r \in Regs
    <2>1. reg[c].i < N => reg[c].i \in Ids /\ reg[c].i + 1 \in 0..N
      <3>1. reg[c].i \in 0..N BY <1>1 DEF Regs
      <3> QED BY <3>1, SizeAssumption DEF Ids
    <2> QED BY <1>1, <2>1 DEF Regs
  <1>3. CASE Release(c)
    <2>1. Move(c, "stop", reg[c]) /\ cpc[c] = "idle"
      BY <1>1, <1>3, Zenon DEF Release, Move, Go
    <2>2. UNCHANGED <<threads, queues, idlings, content, wpc, given>>
      BY <1>3, Zenon DEF Release, workers
    <2> QED BY <1>1, <2>1, <2>2, ElsewherePreserves DEF ClientPlaces
  <1>4. CASE ReleaseStop(c)
    <2>0. cpc[c] = "stop" /\ UNCHANGED <<threads, idlings, wpc, given>>
      BY <1>4, Zenon DEF ReleaseStop, history
    <2>1. CASE /\ \E how \in {"join", "kill"} : Go(c, how)
               /\ Set(c, NoReg) /\ UNCHANGED <<queues, content>>
      <3>1. PICK how \in {"join", "kill"} : Move(c, how, NoReg) BY <2>1, Zenon DEF Move, Go, Set
      <3> QED BY <2>0, <2>1, <3>1, NoRegType, ElsewherePreserves DEF ClientPlaces
    <2>2. CASE /\ reg[c].i < N
               /\ content' = [content EXCEPT ![queues[reg[c].i]] = Append(@, Stop)]
               /\ queues' = [queues EXCEPT ![reg[c].i] = NoQueue]
               /\ Set(c, [reg[c] EXCEPT !.i = @ + 1])
               /\ UNCHANGED cpc
      <3> DEFINE v == reg[c].i
      <3>1. Move(c, "stop", r) BY <1>1, <2>0, <2>2, Zenon DEF Move, Set
      <3>2. v \in Ids /\ r \in Regs BY <1>2, <2>2, Zenon
      <3> HIDE DEF v, r
      <3>3. /\ content' = [content EXCEPT ![queues[v]] = Append(@, Stop)]
            /\ queues' = [queues EXCEPT ![v] = NoQueue]
        BY <2>2 DEF v
      <3>4. \A k \in Pooled : Append(content[k], Stop) \in Seq(Nat) /\ Append(content[k], Stop) # <<>>
        <4>1. \A k \in Pooled : content[k] \in Seq(Nat) BY <1>0, Zenon DEF Fields
        <4> QED BY <4>1, AppendNotEmpty DEF Stop
      <3>5. /\ \A k \in Pooled : content'[k] = content[k] \/ content'[k] = Append(content[k], Stop)
            /\ \A w \in Ids : queues'[w] = IF w = v THEN NoQueue ELSE queues[w]
        BY <1>0, <3>2, <3>3 DEF Fields
      <3>6. Fields'
        <4>1. content' \in [Pooled -> Seq(Nat)] BY <1>0, <3>3, <3>4, ZenonT(30) DEF Fields
        <4>2. queues' \in [Ids -> Pooled \cup {NoQueue}] BY <1>0, <3>2, <3>3, Zenon DEF Fields
        <4>3. cpc' \in [Clients -> ClientPlaces] /\ reg' \in [Clients -> Regs]
          BY <1>0, <3>1, <3>2, Zenon DEF Fields, Move, ClientPlaces
        <4> QED BY <1>0, <2>0, <4>1, <4>2, <4>3 DEF Fields
      <3>7. Frame BY <2>0, <3>5, Zenon DEF Frame
      <3>8. Chosen' /\ Distinct' /\ Replacement' BY <1>0, <3>1, <3>7, ClientFrame, Zenon
      <3>9. \A w \in Ids : Waiting(w)' => Waiting(w)
        <4>1. \A w \in Ids : threads[w] \in Pooled /\ threads[w] # NoQueue
          BY <1>0, NoQueueAssumption DEF Fields, Pooled
        <4> QED BY <2>0, <3>4, <3>5, <4>1, Zenon DEF Waiting
      <3>10. \A w \in Ids : Taken(w) => Taken(w)' BY <1>0, <2>0, <3>1, TakenFrame
      <3>11. Listed' BY <1>0, <2>0, <3>9, <3>10, ListedStep, Zenon
      <3> QED BY <3>6, <3>8, <3>11 DEF IInv
    <2> QED BY <1>4, <2>1, <2>2, Zenon DEF ReleaseStop
  <1>5. CASE ReleaseEach(c)
    <2>0. cpc[c] \in {"join", "kill"} /\ UNCHANGED <<threads, queues, idlings, content, given>>
      BY <1>5, Zenon DEF ReleaseEach
    <2>1. CASE Go(c, "released") /\ UNCHANGED <<reg, wpc>>
      <3>1. Move(c, "released", reg[c]) BY <1>1, <2>1, Zenon DEF Move, Go
      <3> QED BY <1>1, <2>0, <2>1, <3>1, ElsewherePreserves DEF ClientPlaces
    <2>2. CASE reg[c].i < N /\ Set(c, [reg[c] EXCEPT !.i = @ + 1]) /\ UNCHANGED <<cpc, wpc>>
      <3>1. Move(c, cpc[c], r) BY <1>1, <2>2, Zenon DEF Move, Set
      <3> HIDE DEF r
      <3> QED BY <1>2, <2>0, <2>2, <3>1, ElsewherePreserves DEF ClientPlaces
    <2>3. CASE /\ reg[c].i < N /\ Kill(threads[reg[c].i])
               /\ Set(c, [reg[c] EXCEPT !.i = @ + 1]) /\ UNCHANGED cpc
      <3>1. Move(c, cpc[c], r) BY <1>1, <2>3, Zenon DEF Move, Set
      <3> HIDE DEF r
      <3> QED BY <1>2, <2>0, <2>3, <3>1, KillPreserves DEF ClientPlaces
    <2> QED BY <1>5, <2>1, <2>2, <2>3, Zenon DEF ReleaseEach
  <1> QED BY <1>3, <1>4, <1>5

\* Only one client replaces a thread at a time.
LEMMA OneReplaces ==
  ASSUME Replacement, NEW c \in Clients, NEW d \in Clients, Replacing(c),
         d \in Managers \/ Replacing(d)
  PROVE  c = d
  BY ManagersAssumption DEF Replacement

\* thread-pool-thread-terminate!, its first step.
LEMMA TerminatePreserves ==
  ASSUME NEW c \in Clients, NEW v \in Ids, IInv, Terminate(c, v)
  PROVE  IInv'
  <1>0. Fields /\ Chosen /\ Distinct /\ Replacement /\ Listed BY DEF IInv
  <1>1. PICK new \in Pooled \ Created :
          /\ queues' = [queues EXCEPT ![v] = new]
          /\ reg' = [reg EXCEPT ![c] = [NoReg EXCEPT !.i = v, !.queue = new,
                                                    !.thread = threads[v], !.old = queues[v]]]
    BY Zenon DEF Terminate, Set
  <1> DEFINE r == [NoReg EXCEPT !.i = v, !.queue = new, !.thread = threads[v], !.old = queues[v]]
  <1>2. /\ c \in Managers /\ cpc[c] = "idle" /\ queues[v] # NoQueue
        /\ UNCHANGED <<threads, idlings, content, wpc, given>>
    BY Zenon DEF Terminate, workers, history
  <1>3. Move(c, "clear", r) BY <1>1, Zenon DEF Terminate, Move, Go
  <1>4. threads[v] \in Pooled /\ queues[v] \in Pooled /\ v \in 0..N
    BY <1>0, <1>2, SizeAssumption DEF Fields, Ids
  <1>5. r \in Regs /\ r.i = v /\ r.queue = new /\ r.thread = threads[v] /\ r.old = queues[v]
    BY <1>4, NoRegType, Zenon DEF NoReg, Regs
  <1> HIDE DEF r
  <1>6. wpc[new] = "none" /\ \A w \in Ids : queues[w] # new
    BY NoQueueAssumption DEF Created, Pooled
  <1>7. queues' \in [Ids -> Pooled \cup {NoQueue}] /\ \A w \in Ids : queues'[w] = IF w = v THEN new ELSE queues[w]
    BY <1>0, <1>1 DEF Fields
  <1>8. /\ cpc'[c] = "clear" /\ reg'[c] = r
        /\ \A d \in Clients : d # c => cpc'[d] = cpc[d] /\ reg'[d] = reg[d]
    BY <1>0, <1>3, MoveOne, Zenon
  <1>9. Fields'
    <2>1. cpc' \in [Clients -> ClientPlaces] /\ reg' \in [Clients -> Regs]
      BY <1>0, <1>3, <1>5 DEF Fields, Move, ClientPlaces
    <2> QED BY <1>0, <1>2, <1>7, <2>1, Zenon DEF Fields
  <1>10. Chosen'
    <2>1. \A d \in Clients : (cpc'[d] = cpc[d] /\ reg'[d] = reg[d]) \/ cpc'[d] \notin {"read", "put"}
      BY <1>8
    <2> QED BY <1>0, <2>1, ChosenStep, Zenon
  <1>11. Distinct'
    <2>1. \A u, w \in Ids : queues'[u] = queues'[w] /\ queues'[u] # NoQueue => u = w
      BY <1>0, <1>6, <1>7, Zenon DEF Distinct
    <2> QED BY <1>0, <1>2, <2>1, Zenon DEF Distinct
  <1>12. Replacement'
    <2> SUFFICES ASSUME NEW d \in Clients, Replacing(d)'
                 PROVE  /\ d \in Managers
                        /\ reg'[d].i \in Ids /\ reg'[d].queue \in Pooled /\ reg'[d].old \in Pooled
                        /\ reg'[d].thread = threads'[reg'[d].i]
                        /\ wpc'[reg'[d].queue] = "none"
                        /\ queues'[reg'[d].i] \in {reg'[d].queue, NoQueue}
                        /\ \A w \in Ids : queues'[w] # reg'[d].old
      BY Zenon DEF Replacement
    <2>1. d = c
      <3> SUFFICES ASSUME d # c PROVE FALSE
        BY SMTT(30)
      <3>1. Replacing(d) BY <1>8, Zenon DEF Replacing
      <3> QED BY <1>0, <1>2, <3>1, OneReplaces, Zenon
    <2>2. ASSUME NEW w \in Ids PROVE queues'[w] # queues[v]
      <3>1. CASE w = v BY <1>6, <1>7, <3>1, Zenon
      <3>2. CASE w # v
        <4>1. queues[w] # queues[v] BY <1>0, <1>2, <3>2, Zenon DEF Distinct
        <4> QED BY <1>7, <3>2, <4>1, Zenon
      <3> QED BY <3>1, <3>2, Zenon
    <2> QED BY <1>2, <1>4, <1>5, <1>6, <1>7, <1>8, <2>1, <2>2, Zenon
  <1>13. \A w \in Ids : Waiting(w)' => Waiting(w)
    <2>1. \A w \in Ids : threads[w] \in Pooled /\ threads[w] # new BY <1>0, <1>6, Zenon DEF Fields, Distinct
    <2> QED BY <1>2, <1>7, <2>1, Zenon DEF Waiting
  <1>14. \A w \in Ids : Taken(w) => Taken(w)' BY <1>0, <1>2, <1>3, TakenFrame
  <1>15. Listed' BY <1>0, <1>2, <1>13, <1>14, ListedStep, Zenon
  <1> QED BY <1>9, <1>10, <1>11, <1>12, <1>15, Zenon DEF IInv

\* Its other steps.
LEMMA ReplacePreserves ==
  ASSUME NEW c \in Clients, IInv,
         TerminateClear(c) \/ TerminateThread(c) \/ TerminateRemove(c) \/ TerminateStart(c)
  PROVE  IInv'
  <1> DEFINE v == reg[c].i
             new == reg[c].queue
             old == reg[c].old
  <1>0. Fields /\ Chosen /\ Distinct /\ Replacement /\ Listed BY Zenon  DEF IInv
  <1>1. /\ Replacing(c) /\ c \in Managers /\ v \in Ids /\ new \in Pooled /\ old \in Pooled
        /\ reg[c].thread = threads[v] /\ wpc[new] = "none"
        /\ queues[v] \in {new, NoQueue} /\ \A w \in Ids : queues[w] # old
    <2>1. Replacing(c) BY DEF TerminateClear, TerminateThread, TerminateRemove, TerminateStart, Replacing
    <2> QED BY <1>0, <2>1, Zenon DEF Replacement
  <1>2. reg[c] \in Regs /\ reg = [reg EXCEPT ![c] = reg[c]] BY <1>0, OwnRegs, Zenon
  <1>3. cpc[c] \notin {"read", "put"} BY <1>1, Zenon DEF Replacing
  <1>4. \A w \in Ids : threads[w] \in Pooled /\ threads[w] # new BY <1>0, <1>1, Zenon DEF Fields, Distinct
  <1> HIDE DEF v, new, old
  <1>5. CASE TerminateClear(c)
    <2>1. /\ content' = [content EXCEPT ![old] = <<>>] /\ Move(c, "terminate", reg[c])
          /\ UNCHANGED <<threads, queues, idlings, wpc, given>>
      BY <1>2, <1>5, Zenon DEF TerminateClear, Go, Move, old
    <2>2. Fields'
      <3>0. <<>> \in Seq(Nat) OBVIOUS
      <3>1. content' \in [Pooled -> Seq(Nat)] BY <1>0, <2>1, <3>0, Zenon DEF Fields
      <3>2. cpc' \in [Clients -> ClientPlaces] /\ reg' \in [Clients -> Regs]
        BY <1>0, <1>2, <2>1 DEF Fields, Move, ClientPlaces
      <3> QED BY <1>0, <2>1, <3>1, <3>2 DEF Fields
    <2>3. Frame BY <2>1, Zenon DEF Frame
    <2>4. Chosen' /\ Distinct' /\ Replacement' BY <1>0, <1>1, <2>1, <2>3, ClientFrame, Zenon
    <2>5. \A w \in Ids : Waiting(w)' => Waiting(w)
      <3>1. \A k \in Pooled : k # old => content'[k] = content[k] BY <1>0, <2>1, Zenon DEF Fields
      <3>2. \A w \in Ids : queues[w] # old BY <1>1, Zenon
      <3> QED BY <1>4, <2>1, <3>1, <3>2, Zenon DEF Waiting
    <2>6. \A w \in Ids : Taken(w) => Taken(w)' BY <1>0, <1>3, <2>1, TakenFrame, Zenon
    <2>7. Listed' BY <1>0, <2>1, <2>5, <2>6, ListedStep, Zenon
    <2> QED BY <2>2, <2>4, <2>7 DEF IInv
  <1>6. CASE TerminateThread(c)
    <2>1. /\ Kill(threads[v]) /\ Move(c, "remove", reg[c])
          /\ UNCHANGED <<threads, queues, idlings, content, given>>
      BY <1>1, <1>2, <1>6, Zenon DEF TerminateThread, Go, Move
    <2> QED BY <1>1, <1>2, <1>3, <2>1, KillPreserves DEF ClientPlaces
  <1>7. CASE TerminateRemove(c)
    <2>1. Move(c, "start", reg[c]) /\ UNCHANGED <<threads, queues, content, wpc, given>>
      BY <1>2, <1>7, Zenon DEF TerminateRemove, Go, Move, workers, history
    <2>2. idlings' \in Seq(Ids) /\ \A w \in Elements(idlings) : w # v => w \in Elements(idlings')
      <3>0. idlings \in Seq(Ids) BY <1>0 DEF Fields
      <3>1. CASE UNCHANGED idlings BY <3>0, <3>1
      <3>2. CASE \E f \in 1..Len(idlings) :
                   /\ idlings[f] = v
                   /\ idlings' = [i \in 1..(Len(idlings) - 1) |-> idlings[IF i < f THEN i ELSE i + 1]]
        <4> PICK f \in 1..Len(idlings) :
                 /\ idlings[f] = v
                 /\ idlings' = [i \in 1..(Len(idlings) - 1) |-> idlings[IF i < f THEN i ELSE i + 1]]
          BY <3>2, Zenon
        <4> QED BY <3>0, ElementsRemove, Zenon
      <3> QED BY <1>7, <3>1, <3>2, Zenon DEF TerminateRemove, v
    <2>3. Fields'
      <3>1. cpc' \in [Clients -> ClientPlaces] /\ reg' \in [Clients -> Regs]
        BY <1>0, <1>2, <2>1, Zenon DEF Fields, Move, ClientPlaces
      <3> QED BY <1>0, <2>1, <2>2, <3>1, Zenon DEF Fields
    <2>4. Frame BY <2>1, Zenon DEF Frame
    <2>5. Chosen' /\ Distinct' /\ Replacement' BY <1>0, <1>1, <2>1, <2>4, ClientFrame, Zenon
    <2>6. \A w \in Ids : Waiting(w)' => Waiting(w) /\ w # v
      <3>1. \A w \in Ids : threads[w] # NoQueue BY <1>4, NoQueueAssumption, SMTT(30) DEF Pooled
      <3> QED BY <1>1, <1>4, <2>1, <3>1, Zenon DEF Waiting
    <2>7. \A w \in Ids : Taken(w) => Taken(w)' BY <1>0, <1>3, <2>1, TakenFrame, Zenon
    <2>8. Listed' BY <1>0, <2>2, <2>6, <2>7, ListedStep, Zenon
    <2> QED BY <2>3, <2>5, <2>8 DEF IInv
  <1>8. CASE TerminateStart(c)
    <2>1. /\ threads' = [threads EXCEPT ![v] = new] /\ wpc' = [wpc EXCEPT ![new] = "list"]
          /\ Move(c, "idle", NoReg) /\ UNCHANGED <<queues, idlings, content, given>>
      BY <1>8, Zenon DEF TerminateStart, Go, Set, Move, Work, history, v, new
    <2>2. /\ threads' \in [Ids -> Pooled] /\ wpc' \in [Pooled -> WorkerPlaces]
          /\ \A w \in Ids : threads'[w] = IF w = v THEN new ELSE threads[w]
          /\ \A k \in Pooled : wpc'[k] = IF k = new THEN "list" ELSE wpc[k]
      BY <1>0, <1>1, <2>1, Zenon DEF Fields, WorkerPlaces
    <2>3. /\ cpc'[c] = "idle" /\ reg'[c] = NoReg
          /\ \A d \in Clients : d # c => cpc'[d] = cpc[d] /\ reg'[d] = reg[d]
      BY <1>0, <2>1, MoveOne, Zenon
    <2>4. Fields'
      <3>1. cpc' \in [Clients -> ClientPlaces] /\ reg' \in [Clients -> Regs]
        BY <1>0, <2>1, NoRegType DEF Fields, Move, ClientPlaces
      <3> QED BY <1>0, <2>1, <2>2, <3>1, Zenon DEF Fields
    <2>5. Chosen'
      <3>1. \A d \in Clients : (cpc'[d] = cpc[d] /\ reg'[d] = reg[d]) \/ cpc'[d] \notin {"read", "put"}
        BY <2>3
      <3> QED BY <1>0, <3>1, ChosenStep, Zenon
    <2>6. Distinct'
      <3>1. \A u, w \in Ids : threads'[u] = threads'[w] => u = w BY <1>0, <1>4, <2>2, Zenon
          DEF Distinct
      <3>2. \A w \in Ids : wpc'[threads'[w]] # "none" BY <1>0, <1>1, <1>4, <2>2 DEF Distinct
      <3> QED BY <1>0, <2>1, <3>1, <3>2, Zenon DEF Distinct
    <2>7. Replacement'
      <3> SUFFICES ASSUME NEW d \in Clients, Replacing(d)' PROVE FALSE
        BY Zenon DEF Replacement
      <3>1. d # c /\ Replacing(d) BY <2>3, Zenon DEF Replacing
      <3> QED BY <1>0, <1>1, <3>1, OneReplaces, Zenon
    <2>8. \A w \in Ids : Waiting(w)' => Waiting(w) /\ w # v
      BY <1>4, <2>1, <2>2, Zenon DEF Waiting
    <2>9. ASSUME NEW w \in Ids, Waiting(w)', Taken(w) PROVE Taken(w)'
      <3>1. PICK d \in Clients : /\ reg[d].where = w
                                 /\ cpc[d] = "read" \/ (cpc[d] = "put" /\ reg[d].queue = threads[w])
        BY <2>9, Zenon DEF Taken
      <3>2. threads'[w] = threads[w] BY <2>2, <2>8, <2>9, Zenon
      <3> QED BY <1>3, <2>3, <3>1, <3>2 DEF Taken
    <2>10. Listed' BY <1>0, <2>1, <2>8, <2>9, ListedStep
    <2> QED BY <2>4, <2>5, <2>6, <2>7, <2>10, Zenon DEF IInv
  <1> QED BY <1>5, <1>6, <1>7, <1>8

LEMMA Inductive == Spec => []IInv
  <1>1. IInv /\ [Next]_vars => IInv'
    <2> SUFFICES ASSUME IInv, [Next]_vars PROVE IInv'
      OBVIOUS
    <2>1. CASE \E k \in Pooled : Worker(k) BY <2>1, WorkerPreserves
    <2>2. CASE \E c \in Clients : Client(c)
      <3> PICK c \in Clients : Client(c) BY <2>2
      <3>1. CASE \E w \in Ids : Terminate(c, w) BY <3>1, TerminatePreserves
      <3>2. CASE Push(c) \/ PushGet(c) \/ PushFind(c) \/ PushRead(c) \/ PushPut(c)
        BY <3>2, PushPreserves, Zenon
      <3>3. CASE WaitAll(c) \/ WaitQueue(c) \/ WaitThreads(c) \/ Waited(c)
        BY <3>3, WaitPreserves, Zenon
      <3>4. CASE Release(c) \/ ReleaseStop(c) \/ ReleaseEach(c)
        BY <3>4, ReleasePreserves, Zenon
      <3>5. CASE TerminateClear(c) \/ TerminateThread(c) \/ TerminateRemove(c) \/ TerminateStart(c)
        BY <3>5, ReplacePreserves, Zenon
      <3> QED BY <3>1, <3>2, <3>3, <3>4, <3>5, Zenon DEF Client, Continue
    <2>3. CASE UNCHANGED vars
      <3>1. UNCHANGED <<threads, queues, idlings, content, wpc, given, cpc, reg>>
        BY <2>3, Zenon DEF vars, workers, history
      <3>2. Fields' BY <3>1, Zenon DEF IInv, Fields
      <3>3. Chosen' /\ Distinct' BY <3>1, Zenon DEF IInv, Chosen, Distinct
      <3>4. Replacement' BY <3>1, Zenon DEF IInv, Replacement, Replacing
      <3>5. Listed' BY <3>1, Zenon DEF IInv, Listed, Waiting, Taken
      <3> QED BY <3>2, <3>3, <3>4, <3>5 DEF IInv
    <2> QED BY <2>1, <2>2, <2>3 DEF Next
  <1> QED BY <1>1, InitEstablishes, PTL DEF Spec

\* A pooled thread that waits on its empty queue is in idlings, or a client that took
\* its id is about to give it a task: the two steps in which make-executor looks at its
\* queue and lists itself, the pushes and the replacements never lose it.
THEOREM IdleThreadsAreListed == Spec => []IdleThreadIsListed
  <1>1. IInv => IdleThreadIsListed
    BY DEF IInv, Listed, Waiting, Taken, IdleThreadIsListed
  <1> QED BY <1>1, Inductive, PTL

(***************************************************************************)
(* thread-pool-release! runs what was pushed before it.  A task is in the  *)
(* queue of a thread, being run or finished; the tasks pushed before the   *)
(* release lie in front of the #f that ends a thread.                      *)
(***************************************************************************)
Releasing(c) == cpc[c] \in {"stop", "join", "kill", "released"}

\* No thread is or was replaced or terminated.
Whole ==
  /\ \A c \in Clients : ~Replacing(c)
  /\ \A k \in Pooled : wpc[k] # "killed" /\ (wpc[k] # "none" => k <= N)

Original ==
  /\ \A w \in Ids : threads[w] = w + 1 /\ queues[w] \in {w + 1, NoQueue}
  /\ \A c \in Clients : cpc[c] = "put" => reg[c].queue \in 1..N

\* A queue s and its thread's place: nothing ends the thread; of the first n tasks
\* none is behind a #f.
Calm(s, place) == Stop \notin Elements(s) /\ place # "done"
StopsLate(s, n) == \A i, j \in 1..Len(s) : i < j /\ s[i] = Stop => s[j] \notin 1..n
HasNone(s, n) == \A j \in 1..Len(s) : s[j] \notin 1..n
InTime(s, place, n) == StopsLate(s, n) /\ (place = "done" => HasNone(s, n))

Quiet == NobodyReleases => \A k \in 1..N : Calm(content[k], wpc[k])
Ordered ==
  \A c \in Clients : Releasing(c) =>
    /\ awaited[c] \in 0..given
    /\ \A k \in 1..N : InTime(content[k], wpc[k], awaited[c])
Holds(k, t) == running[k] = t \/ t \in Elements(content[k])
Accounted == \A t \in 1..given : t \in finished \/ \E k \in 1..N : Holds(k, t)
Joined ==
  \A c \in Clients :
    /\ cpc[c] \in {"join", "kill"} => \A w \in Ids : w < reg[c].i => wpc[w + 1] = "done"
    /\ cpc[c] = "released" => \A w \in Ids : wpc[w + 1] = "done"

Started == \A k \in 1..N : wpc[k] # "none"
Busy == \A k \in Pooled : running[k] \in Nat /\ (wpc[k] # "run" => running[k] = 0)
RunsAll == Original /\ Quiet /\ Ordered /\ Accounted /\ Joined

RInv ==
  /\ running \in [Pooled -> Nat] /\ awaited \in [Clients -> Nat]
  /\ Started /\ Busy
  /\ Whole => RunsAll

LEMMA TailLate ==
  ASSUME NEW s \in Seq(Nat), s # <<>>, NEW n \in Nat, StopsLate(s, n)
  PROVE  /\ StopsLate(Tail(s), n)
         /\ Head(s) = Stop => HasNone(Tail(s), n)
  <1>1. Len(s) \in Nat /\ Len(Tail(s)) = Len(s) - 1 /\ Head(s) = s[1] /\ Len(s) # 0
    OBVIOUS
  <1>2. \A i \in 1..Len(Tail(s)) : Tail(s)[i] = s[i + 1]
    OBVIOUS
  <1>3. \A i \in 1..Len(Tail(s)) : i + 1 \in 1..Len(s) /\ 1 \in 1..Len(s) /\ 1 < i + 1
    BY <1>1
  <1>4. \A i, j \in 1..Len(Tail(s)) : i < j => i + 1 < j + 1
    BY <1>1
  <1>5. StopsLate(Tail(s), n)
    BY <1>2, <1>3, <1>4, Zenon DEF StopsLate
  <1>6. Head(s) = Stop => HasNone(Tail(s), n)
    BY <1>1, <1>2, <1>3, Zenon DEF StopsLate, HasNone
  <1> QED BY <1>5, <1>6

LEMMA AppendLate ==
  ASSUME NEW s \in Seq(Nat), NEW n \in Nat, NEW e \in Nat, e \notin 1..n
  PROVE  /\ StopsLate(s, n) => StopsLate(Append(s, e), n)
         /\ HasNone(s, n) => HasNone(Append(s, e), n)
  <1> DEFINE a == Append(s, e)
  <1>1. /\ Len(s) \in Nat /\ Len(a) = Len(s) + 1 /\ a[Len(s) + 1] = e
        /\ \A i \in 1..Len(s) : a[i] = s[i]
    OBVIOUS
  <1> HIDE DEF a
  <1>2. \A j \in 1..Len(a) : j \in 1..Len(s) \/ j = Len(s) + 1
    BY <1>1
  <1>3. \A i \in 1..Len(a), j \in 1..Len(s) : i < j => i \in 1..Len(s)
    BY <1>1
  <1>4. HasNone(s, n) => HasNone(a, n)
    BY <1>1, <1>2, Zenon DEF HasNone
  <1>5. StopsLate(s, n) => StopsLate(a, n)
    BY <1>1, <1>2, <1>3, Zenon DEF StopsLate
  <1> QED BY <1>4, <1>5, Zenon DEF a

\* What a step may do to pooled thread k.
Orderly(k) ==
  /\ \A n \in 0..given : InTime(content[k], wpc[k], n) => InTime(content'[k], wpc'[k], n)
  /\ \A t \in 1..given : Holds(k, t) => Holds(k, t)' \/ t \in finished'
  /\ wpc[k] = "done" => wpc'[k] = "done"
  /\ NobodyReleases /\ Calm(content[k], wpc[k]) => Calm(content'[k], wpc'[k])

LEMMA OrderlyFrame ==
  ASSUME NEW k, content'[k] = content[k], running'[k] = running[k],
         wpc'[k] = "done" <=> wpc[k] = "done"
  PROVE  Orderly(k)
  BY Zenon DEF Orderly, InTime, Calm, Holds

\* What a step may do to the clients.
ClientsKeep ==
  /\ NobodyReleases' => NobodyReleases
  /\ \A d \in Clients : Releasing(d)' => Releasing(d) /\ awaited'[d] = awaited[d]

TasksKeep ==
  /\ finished \subseteq finished'
  /\ \/ given' = given
     \/ given' = given + 1 /\ \E k \in 1..N : given + 1 \in Elements(content'[k])

LEMMA TasksStep ==
  ASSUME Quiet, Ordered, Accounted, given \in Nat, ClientsKeep, TasksKeep, \A k \in 1..N : Orderly(k)
  PROVE  Quiet' /\ Ordered' /\ Accounted'
  <1>1. Quiet'
    BY Zenon DEF Quiet, ClientsKeep, Orderly
  <1>2. 0..given \subseteq 0..given' /\ \A t \in 1..given' : t \in 1..given \/ (t = given + 1 /\ given' = given + 1)
    BY DEF TasksKeep
  <1>3. Ordered'
    BY <1>2, Zenon DEF Ordered, ClientsKeep, Orderly
  <1>4. ASSUME NEW t \in 1..given' PROVE t \in finished' \/ \E k \in 1..N : Holds(k, t)'
    <2>1. CASE t \in 1..given
      BY <2>1, Zenon DEF Accounted, Orderly, TasksKeep
    <2>2. CASE t = given + 1 /\ given' = given + 1
      BY <2>2 DEF TasksKeep, Holds
    <2> QED BY <1>2, <2>1, <2>2, Zenon
  <1> QED BY <1>1, <1>3, <1>4, Zenon DEF Accounted

Basics == running \in [Pooled -> Nat] /\ awaited \in [Clients -> Nat] /\ Started /\ Busy

LEMMA FirstPooled ==
  /\ 1..N \subseteq Pooled
  /\ \A w \in Ids : w + 1 \in 1..N
  /\ NoQueue \notin Pooled
  BY SizeAssumption, BoundsAssumption, NoQueueAssumption DEF Pooled, Ids

LEMMA ElementsOfTail ==
  ASSUME NEW s \in Seq(Nat), s # <<>>
  PROVE  Elements(Tail(s)) \subseteq Elements(s) /\ Head(s) \in Elements(s) /\ Head(s) \in Nat
  <1>1. ASSUME NEW i \in 1..Len(Tail(s)) PROVE Tail(s)[i] \in Elements(s)
    <2>1. i + 1 \in 1..Len(s) /\ Tail(s)[i] = s[i + 1] OBVIOUS
    <2> QED BY <2>1 DEF Elements
  <1>2. 1 \in 1..Len(s) /\ Head(s) = s[1] OBVIOUS
  <1>3. Head(s) \in Elements(s) BY <1>2, Zenon DEF Elements
  <1>4. Head(s) \in Nat OBVIOUS
  <1> QED BY <1>1, <1>3, <1>4, Zenon DEF Elements

\* A pooled thread changes its own place, queue and task only.
LEMMA WorkerTasks ==
  ASSUME NEW k \in Pooled, Fields, Basics, Worker(k)
  PROVE  Basics' /\ TasksKeep /\ ClientsKeep /\ \A j \in 1..N : Orderly(j)
  <1>0. /\ wpc \in [Pooled -> WorkerPlaces] /\ content \in [Pooled -> Seq(Nat)] /\ given \in Nat
        /\ running \in [Pooled -> Nat] /\ awaited \in [Clients -> Nat] /\ Started /\ Busy
    BY Zenon DEF Fields, Basics
  <1>1. UNCHANGED <<threads, queues, cpc, reg, given, awaited>>
    BY Zenon DEF Worker, List, Get, Run, Check, history
  <1>2. ClientsKeep
    BY <1>1, Zenon DEF ClientsKeep, NobodyReleases, Releasing
  <1>3. finished \subseteq finished'
    BY Zenon DEF Worker, List, Get, Run, Check, history
  <1>4. TasksKeep
    BY <1>1, <1>3, Zenon DEF TasksKeep
  <1>5. SUFFICES Started' /\ running' \in [Pooled -> Nat] /\ Busy' /\ \A j \in 1..N : Orderly(j)
    BY <1>0, <1>1, <1>2, <1>4, Zenon DEF Basics
  <1>6. /\ wpc[k] \notin {"none", "done"}
        /\ \A j \in Pooled : j # k => wpc'[j] = wpc[j] /\ content'[j] = content[j] /\ running'[j] = running[j]
    BY <1>0, Zenon DEF Worker, List, Get, Run, Check, Work
  <1>7. \A j \in 1..N : j # k => Orderly(j)
    BY <1>6, FirstPooled, OrderlyFrame, Zenon
  <1>8. CASE (\E w \in Ids : List(k, w)) \/ Check(k)
    <2>1. wpc[k] \in {"list", "check"} /\ wpc'[k] \in {"list", "get"} /\ UNCHANGED <<content, running>>
      BY <1>0, <1>8 DEF List, Check, Work
    <2>2. Started' BY <1>0, <1>6, <2>1, FirstPooled, Zenon DEF Started
    <2>3. Busy' BY <1>0, <1>6, <2>1 DEF Busy
    <2>4. Orderly(k)
      <3>1. wpc'[k] # "done" /\ wpc[k] # "done" BY <2>1
      <3> QED BY <2>1, <3>1, OrderlyFrame, Zenon
    <2> QED BY <1>0, <1>7, <2>1, <2>2, <2>3, <2>4, Zenon
  <1>9. CASE Run(k)
    <2>1. wpc[k] = "run" /\ wpc'[k] = "check" /\ running'[k] = 0 /\ running' \in [Pooled -> Nat]
      BY <1>0, <1>9 DEF Run, Work
    <2>2. content' = content /\ running[k] \in finished'
      BY <1>9, Zenon DEF Run
    <2>3. Started' BY <1>0, <1>6, <2>1, FirstPooled, Zenon DEF Started
    <2>4. Busy' BY <1>0, <1>6, <2>1, Zenon DEF Busy
    <2>5. Orderly(k)
      <3>1. wpc[k] # "done" /\ wpc'[k] # "done" BY <2>1
      <3> QED BY <2>2, <3>1, Zenon DEF Orderly, InTime, Calm, Holds
    <2> QED BY <1>7, <2>1, <2>3, <2>4, <2>5, Zenon
  <1>10. CASE Get(k)
    <2>1. /\ content[k] \in Seq(Nat) /\ content[k] # <<>> /\ content'[k] = Tail(content[k])
          /\ wpc[k] = "get"
          /\ \/ Head(content[k]) = Stop /\ wpc'[k] = "done" /\ running' = running
             \/ /\ Head(content[k]) # Stop /\ wpc'[k] = "run"
                /\ running' = [running EXCEPT ![k] = Head(content[k])]
      BY <1>0, <1>10 DEF Get, Work
    <2>2. /\ Elements(Tail(content[k])) \subseteq Elements(content[k])
          /\ Head(content[k]) \in Elements(content[k]) /\ Head(content[k]) \in Nat
      BY <2>1, ElementsOfTail, Zenon
    <2>3. running' \in [Pooled -> Nat] /\ (Head(content[k]) # Stop => running'[k] = Head(content[k]))
      BY <1>0, <2>1, <2>2, Zenon
    <2>4. Started' BY <1>0, <1>6, <2>1, FirstPooled, Zenon DEF Started
    <2>5. running[k] = 0 /\ Busy'
      <3>1. "get" # "run" OBVIOUS
      <3>2. running[k] = 0 BY <1>0, <2>1, <3>1, Zenon DEF Busy
      <3>3. running'[k] \in Nat /\ (wpc'[k] # "run" => running'[k] = 0)
        BY <2>1, <2>3, <3>2, Zenon
      <3> QED BY <1>0, <1>6, <3>2, <3>3, Zenon DEF Busy
    <2>6. Orderly(k)
      <3>1. ASSUME NEW n \in 0..given, InTime(content[k], wpc[k], n)
            PROVE  InTime(content'[k], wpc'[k], n)
        <4>1. n \in Nat BY <1>0
        <4>2. StopsLate(content[k], n) BY <3>1, Zenon DEF InTime
        <4>3. /\ StopsLate(Tail(content[k]), n)
              /\ Head(content[k]) = Stop => HasNone(Tail(content[k]), n)
          BY <2>1, <4>1, <4>2, TailLate, Zenon
        <4>4. "run" # "done" OBVIOUS
        <4> QED BY <2>1, <4>3, <4>4, Zenon DEF InTime
      <3>2. ASSUME NEW t \in 1..given, Holds(k, t) PROVE Holds(k, t)'
        <4>1. t # 0 BY <1>0
        <4>2. t \in Elements(content[k]) BY <2>5, <3>2, <4>1, Zenon DEF Holds
        <4>3. CASE t = Head(content[k])
          <5>1. Head(content[k]) # Stop BY <4>1, <4>3 DEF Stop
          <5> QED BY <2>3, <4>3, <5>1, Zenon DEF Holds
        <4>4. CASE t # Head(content[k])
          BY <2>1, <4>2, <4>4, ElementsTail, Zenon DEF Holds
        <4> QED BY <4>3, <4>4
      <3>3. Calm(content[k], wpc[k]) => Calm(content'[k], wpc'[k])
        <4>1. "run" # "done" OBVIOUS
        <4> QED BY <2>1, <2>2, <4>1, Zenon DEF Calm
      <3>4. wpc[k] # "done" BY <2>1
      <3> QED BY <3>1, <3>2, <3>3, <3>4, Zenon DEF Orderly
    <2> QED BY <1>7, <2>3, <2>4, <2>5, <2>6, Zenon
  <1> QED BY <1>8, <1>9, <1>10, Zenon DEF Worker

LEMMA KillBasics ==
  ASSUME Fields, Basics, NEW k \in Pooled, Kill(k), UNCHANGED awaited
  PROVE  Basics'
  <1>1. /\ wpc \in [Pooled -> WorkerPlaces] /\ running \in [Pooled -> Nat] /\ Started /\ Busy
        /\ awaited \in [Clients -> Nat]
    BY Zenon DEF Fields, Basics
  <1>2. /\ running' \in [Pooled -> Nat] /\ running'[k] = 0
        /\ wpc'[k] # "run" /\ (wpc'[k] = "none" => wpc[k] = "none")
        /\ \A j \in Pooled : j # k => running'[j] = running[j] /\ wpc'[j] = wpc[j]
    BY <1>1 DEF Kill
  <1>3. Started' BY <1>1, <1>2, FirstPooled, Zenon DEF Started
  <1>4. Busy' BY <1>1, <1>2, Zenon DEF Busy
  <1> QED BY <1>1, <1>2, <1>3, <1>4, Zenon DEF Basics

LEMMA StillBasics ==
  ASSUME Fields, Basics, UNCHANGED <<wpc, running>>, NEW c \in Clients,
         awaited' \in {awaited, [awaited EXCEPT ![c] = given], [awaited EXCEPT ![c] = 0]}
  PROVE  Basics'
  <1>1. awaited \in [Clients -> Nat] /\ given \in Nat BY Zenon DEF Basics, Fields
  <1>2. awaited' \in [Clients -> Nat] BY <1>1
  <1> QED BY <1>2, Zenon DEF Basics, Started, Busy

\* The operations that replace no thread.
PoolStep(c) ==
  \/ Push(c) \/ PushGet(c) \/ PushFind(c) \/ PushRead(c) \/ PushPut(c)
  \/ WaitAll(c) \/ WaitQueue(c) \/ WaitThreads(c) \/ Waited(c)
  \/ Release(c) \/ ReleaseStop(c) \/ ReleaseEach(c)

LEMMA EachBasics ==
  ASSUME NEW c \in Clients, Fields, Basics, ReleaseEach(c)
  PROVE  Basics'
  <1>1. CASE UNCHANGED <<wpc, running>>
    BY <1>1, StillBasics, Zenon DEF ReleaseEach
  <1>2. CASE reg[c].i < N /\ Kill(threads[reg[c].i])
    <2>1. threads[reg[c].i] \in Pooled
      <3>1. reg[c].i \in 0..N BY DEF Fields, Regs
      <3>2. reg[c].i \in Ids BY <1>2, <3>1, SizeAssumption DEF Ids
      <3> QED BY <3>2, Zenon DEF Fields
    <2> QED BY <1>2, <2>1, KillBasics, Zenon DEF ReleaseEach
  <1> QED BY <1>1, <1>2, Zenon DEF ReleaseEach

LEMMA ClientBasics ==
  ASSUME NEW c \in Clients, IInv, Basics, Client(c)
  PROVE  Basics'
  <1>0. Fields /\ Replacement BY DEF IInv
  <1>1. CASE \/ Push(c) \/ PushGet(c) \/ PushFind(c) \/ PushRead(c) \/ PushPut(c)
             \/ WaitQueue(c) \/ WaitThreads(c) \/ ReleaseStop(c)
             \/ (\E w \in Ids : Terminate(c, w)) \/ TerminateClear(c) \/ TerminateRemove(c)
    <2>1. UNCHANGED <<wpc, running, awaited>>
      BY <1>1, Zenon DEF Push, PushGet, PushFind, PushRead, PushPut, WaitQueue, WaitThreads,
           ReleaseStop, Terminate, TerminateClear, TerminateRemove, workers, history
    <2> QED BY <1>0, <2>1, StillBasics, Zenon
  <1>2. CASE WaitAll(c) \/ Waited(c) \/ Release(c)
    BY <1>0, <1>2, StillBasics, Zenon DEF WaitAll, Waited, Release, workers
  <1>3. CASE ReleaseEach(c)
    BY <1>0, <1>3, EachBasics, Zenon
  <1>4. CASE TerminateThread(c)
    <2>1. reg[c].thread \in Pooled
      <3>1. Replacing(c) BY <1>4 DEF TerminateThread, Replacing
      <3> QED BY <1>0, <3>1, Zenon DEF Replacement, Fields
    <2> QED BY <1>0, <1>4, <2>1, KillBasics, Zenon DEF TerminateThread
  <1>5. CASE TerminateStart(c)
    <2> DEFINE new == reg[c].queue
    <2>1. new \in Pooled /\ wpc[new] = "none"
      <3>1. Replacing(c) BY <1>5 DEF TerminateStart, Replacing
      <3> QED BY <1>0, <3>1, Zenon DEF Replacement
    <2>2. wpc' = [wpc EXCEPT ![new] = "list"] /\ UNCHANGED <<running, awaited>>
      BY <1>5, Zenon DEF TerminateStart, Work, history
    <2> HIDE DEF new
    <2>3. wpc'[new] = "list" /\ \A j \in Pooled : j # new => wpc'[j] = wpc[j]
      BY <1>0, <2>1, <2>2 DEF Fields
    <2>4. "list" # "none" /\ "none" # "run" OBVIOUS
    <2>5. Started' /\ Busy'
      BY <2>1, <2>2, <2>3, <2>4, FirstPooled, Zenon DEF Basics, Started, Busy
    <2> QED BY <2>2, <2>5, Zenon DEF Basics
  <1> QED BY <1>1, <1>2, <1>3, <1>4, <1>5, Zenon DEF Client, Continue

\* What the operations that replace no thread leave alone.
LEMMA PoolFrame ==
  ASSUME NEW c \in Clients, Fields, PoolStep(c)
  PROVE  /\ ~Replacing(c)
         /\ (\E place : Go(c, place)) \/ UNCHANGED cpc
         /\ UNCHANGED wpc \/ \E k : Kill(k)
  <1> USE DEF Replacing, workers
  <1>1. CASE Push(c) BY <1>1, Zenon DEF Push
  <1>2. CASE PushGet(c) BY <1>2, Zenon DEF PushGet
  <1>3. CASE PushFind(c) BY <1>3, Zenon DEF PushFind
  <1>4. CASE PushRead(c) BY <1>4, Zenon DEF PushRead
  <1>5. CASE PushPut(c) BY <1>5, Zenon DEF PushPut
  <1>6. CASE WaitAll(c) BY <1>6, Zenon DEF WaitAll
  <1>7. CASE WaitQueue(c) BY <1>7, Zenon DEF WaitQueue
  <1>8. CASE WaitThreads(c) BY <1>8, Zenon DEF WaitThreads
  <1>9. CASE Waited(c) BY <1>9, Zenon DEF Waited
  <1>10. CASE Release(c) BY <1>10, Zenon DEF Release
  <1>11. CASE ReleaseStop(c) BY <1>11, Zenon DEF ReleaseStop
  <1>12. CASE ReleaseEach(c)
    <2>1. cpc[c] \in {"join", "kill"} BY <1>12, Zenon DEF ReleaseEach
    <2>2. ~Replacing(c) BY <2>1
    <2>3. (\E place : Go(c, place)) \/ UNCHANGED cpc BY <1>12, Zenon DEF ReleaseEach
    <2>4. UNCHANGED wpc \/ \E k : Kill(k) BY <1>12, Zenon DEF ReleaseEach
    <2> QED BY <2>2, <2>3, <2>4, Zenon
  <1> QED BY <1>1, <1>2, <1>3, <1>4, <1>5, <1>6, <1>7, <1>8, <1>9, <1>10, <1>11, <1>12, Zenon DEF PoolStep

ReplaceStep(c) ==
  \/ (\E w \in Ids : Terminate(c, w)) \/ TerminateClear(c) \/ TerminateThread(c)
  \/ TerminateRemove(c) \/ TerminateStart(c)

LEMMA ClientSplit ==
  ASSUME NEW c, Client(c)
  PROVE  PoolStep(c) \/ ReplaceStep(c)
  BY Zenon DEF Client, Continue, PoolStep, ReplaceStep

\* A pool that is whole after a step was whole before, and no thread is being replaced.
LEMMA WholeStep ==
  ASSUME IInv, Basics, Next, Whole'
  PROVE  Whole /\ ((\E k \in Pooled : Worker(k)) \/ \E c \in Clients : PoolStep(c))
  <1>0. Fields /\ Replacement /\ Started BY Zenon DEF IInv, Basics
  <1>1. ASSUME NEW k \in Pooled, Worker(k) PROVE Whole
    <2>0. wpc \in [Pooled -> WorkerPlaces] BY <1>0, Zenon DEF Fields
    <2>1. UNCHANGED cpc BY <1>1, Zenon DEF Worker, List, Get, Run, Check
    <2>2. PICK place \in {"get", "done", "run", "check", "list"} : Work(k, place)
      BY <1>1, Zenon DEF Worker, List, Get, Run, Check
    <2>3. wpc[k] \notin {"none", "killed"}
      <3>1. wpc[k] \in {"list", "get", "run", "check"}
        BY <1>1, Zenon DEF Worker, List, Get, Run, Check
      <3> QED BY <3>1
    <2>4. wpc'[k] # "none" /\ \A j \in Pooled : j # k => wpc'[j] = wpc[j]
      BY <2>0, <2>2 DEF Work
    <2>5. \A j \in Pooled : wpc[j] # "killed" /\ (wpc[j] # "none" => j <= N)
      BY <2>3, <2>4, Zenon DEF Whole
    <2> QED BY <2>1, <2>5, Zenon DEF Whole, Replacing
  <1>2. ASSUME NEW c \in Clients, Client(c) PROVE Whole /\ PoolStep(c)
    <2>1. ~Replacing(c)' BY Zenon DEF Whole
    <2>2. ASSUME NEW place, Go(c, place) PROVE cpc'[c] = place
      <3>1. cpc \in [Clients -> ClientPlaces] BY <1>0, Zenon DEF Fields
      <3> QED BY <2>2, <3>1, Zenon DEF Go
    <2>3. ~(\E w \in Ids : Terminate(c, w)) /\ ~TerminateClear(c) /\ ~TerminateThread(c) /\ ~TerminateRemove(c)
      BY <2>1, <2>2, Zenon DEF Terminate, TerminateClear, TerminateThread, TerminateRemove, Replacing
    <2>4. ~TerminateStart(c)
      <3> SUFFICES ASSUME TerminateStart(c) PROVE FALSE
        OBVIOUS
      <3> DEFINE new == reg[c].queue
      <3>1. Replacing(c) BY DEF TerminateStart, Replacing
      <3>2. new \in Pooled /\ wpc[new] = "none" BY <1>0, <3>1, Zenon DEF Replacement
      <3>3. wpc'[new] = "list" BY <1>0, <3>2, Zenon DEF TerminateStart, Work, Fields
      <3>4. new <= N BY <3>2, <3>3, Zenon DEF Whole
      <3>5. new \in 1..N BY <3>2, <3>4, SizeAssumption, BoundsAssumption DEF Pooled
      <3> QED BY <1>0, <3>2, <3>5, Zenon DEF Started
    <2>5. PoolStep(c) BY <1>2, <2>3, <2>4, ClientSplit, Zenon DEF ReplaceStep
    <2>6. /\ ~Replacing(c)
          /\ (\E place : Go(c, place)) \/ UNCHANGED cpc
          /\ UNCHANGED wpc \/ \E k : Kill(k)
      BY <1>0, <2>5, PoolFrame, Zenon
    <2>7. \A d \in Clients : d # c => cpc'[d] = cpc[d]
      BY <1>0, <2>6, Zenon DEF Go, Fields
    <2>8. \A j \in Pooled : wpc'[j] = wpc[j] \/ wpc'[j] = "killed"
      BY <1>0, <2>6 DEF Kill, Fields
    <2> QED BY <2>5, <2>6, <2>7, <2>8, Zenon DEF Whole, Replacing
  <1> QED BY <1>1, <1>2, Zenon DEF Next

\* A client's step keeps what was joined.
LEMMA JoinedStep ==
  ASSUME Fields, Joined, NEW c \in Clients, NEW place, NEW r, Move(c, place, r),
         \A w \in Ids : wpc[w + 1] = "done" => wpc'[w + 1] = "done",
         place \in {"join", "kill"} => \A w \in Ids : w < r.i => wpc'[w + 1] = "done",
         place = "released" => \A w \in Ids : wpc'[w + 1] = "done"
  PROVE  Joined'
  <1>1. /\ cpc'[c] = place /\ reg'[c] = r
        /\ \A d \in Clients : d # c => cpc'[d] = cpc[d] /\ reg'[d] = reg[d]
    BY MoveOne, Zenon
  <1>2. ASSUME NEW d \in Clients
        PROVE  /\ cpc'[d] \in {"join", "kill"} => \A w \in Ids : w < reg'[d].i => wpc'[w + 1] = "done"
               /\ cpc'[d] = "released" => \A w \in Ids : wpc'[w + 1] = "done"
    <2>1. CASE d = c BY <1>1, <2>1, Zenon
    <2>2. CASE d # c BY <1>1, <2>2, Zenon DEF Joined
    <2> QED BY <2>1, <2>2, Zenon
  <1> QED BY <1>2, Zenon DEF Joined

LEMMA OriginalStep ==
  ASSUME Fields, Original, NEW c \in Clients, NEW place, NEW r, Move(c, place, r),
         UNCHANGED threads, \A w \in Ids : queues'[w] \in {queues[w], NoQueue},
         place = "put" => r.queue \in 1..N
  PROVE  Original'
  <1>1. /\ cpc'[c] = place /\ reg'[c] = r
        /\ \A d \in Clients : d # c => cpc'[d] = cpc[d] /\ reg'[d] = reg[d]
    BY MoveOne, Zenon
  <1>2. \A d \in Clients : cpc'[d] = "put" => reg'[d].queue \in 1..N
    BY <1>1, Zenon DEF Original
  <1>3. \A w \in Ids : threads'[w] = w + 1 /\ queues'[w] \in {w + 1, NoQueue}
    BY Zenon DEF Original
  <1> QED BY <1>2, <1>3, Zenon DEF Original

\* A client that does not begin a release.
LEMMA ClientsStep ==
  ASSUME Fields, NEW c \in Clients, NEW place, NEW r, Move(c, place, r), Basics,
         \/ Releasing(c) /\ place \in {"stop", "join", "kill", "released"} /\ UNCHANGED awaited
         \/ /\ ~Releasing(c) /\ place \notin {"stop", "join", "kill", "released"}
            /\ awaited' \in {awaited, [awaited EXCEPT ![c] = given], [awaited EXCEPT ![c] = 0]}
  PROVE  ClientsKeep
  <1>1. /\ cpc'[c] = place
        /\ \A d \in Clients : d # c => cpc'[d] = cpc[d]
    BY MoveOne, Zenon
  <1>2. awaited \in [Clients -> Nat] BY Zenon DEF Basics
  <1>3. \A d \in Clients : d # c => awaited'[d] = awaited[d]
    BY <1>2
  <1>4. \A d \in Clients : Releasing(d)' => Releasing(d) /\ awaited'[d] = awaited[d]
    BY <1>1, <1>3, Zenon DEF Releasing
  <1>5. \A d \in Clients : Releasing(d) => Releasing(d)'
    BY <1>1, Zenon DEF Releasing
  <1>6. NobodyReleases' => NobodyReleases
    BY <1>5, Zenon DEF NobodyReleases, Releasing
  <1> QED BY <1>4, <1>6, Zenon DEF ClientsKeep

\* A client that only goes elsewhere.
LEMMA ElsewhereRuns ==
  ASSUME Fields, Basics, RunsAll, NEW c \in Clients, NEW place, NEW r, Move(c, place, r),
         UNCHANGED <<threads, queues, content, wpc, running, given, finished>>,
         place = "put" => r.queue \in 1..N,
         ~Releasing(c), place \notin {"stop", "join", "kill", "released"},
         awaited' \in {awaited, [awaited EXCEPT ![c] = given], [awaited EXCEPT ![c] = 0]}
  PROVE  RunsAll'
  <1>1. Original /\ Quiet /\ Ordered /\ Accounted /\ Joined BY Zenon DEF RunsAll
  <1>2. ClientsKeep BY ClientsStep, Zenon
  <1>3. TasksKeep BY Zenon DEF TasksKeep
  <1>4. \A k \in 1..N : Orderly(k) BY OrderlyFrame, Zenon
  <1>5. given \in Nat BY Zenon DEF Fields
  <1>6. Quiet' /\ Ordered' /\ Accounted' BY <1>1, <1>2, <1>3, <1>4, <1>5, TasksStep, Zenon
  <1>7. Original' BY <1>1, OriginalStep, Zenon
  <1>8. Joined' BY <1>1, JoinedStep, Zenon
  <1> QED BY <1>6, <1>7, <1>8, Zenon DEF RunsAll

Elsewhere(c) ==
  \E place, r :
    /\ Move(c, place, r)
    /\ place = "put" => r.queue \in 1..N
    /\ ~Releasing(c) /\ place \notin {"stop", "join", "kill", "released"}

LEMMA GoesElsewhere ==
  ASSUME Fields, NEW c \in Clients, NEW place, NEW r, NEW from, cpc[c] = from,
         from \notin {"stop", "join", "kill", "released"},
         place \notin {"stop", "join", "kill", "released"},
         Go(c, place) \/ (place = from /\ UNCHANGED cpc),
         Set(c, r) \/ (r = reg[c] /\ UNCHANGED reg),
         place = "put" => r.queue \in 1..N
  PROVE  Elsewhere(c)
  <1>1. reg = [reg EXCEPT ![c] = reg[c]] /\ cpc = [cpc EXCEPT ![c] = cpc[c]]
    BY OwnRegs, Zenon
  <1>2. cpc' = [cpc EXCEPT ![c] = place] BY <1>1, Zenon DEF Go
  <1>3. reg' = [reg EXCEPT ![c] = r] BY <1>1, Zenon DEF Set
  <1>4. ~Releasing(c) BY Zenon DEF Releasing
  <1> QED BY <1>2, <1>3, <1>4, Zenon DEF Elsewhere, Move

LEMMA ElsewhereSteps ==
  ASSUME NEW c \in Clients, Fields, Chosen, Basics, RunsAll,
         \/ Push(c) \/ PushGet(c) \/ PushFind(c) \/ PushRead(c)
         \/ WaitAll(c) \/ WaitQueue(c) \/ WaitThreads(c) \/ Waited(c)
  PROVE  RunsAll'
  <1> DEFINE Away == {"stop", "join", "kill", "released"}
  <1>0. UNCHANGED <<threads, queues, content, wpc, running, given, finished>>
    BY Zenon DEF Push, PushGet, PushFind, PushRead, WaitAll, WaitQueue, WaitThreads, Waited,
       workers, history
  <1>1. awaited' \in {awaited, [awaited EXCEPT ![c] = given], [awaited EXCEPT ![c] = 0]}
    BY Zenon DEF Push, PushGet, PushFind, PushRead, WaitAll, WaitQueue, WaitThreads, Waited, history
  <1>2. \A place \in {"idle", "get", "find", "read", "waitqueue", "waitthreads", "waited"} :
           place \notin Away /\ place # "put"
    OBVIOUS
  <1>3. "put" \notin Away OBVIOUS
  <1>4. CASE Push(c)
    <2>1. Go(c, "get") \/ Go(c, "find") BY <1>4, Zenon DEF Push
    <2>2. cpc[c] = "idle" /\ UNCHANGED reg BY <1>4, Zenon DEF Push
    <2>3. Elsewhere(c) BY <1>2, <2>1, <2>2, GoesElsewhere, Zenon
    <2> QED BY <1>0, <1>1, <2>3, ElsewhereRuns, Zenon DEF Elsewhere
  <1>5. CASE PushGet(c)
    <2>1. Elsewhere(c) BY <1>2, <1>5, GoesElsewhere, Zenon DEF PushGet
    <2> QED BY <1>0, <1>1, <2>1, ElsewhereRuns, Zenon DEF Elsewhere
  <1>6. CASE PushFind(c)
    <2>1. cpc[c] = "find" BY <1>6, Zenon DEF PushFind
    <2>2. Go(c, "read") \/ Go(c, "idle") \/ UNCHANGED cpc BY <1>6, Zenon DEF PushFind
    <2>3. PICK r : Set(c, r) BY <1>6, Zenon DEF PushFind
    <2>4. Elsewhere(c) BY <1>2, <2>1, <2>2, <2>3, GoesElsewhere, Zenon
    <2> QED BY <1>0, <1>1, <2>4, ElsewhereRuns, Zenon DEF Elsewhere
  <1>7. CASE PushRead(c)
    <2> DEFINE at == reg[c].where
               q == queues[at]
               r == [NoReg EXCEPT !.queue = q, !.where = at]
    <2>1. cpc[c] = "read" BY <1>7, Zenon DEF PushRead
    <2>2. at \in Ids BY <2>1, Zenon DEF Chosen
    <2>3. q # NoQueue => q \in 1..N
      BY <2>2, FirstPooled, Zenon DEF RunsAll, Original
    <2>4. r.queue = q BY DEF NoReg
    <2>5. \/ q = NoQueue /\ Go(c, "idle") /\ Set(c, NoReg)
          \/ q # NoQueue /\ Go(c, "put") /\ Set(c, r)
      BY <1>7, Zenon DEF PushRead
    <2> HIDE DEF r, q
    <2>6. Elsewhere(c) BY <1>2, <1>3, <2>1, <2>3, <2>4, <2>5, GoesElsewhere, Zenon
    <2> QED BY <1>0, <1>1, <2>6, ElsewhereRuns, Zenon DEF Elsewhere
  <1>8. CASE WaitAll(c)
    <2>1. Elsewhere(c) BY <1>2, <1>8, GoesElsewhere, Zenon DEF WaitAll
    <2> QED BY <1>0, <1>1, <2>1, ElsewhereRuns, Zenon DEF Elsewhere
  <1>9. CASE WaitQueue(c)
    <2>1. cpc[c] = "waitqueue" BY <1>9, Zenon DEF WaitQueue
    <2>2. Go(c, "waitthreads") \/ UNCHANGED cpc BY <1>9, Zenon DEF WaitQueue
    <2>3. PICK r : Set(c, r) BY <1>9, Zenon DEF WaitQueue
    <2>4. Elsewhere(c) BY <1>2, <2>1, <2>2, <2>3, GoesElsewhere, Zenon
    <2> QED BY <1>0, <1>1, <2>4, ElsewhereRuns, Zenon DEF Elsewhere
  <1>10. CASE WaitThreads(c)
    <2>1. Elsewhere(c) BY <1>2, <1>10, GoesElsewhere, Zenon DEF WaitThreads
    <2> QED BY <1>0, <1>1, <2>1, ElsewhereRuns, Zenon DEF Elsewhere
  <1>11. CASE Waited(c)
    <2>1. Elsewhere(c) BY <1>2, <1>11, GoesElsewhere, Zenon DEF Waited
    <2> QED BY <1>0, <1>1, <2>1, ElsewhereRuns, Zenon DEF Elsewhere
  <1> QED BY <1>4, <1>5, <1>6, <1>7, <1>8, <1>9, <1>10, <1>11, Zenon

\* A put or a #f at the end of a queue.
LEMMA AppendOrderly ==
  ASSUME Fields, NEW k \in Pooled, NEW e \in Nat, e \notin 1..given,
         content'[k] = Append(content[k], e), UNCHANGED <<wpc, running>>,
         NobodyReleases => e # Stop
  PROVE  Orderly(k) /\ e \in Elements(content'[k])
  <1>1. content[k] \in Seq(Nat) /\ given \in Nat BY Zenon DEF Fields
  <1>2. Elements(content'[k]) = Elements(content[k]) \cup {e}
    <2>1. Elements(Append(content[k], e)) = Elements(content[k]) \cup {e}
      BY <1>1, ElementsAppend
    <2> QED BY <2>1, Zenon
  <1>3. ASSUME NEW n \in 0..given, InTime(content[k], wpc[k], n)
        PROVE  InTime(content'[k], wpc'[k], n)
    <2>1. n \in Nat /\ e \notin 1..n BY <1>1
    <2>2. /\ StopsLate(content[k], n) => StopsLate(content'[k], n)
          /\ HasNone(content[k], n) => HasNone(content'[k], n)
      BY <1>1, <2>1, AppendLate, Zenon
    <2> QED BY <1>3, <2>2, Zenon DEF InTime
  <1>4. \A t \in 1..given : Holds(k, t) => Holds(k, t)'
    BY <1>2, Zenon DEF Holds
  <1>5. NobodyReleases /\ Calm(content[k], wpc[k]) => Calm(content'[k], wpc'[k])
    BY <1>2, Zenon DEF Calm
  <1> QED BY <1>2, <1>3, <1>4, <1>5, Zenon DEF Orderly

LEMMA PutRuns ==
  ASSUME NEW c \in Clients, Fields, Basics, RunsAll, PushPut(c)
  PROVE  RunsAll'
  <1> DEFINE q == reg[c].queue
             e == given + 1
  <1>1. Original /\ Quiet /\ Ordered /\ Accounted /\ Joined /\ given \in Nat
    BY Zenon DEF RunsAll, Fields
  <1>2. cpc[c] = "put" /\ q \in 1..N /\ q \in Pooled
    BY <1>1, FirstPooled, Zenon DEF PushPut, Original
  <1>3. e \in Nat /\ e \notin 1..given /\ e # Stop
    BY <1>1 DEF Stop
  <1>4. content'[q] = Append(content[q], e) /\ \A k \in Pooled : k # q => content'[k] = content[k]
    BY <1>2 DEF PushPut, Fields
  <1>5. UNCHANGED <<threads, queues, wpc, running, finished, awaited>> /\ given' = e
    BY Zenon DEF PushPut
  <1>6. Move(c, "idle", NoReg) BY Zenon DEF PushPut, Move, Go, Set
  <1> HIDE DEF q, e
  <1>7. Orderly(q) /\ e \in Elements(content'[q])
    BY <1>2, <1>3, <1>4, <1>5, AppendOrderly, Zenon
  <1>8. \A k \in 1..N : Orderly(k)
    BY <1>4, <1>5, <1>7, FirstPooled, OrderlyFrame, Zenon
  <1>9. TasksKeep BY <1>2, <1>5, <1>7, Zenon DEF TasksKeep, e
  <1>10. "idle" \notin {"stop", "join", "kill", "released"} /\ "idle" # "put" OBVIOUS
  <1>11. ~Releasing(c) BY <1>2 DEF Releasing
  <1>12. ClientsKeep BY <1>5, <1>6, <1>10, <1>11, ClientsStep, Zenon
  <1>13. Quiet' /\ Ordered' /\ Accounted' BY <1>1, <1>8, <1>9, <1>12, TasksStep, Zenon
  <1>14. Original' BY <1>1, <1>5, <1>6, <1>10, OriginalStep, Zenon
  <1>15. Joined' BY <1>1, <1>5, <1>6, <1>10, JoinedStep, Zenon
  <1> QED BY <1>13, <1>14, <1>15, Zenon DEF RunsAll

\* The release begins: nothing ends a thread yet.
LEMMA ReleaseRuns ==
  ASSUME NEW c \in Clients, Fields, Basics, RunsAll, Release(c)
  PROVE  RunsAll'
  <1>1. Original /\ Quiet /\ Ordered /\ Accounted /\ Joined /\ given \in Nat
    BY Zenon DEF RunsAll, Fields
  <1>2. /\ NobodyReleases /\ Go(c, "stop")
        /\ UNCHANGED <<threads, queues, content, wpc, running, reg, given, finished>>
        /\ awaited' = [awaited EXCEPT ![c] = given]
    BY Zenon DEF Release, NobodyReleases, workers
  <1>3. Move(c, "stop", reg[c])
    BY <1>2, OwnRegs, Zenon DEF Move, Go
  <1>4. /\ cpc'[c] = "stop" /\ \A d \in Clients : d # c => cpc'[d] = cpc[d]
    BY <1>3, MoveOne, Zenon
  <1>5. ASSUME NEW d \in Clients, Releasing(d)' PROVE awaited'[d] = given
    <2>1. d = c BY <1>2, <1>4, <1>5, Zenon DEF NobodyReleases, Releasing
    <2>2. awaited \in [Clients -> Nat] BY Zenon DEF Basics
    <2> QED BY <1>2, <2>1, <2>2, Zenon
  <1>6. ASSUME NEW k \in 1..N PROVE InTime(content'[k], wpc'[k], given)
    <2>1. Calm(content[k], wpc[k]) BY <1>1, <1>2, Zenon DEF Quiet
    <2> QED BY <1>2, <2>1, Zenon DEF Calm, InTime, StopsLate, Elements
  <1>7. given \in 0..given BY <1>1
  <1>8. Ordered' BY <1>2, <1>5, <1>6, <1>7, Zenon DEF Ordered
  <1>9. Quiet' BY <1>4 DEF Quiet, NobodyReleases
  <1>10. Accounted' BY <1>1, <1>2, Zenon DEF Accounted, Holds
  <1>11. "stop" \notin {"join", "kill", "released", "put"} OBVIOUS
  <1>12. Original' BY <1>1, <1>2, <1>3, <1>11, OriginalStep, Zenon
  <1>13. Joined' BY <1>1, <1>2, <1>3, <1>11, JoinedStep, Zenon
  <1> QED BY <1>8, <1>9, <1>10, <1>12, <1>13, Zenon DEF RunsAll

\* The #f goes behind the tasks.
LEMMA StopRuns ==
  ASSUME NEW c \in Clients, Fields, Basics, RunsAll, ReleaseStop(c)
  PROVE  RunsAll'
  <1> DEFINE w == reg[c].i
  <1>1. Original /\ Quiet /\ Ordered /\ Accounted /\ Joined /\ given \in Nat
    BY Zenon DEF RunsAll, Fields
  <1>2. cpc[c] = "stop" /\ UNCHANGED <<threads, wpc, running, given, finished, awaited>>
    BY Zenon DEF ReleaseStop, history
  <1>3. Releasing(c) /\ ~NobodyReleases BY <1>2 DEF Releasing, NobodyReleases
  <1>4. TasksKeep BY <1>2, Zenon DEF TasksKeep
  <1>5. reg[c] \in Regs /\ reg = [reg EXCEPT ![c] = reg[c]] /\ cpc = [cpc EXCEPT ![c] = cpc[c]]
    BY OwnRegs, Zenon
  <1>6. CASE w = N
    <2>1. PICK how \in {"join", "kill"} : Move(c, how, NoReg)
      BY <1>6, SizeAssumption DEF ReleaseStop, Move, Go, Set
    <2>2. UNCHANGED <<queues, content>> BY <1>6, SizeAssumption DEF ReleaseStop
    <2>3. how \in {"stop", "join", "kill", "released"} /\ how \notin {"put", "released"} OBVIOUS
    <2>4. ClientsKeep BY <1>2, <1>3, <2>1, <2>3, ClientsStep, Zenon
    <2>5. \A k \in 1..N : Orderly(k) BY <1>2, <2>2, OrderlyFrame, Zenon
    <2>6. Quiet' /\ Ordered' /\ Accounted' BY <1>1, <1>4, <2>4, <2>5, TasksStep, Zenon
    <2>7. Original' BY <1>1, <1>2, <2>1, <2>2, <2>3, OriginalStep, Zenon
    <2>8. \A v \in Ids : ~(v < NoReg.i) BY SizeAssumption DEF NoReg, Ids
    <2>9. Joined' BY <1>1, <1>2, <2>1, <2>3, <2>8, JoinedStep, Zenon
    <2> QED BY <2>6, <2>7, <2>9, Zenon DEF RunsAll
  <1>7. CASE w < N
    <2> DEFINE r == [reg[c] EXCEPT !.i = @ + 1]
    <2>1. w \in Ids
      <3>1. w \in 0..N BY <1>5 DEF Regs
      <3> QED BY <1>7, <3>1, SizeAssumption DEF Ids
    <2>2. /\ content' = [content EXCEPT ![queues[w]] = Append(@, Stop)]
          /\ queues' = [queues EXCEPT ![w] = NoQueue]
          /\ Set(c, r) /\ UNCHANGED cpc
      <3>1. w # N BY <1>7, <2>1, SizeAssumption DEF Ids
      <3> QED BY <3>1, Zenon DEF ReleaseStop
    <2>3. Move(c, "stop", r) BY <1>2, <1>5, <2>2, Zenon DEF Move, Set
    <2>4. \A v \in Ids : queues'[v] \in {queues[v], NoQueue} BY <2>2 DEF Fields
    <2>5. Stop \in Nat /\ Stop \notin 1..given BY <1>1 DEF Stop
    <2>6. ASSUME NEW k \in 1..N PROVE Orderly(k)
      <3>1. k \in Pooled /\ content \in [Pooled -> Seq(Nat)] BY FirstPooled, Zenon DEF Fields
      <3>2. CASE queues[w] = k
        <4>1. content'[k] = Append(content[k], Stop) BY <2>2, <3>1, <3>2, Zenon
        <4> QED BY <1>2, <1>3, <2>5, <3>1, <4>1, AppendOrderly, Zenon
      <3>3. CASE queues[w] # k
        <4>1. content'[k] = content[k] BY <2>2, <3>1, <3>3, Zenon
        <4> QED BY <1>2, <4>1, OrderlyFrame, Zenon
      <3> QED BY <3>2, <3>3
    <2>7. "stop" \in {"stop", "join", "kill", "released"} /\ "stop" \notin {"put", "released", "join", "kill"}
      OBVIOUS
    <2> HIDE DEF r
    <2>8. ClientsKeep BY <1>2, <1>3, <2>3, <2>7, ClientsStep, Zenon
    <2>9. Quiet' /\ Ordered' /\ Accounted' BY <1>1, <1>4, <2>6, <2>8, TasksStep, Zenon
    <2>10. Original' BY <1>1, <1>2, <2>3, <2>4, <2>7, OriginalStep, Zenon
    <2>11. Joined' BY <1>1, <1>2, <2>3, <2>7, JoinedStep, Zenon
    <2> QED BY <2>9, <2>10, <2>11, Zenon DEF RunsAll
  <1> QED BY <1>6, <1>7, Zenon DEF ReleaseStop

\* The threads are joined; one that thread-terminate! finds had ended.
LEMMA EachRuns ==
  ASSUME NEW c \in Clients, Fields, Basics, RunsAll, Whole', ReleaseEach(c)
  PROVE  RunsAll'
  <1> DEFINE w == reg[c].i
             r == [reg[c] EXCEPT !.i = @ + 1]
  <1>1. Original /\ Quiet /\ Ordered /\ Accounted /\ Joined /\ given \in Nat
    BY Zenon DEF RunsAll, Fields
  <1>2. /\ cpc[c] \in {"join", "kill"}
        /\ UNCHANGED <<threads, queues, content, given, finished, awaited>>
    BY Zenon DEF ReleaseEach
  <1>3. Releasing(c) BY <1>2 DEF Releasing
  <1>4. TasksKeep BY <1>2, Zenon DEF TasksKeep
  <1>5. reg[c] \in Regs /\ reg = [reg EXCEPT ![c] = reg[c]] /\ cpc = [cpc EXCEPT ![c] = cpc[c]]
    BY OwnRegs, Zenon
  <1>6. w \in 0..N BY <1>5, Zenon DEF Regs
  <1>7. \A v \in Ids : w < N => w \in Ids /\ (v < w + 1 => v < w \/ v = w)
    BY <1>6, SizeAssumption DEF Ids
  <1>8. \A v \in Ids : w = N => v < w
    BY SizeAssumption DEF Ids
  <1>9. \A v \in Ids : v < w => wpc[v + 1] = "done"
    BY <1>1, <1>2, Zenon DEF Joined
  <1>10. r.i = w + 1 BY <1>5 DEF Regs
  <1>11. CASE w = N /\ Go(c, "released") /\ UNCHANGED <<reg, wpc, running, discarded>>
    <2>1. Move(c, "released", reg[c]) BY <1>5, <1>11, Zenon DEF Move, Go
    <2>2. "released" \in {"stop", "join", "kill", "released"} /\ "released" \notin {"put", "join", "kill"}
      OBVIOUS
    <2>3. ClientsKeep BY <1>2, <1>3, <2>1, <2>2, ClientsStep, Zenon
    <2>4. \A k \in 1..N : Orderly(k) BY <1>2, <1>11, OrderlyFrame, Zenon
    <2>5. Quiet' /\ Ordered' /\ Accounted' BY <1>1, <1>4, <2>3, <2>4, TasksStep, Zenon
    <2>6. Original' BY <1>1, <1>2, <2>1, <2>2, OriginalStep, Zenon
    <2>7. \A v \in Ids : wpc'[v + 1] = "done" BY <1>8, <1>9, <1>11, Zenon
    <2>8. Joined' BY <1>1, <2>1, <2>2, <2>7, JoinedStep, Zenon
    <2> QED BY <2>5, <2>6, <2>8, Zenon DEF RunsAll
  <1>12. CASE /\ w < N /\ Set(c, r) /\ UNCHANGED cpc
              /\ \/ wpc[threads[w]] \in {"done", "killed"} /\ UNCHANGED <<wpc, running>>
                 \/ Kill(threads[w])
    <2>1. w \in Ids BY <1>6, <1>12, SizeAssumption DEF Ids
    <2>2. threads[w] = w + 1 /\ w + 1 \in Pooled /\ w + 1 \in 1..N
      BY <1>1, <2>1, FirstPooled, Zenon DEF Original
    <2>3. wpc \in [Pooled -> WorkerPlaces] /\ running \in [Pooled -> Nat] /\ Busy
      BY Zenon DEF Fields, Basics
    <2>4. \A k \in Pooled : wpc'[k] # "killed" BY Zenon DEF Whole
    <2>5. wpc[w + 1] = "done" /\ UNCHANGED <<wpc, running>>
      <3>1. CASE wpc[threads[w]] \in {"done", "killed"} /\ UNCHANGED <<wpc, running>>
        BY <2>2, <2>4, <3>1, Zenon
      <3>2. CASE Kill(w + 1)
        <4>1. wpc'[w + 1] = IF wpc[w + 1] = "done" THEN "done" ELSE "killed"
          BY <2>2, <2>3, <3>2, Zenon DEF Kill
        <4>2. wpc[w + 1] = "done" BY <2>2, <2>4, <4>1, Zenon
        <4>3. running[w + 1] = 0
          <5>1. "done" # "run" OBVIOUS
          <5> QED BY <2>2, <2>3, <4>2, <5>1, Zenon DEF Busy
        <4>4. wpc' = wpc BY <2>2, <2>3, <3>2, <4>2, Zenon DEF Kill
        <4>5. running' = running BY <2>2, <2>3, <3>2, <4>3, Zenon DEF Kill
        <4> QED BY <4>2, <4>4, <4>5, Zenon
      <3> QED BY <1>12, <2>2, <3>1, <3>2, Zenon
    <2>6. Move(c, cpc[c], r) BY <1>5, <1>12, Zenon DEF Move, Set
    <2>7. cpc[c] \in {"stop", "join", "kill", "released"} /\ cpc[c] \notin {"put", "released"}
      BY <1>2
    <2>8. \A v \in Ids : v < r.i => wpc'[v + 1] = "done"
      BY <1>7, <1>9, <1>10, <1>12, <2>5, Zenon
    <2> HIDE DEF r
    <2>9. ClientsKeep BY <1>2, <1>3, <2>6, <2>7, ClientsStep, Zenon
    <2>10. \A k \in 1..N : Orderly(k) BY <1>2, <2>5, OrderlyFrame, Zenon
    <2>11. Quiet' /\ Ordered' /\ Accounted' BY <1>1, <1>4, <2>9, <2>10, TasksStep, Zenon
    <2>12. Original' BY <1>1, <1>2, <2>6, <2>7, OriginalStep, Zenon
    <2>13. Joined' BY <1>1, <2>5, <2>6, <2>7, <2>8, JoinedStep, Zenon
    <2> QED BY <2>11, <2>12, <2>13, Zenon DEF RunsAll
  <1> QED BY <1>11, <1>12, Zenon DEF ReleaseEach

LEMMA WorkerRuns ==
  ASSUME NEW k \in Pooled, Fields, Basics, RunsAll, Worker(k)
  PROVE  RunsAll'
  <1>1. Original /\ Quiet /\ Ordered /\ Accounted /\ Joined /\ given \in Nat
    BY Zenon DEF RunsAll, Fields
  <1>2. TasksKeep /\ ClientsKeep /\ \A j \in 1..N : Orderly(j)
    BY WorkerTasks, Zenon
  <1>3. UNCHANGED <<threads, queues, cpc, reg>>
    BY Zenon DEF Worker, List, Get, Run, Check
  <1>4. Quiet' /\ Ordered' /\ Accounted' BY <1>1, <1>2, TasksStep, Zenon
  <1>5. Original' BY <1>1, <1>3, Zenon DEF Original
  <1>6. Joined' BY <1>1, <1>2, <1>3, FirstPooled, Zenon DEF Joined, Orderly
  <1> QED BY <1>4, <1>5, <1>6, Zenon DEF RunsAll

LEMMA RunsStep ==
  ASSUME IInv, RInv, [Next]_vars
  PROVE  RInv'
  <1>0. Fields /\ Chosen /\ Basics BY Zenon DEF IInv, RInv, Basics
  <1>1. CASE UNCHANGED vars
    <2>1. UNCHANGED <<threads, queues, content, wpc, running, given, finished, awaited, cpc, reg>>
      BY <1>1, Zenon DEF vars, workers, history
    <2>2. Basics' BY <1>0, <2>1, Zenon DEF Basics, Started, Busy
    <2>3. Whole' => Whole BY <2>1, Zenon DEF Whole, Replacing
    <2>4. (Original => Original') /\ (Joined => Joined') BY <2>1, Zenon DEF Original, Joined
    <2>5. (Quiet => Quiet') /\ (Accounted => Accounted')
      BY <2>1, Zenon DEF Quiet, NobodyReleases, Accounted, Holds
    <2>6. Ordered => Ordered' BY <2>1, Zenon DEF Ordered, Releasing
    <2> QED BY <2>2, <2>3, <2>4, <2>5, <2>6, Zenon DEF RInv, Basics, RunsAll
  <1>2. CASE Next
    <2>1. Basics'
      <3>1. CASE \E k \in Pooled : Worker(k) BY <1>0, <3>1, WorkerTasks, Zenon
      <3>2. CASE \E c \in Clients : Client(c) BY <1>0, <3>2, ClientBasics, Zenon
      <3> QED BY <1>2, <3>1, <3>2, Zenon DEF Next
    <2>2. ASSUME Whole' PROVE RunsAll'
      <3>1. Whole /\ ((\E k \in Pooled : Worker(k)) \/ \E c \in Clients : PoolStep(c))
        BY <1>0, <1>2, <2>2, WholeStep, Zenon
      <3>2. RunsAll BY <3>1, Zenon DEF RInv
      <3>3. CASE \E k \in Pooled : Worker(k) BY <1>0, <3>2, <3>3, WorkerRuns, Zenon
      <3>4. ASSUME NEW c \in Clients, PoolStep(c) PROVE RunsAll'
        <4>1. CASE \/ Push(c) \/ PushGet(c) \/ PushFind(c) \/ PushRead(c)
                   \/ WaitAll(c) \/ WaitQueue(c) \/ WaitThreads(c) \/ Waited(c)
          BY <1>0, <3>2, <4>1, ElsewhereSteps, Zenon
        <4>2. CASE PushPut(c) BY <1>0, <3>2, <4>2, PutRuns, Zenon
        <4>3. CASE Release(c) BY <1>0, <3>2, <4>3, ReleaseRuns, Zenon
        <4>4. CASE ReleaseStop(c) BY <1>0, <3>2, <4>4, StopRuns, Zenon
        <4>5. CASE ReleaseEach(c) BY <1>0, <2>2, <3>2, <4>5, EachRuns, Zenon
        <4> QED BY <3>4, <4>1, <4>2, <4>3, <4>4, <4>5, Zenon DEF PoolStep
      <3> QED BY <3>1, <3>3, <3>4, Zenon
    <2> QED BY <2>1, <2>2, Zenon DEF RInv, Basics
  <1> QED BY <1>1, <1>2

LEMMA InitRuns == Init => RInv
  <1> SUFFICES ASSUME Init PROVE RInv
    OBVIOUS
  <1>1. running \in [Pooled -> Nat] /\ awaited \in [Clients -> Nat] /\ Busy
    BY DEF Init, Busy
  <1>2. \A k \in 1..N : content[k] = <<>> /\ wpc[k] = "get"
    <2>1. \A k \in 1..N : k \in Pooled /\ k <= N BY FirstPooled, SizeAssumption
    <2> QED BY <2>1, Zenon DEF Init
  <1>3. Started BY <1>2 DEF Started
  <1>4. \A c \in Clients : cpc[c] = "idle" BY Zenon DEF Init
  <1>5. Original BY <1>4, SizeAssumption DEF Init, Original, Ids
  <1>6. Quiet
    <2>1. Elements(<<>>) = {} BY DEF Elements
    <2>2. "get" # "done" OBVIOUS
    <2> QED BY <1>2, <2>1, <2>2, Zenon DEF Quiet, Calm
  <1>7. Ordered /\ Joined BY <1>4 DEF Ordered, Joined, Releasing
  <1>8. Accounted
    <2>1. 1..given = {} BY DEF Init
    <2> QED BY <2>1, Zenon DEF Accounted
  <1> QED BY <1>1, <1>3, <1>5, <1>6, <1>7, <1>8, Zenon DEF RInv, RunsAll

\* Without a terminated thread the pool is whole.
LEMMA WholePool ==
  ASSUME IInv, RInv, NoneTerminated
  PROVE  Whole
  <1>0. Replacement /\ Started BY Zenon DEF IInv, RInv
  <1>1. ASSUME NEW d \in Clients, Replacing(d) PROVE FALSE
    <2> DEFINE new == reg[d].queue
    <2>1. new \in Pooled /\ wpc[new] = "none" BY <1>0, <1>1, Zenon DEF Replacement
    <2>2. new \in Created BY <1>1, Zenon DEF Created, Replacing
    <2> HIDE DEF new
    <2>3. new <= N BY <2>1, <2>2, Zenon DEF NoneTerminated
    <2>4. new \in 1..N BY <2>1, <2>3, SizeAssumption, BoundsAssumption DEF Pooled
    <2> QED BY <1>0, <2>1, <2>4, Zenon DEF Started
  <1>2. \A k \in Pooled : wpc[k] # "none" => k \in Created BY Zenon DEF Created
  <1> QED BY <1>1, <1>2, Zenon DEF Whole, NoneTerminated

LEMMA RunsImplies ==
  ASSUME IInv, RInv
  PROVE  ReleaseRunsTasks
  <1> SUFFICES ASSUME NoneTerminated, NEW c \in Clients, cpc[c] = "released", NEW t \in 1..awaited[c]
               PROVE  t \in finished
    BY Zenon DEF ReleaseRunsTasks
  <1>1. Busy /\ given \in Nat BY Zenon DEF IInv, RInv, Fields
  <1>2. Whole BY WholePool, Zenon
  <1>3. Ordered /\ Accounted /\ Joined BY <1>2, Zenon DEF RInv, RunsAll
  <1>4. \A k \in 1..N : wpc[k] = "done"
    <2>1. \A k \in 1..N : k - 1 \in Ids /\ (k - 1) + 1 = k BY SizeAssumption DEF Ids
    <2>2. \A w \in Ids : wpc[w + 1] = "done" BY <1>3, Zenon DEF Joined
    <2> QED BY <2>1, <2>2
  <1>5. awaited[c] \in 0..given /\ \A k \in 1..N : HasNone(content[k], awaited[c])
    <2>1. Releasing(c) BY DEF Releasing
    <2> QED BY <1>3, <1>4, <2>1, Zenon DEF Ordered, InTime
  <1>6. t \in 1..given /\ t # 0 BY <1>1, <1>5
  <1>7. ASSUME NEW k \in 1..N, Holds(k, t) PROVE FALSE
    <2>1. running[k] = 0
      <3>1. "done" # "run" OBVIOUS
      <3> QED BY <1>1, <1>4, <3>1, FirstPooled, Zenon DEF Busy
    <2>2. t \in Elements(content[k]) BY <1>6, <1>7, <2>1, Zenon DEF Holds
    <2> QED BY <1>5, <2>2, Zenon DEF HasNone, Elements
  <1> QED BY <1>3, <1>6, <1>7, Zenon DEF Accounted

\* thread-pool-release! that joins the threads runs every task pushed before it, for any
\* number of threads and tasks: nothing that was in a queue, or being run, when the #f
\* was put behind it is lost, as long as no thread of the pool is replaced or terminated.
THEOREM ReleasesRunTasks == Spec => []ReleaseRunsTasks
  <1>1. IInv /\ RInv /\ [Next]_vars => RInv' BY RunsStep
  <1>2. IInv /\ RInv => ReleaseRunsTasks BY RunsImplies
  <1> QED BY <1>1, <1>2, InitRuns, Inductive, PTL DEF Spec

(***************************************************************************)
(* thread-pool-wait-all! waits for the tasks pushed, as long as every task *)
(* found an idling thread and no thread is replaced.                       *)
(***************************************************************************)
Smooth == NoneTerminated /\ \A c \in Clients : cpc[c] # "find"

\* An id is offered while it is in idlings or a client has taken it from there.
Holding(c) == cpc[c] \in {"read", "put"}
Offered(w) == w \in Elements(idlings) \/ \E c \in Clients : Holding(c) /\ reg[c].where = w

Single(s) == \A i, j \in 1..Len(s) : s[i] = s[j] => i = j

\* No id is offered twice.
OnceOffered ==
  /\ Single(idlings)
  /\ \A c \in Clients : Holding(c) => reg[c].where \notin Elements(idlings)
  /\ \A c, d \in Clients : Holding(c) /\ Holding(d) /\ reg[c].where = reg[d].where => c = d

OwnQueue == \A c \in Clients : cpc[c] = "put" => reg[c].queue = reg[c].where + 1

\* The thread of an offered id, or one about to offer its id, has no task.
Free(k) == TasksIn(k) = {}
Spare ==
  \A w \in Ids : /\ Offered(w) => wpc[w + 1] \in {"get", "done"} /\ Free(w + 1)
                 /\ wpc[w + 1] = "list" => Free(w + 1)

Awaits ==
  \A c \in Clients : awaited[c] \in 0..given /\ (cpc[c] = "waited" => 1..awaited[c] \subseteq finished)

\* What makes counting the ids enough.
WInv == OnceOffered /\ OwnQueue /\ Spare /\ Awaits

\* As many ids as threads, none of them twice, are all the ids.
LEMMA AllListed ==
  ASSUME NEW s \in Seq(Ids), Len(s) = N, Single(s)
  PROVE  \A w \in Ids : w \in Elements(s)
  <1>1. s \in [1..N -> Ids] /\ N \in Nat BY SizeAssumption
  <1>2. s \in Injection(1..N, Ids)
    BY <1>1 DEF Single, Injection, IsInjective
  <1>3. IsFiniteSet(Ids) /\ Cardinality(Ids) = N
    <2>1. 0 \in Int /\ N - 1 \in Int /\ ~(0 > N - 1) /\ (N - 1) - 0 + 1 = N BY SizeAssumption
    <2> QED BY <2>1, FS_Interval DEF Ids
  <1>4. Cardinality(1..N) = N
    <2>1. 1 \in Int /\ N \in Int /\ ~(1 > N) /\ N - 1 + 1 = N BY SizeAssumption
    <2> QED BY <2>1, FS_Interval
  <1>5. s \in Surjection(1..N, Ids)
    BY <1>2, <1>3, <1>4, FS_Injection, Zenon
  <1>6. \A w \in Ids : \E i \in 1..N : s[i] = w
    BY <1>5, Zenon DEF Surjection
  <1> QED BY <1>6, Zenon DEF Elements

\* A list of all the ids that is as long as their number has none twice.
LEMMA AllOnce ==
  ASSUME NEW s \in [1..N -> Ids], Elements(s) = Ids
  PROVE  Single(s)
  <1>1. s \in Seq(Ids) /\ Len(s) = N /\ N \in Nat BY SizeAssumption
  <1>2. \A w \in Ids : \E i \in 1..N : s[i] = w
    BY <1>1, Zenon DEF Elements
  <1>3. s \in Surjection(1..N, Ids)
    BY <1>2, Zenon DEF Surjection
  <1>4. Cardinality(Ids) = N
    <2>1. 0 \in Int /\ N - 1 \in Int /\ ~(0 > N - 1) /\ (N - 1) - 0 + 1 = N BY SizeAssumption
    <2> QED BY <2>1, FS_Interval DEF Ids
  <1>5. IsFiniteSet(1..N) /\ Cardinality(1..N) = N
    <2>1. 1 \in Int /\ N \in Int /\ ~(1 > N) /\ N - 1 + 1 = N BY SizeAssumption
    <2> QED BY <2>1, FS_Interval
  <1>6. s \in Injection(1..N, Ids)
    BY <1>3, <1>4, <1>5, FS_Surjection, Zenon
  <1> QED BY <1>1, <1>6 DEF Single, Injection, IsInjective

\* The list after a put of an id that it does not have.
LEMMA SingleAppend ==
  ASSUME NEW s \in Seq(Ids), NEW e \in Ids, Single(s), e \notin Elements(s)
  PROVE  Single(Append(s, e))
  <1> DEFINE a == Append(s, e)
  <1>1. /\ Len(s) \in Nat /\ Len(a) = Len(s) + 1 /\ a[Len(s) + 1] = e
        /\ \A i \in 1..Len(s) : a[i] = s[i]
    OBVIOUS
  <1> HIDE DEF a
  <1>2. \A j \in 1..Len(a) : j \in 1..Len(s) \/ j = Len(s) + 1 BY <1>1
  <1>3. \A i \in 1..Len(s) : s[i] # e BY Zenon DEF Elements
  <1>4. Single(a) BY <1>1, <1>2, <1>3, Zenon DEF Single
  <1> QED BY <1>4 DEF a

\* The list after a get.
LEMMA SingleTail ==
  ASSUME NEW s \in Seq(Ids), s # <<>>, Single(s)
  PROVE  /\ Single(Tail(s)) /\ Head(s) \notin Elements(Tail(s))
         /\ Head(s) \in Elements(s) /\ Elements(Tail(s)) \subseteq Elements(s)
  <1>1. Len(s) \in Nat /\ Len(Tail(s)) = Len(s) - 1 /\ Head(s) = s[1] /\ Len(s) # 0 OBVIOUS
  <1>2. \A i \in 1..Len(Tail(s)) : Tail(s)[i] = s[i + 1] OBVIOUS
  <1>3. \A i \in 1..Len(Tail(s)) : i + 1 \in 1..Len(s) /\ i + 1 # 1 BY <1>1
  <1>4. \A i, j \in 1..Len(Tail(s)) : i + 1 = j + 1 => i = j BY <1>1
  <1>5. 1 \in 1..Len(s) BY <1>1
  <1>6. Single(Tail(s)) BY <1>2, <1>3, <1>4, Zenon DEF Single
  <1>7. \A i \in 1..Len(Tail(s)) : Tail(s)[i] # s[1] /\ Tail(s)[i] \in Elements(s)
    BY <1>2, <1>3, <1>5, Zenon DEF Single, Elements
  <1>8. Head(s) \in Elements(s) BY <1>1, <1>5, Zenon DEF Elements
  <1> QED BY <1>1, <1>6, <1>7, <1>8, Zenon DEF Elements

\* A client that takes no id offers none.
LEMMA OffersStep ==
  ASSUME Fields, OnceOffered, NEW c \in Clients, NEW place, NEW r, Move(c, place, r),
         UNCHANGED idlings, place \in {"read", "put"} => Holding(c) /\ r.where = reg[c].where
  PROVE  OnceOffered' /\ \A w \in Ids : Offered(w)' => Offered(w)
  <1>1. /\ cpc'[c] = place /\ reg'[c] = r
        /\ \A d \in Clients : d # c => cpc'[d] = cpc[d] /\ reg'[d] = reg[d]
    BY MoveOne, Zenon
  <1>2. \A d \in Clients : Holding(d)' => Holding(d) /\ reg'[d].where = reg[d].where
    BY <1>1, Zenon DEF Holding
  <1>3. OnceOffered' BY <1>2, Zenon DEF OnceOffered
  <1>4. \A w \in Ids : Offered(w)' => Offered(w) BY <1>2, Zenon DEF Offered
  <1> QED BY <1>3, <1>4

\* A client puts to the queue of the id that it took.
LEMMA OwnStep ==
  ASSUME Fields, OwnQueue, NEW c \in Clients, NEW place, NEW r, Move(c, place, r),
         place = "put" => r.queue = r.where + 1
  PROVE  OwnQueue'
  <1>1. /\ cpc'[c] = place /\ reg'[c] = r
        /\ \A d \in Clients : d # c => cpc'[d] = cpc[d] /\ reg'[d] = reg[d]
    BY MoveOne, Zenon
  <1> QED BY <1>1, Zenon DEF OwnQueue

\* A step that offers no id and gives a thread without task none.
LEMMA SpareStep ==
  ASSUME Spare, UNCHANGED wpc, \A w \in Ids : Offered(w)' => Offered(w),
         \A w \in Ids : Free(w + 1) => Free(w + 1)'
  PROVE  Spare'
  BY Zenon DEF Spare

\* A step that begins a wait, or ends one whose tasks are finished.
LEMMA AwaitsStep ==
  ASSUME Fields, Basics, Awaits, NEW c \in Clients, NEW place, NEW r, Move(c, place, r),
         given' \in {given, given + 1}, finished \subseteq finished',
         awaited' \in {awaited, [awaited EXCEPT ![c] = given], [awaited EXCEPT ![c] = 0]},
         place = "waited" => UNCHANGED awaited /\ 1..awaited[c] \subseteq finished
  PROVE  Awaits'
  <1>1. /\ cpc'[c] = place
        /\ \A d \in Clients : d # c => cpc'[d] = cpc[d]
    BY MoveOne, Zenon
  <1>2. awaited \in [Clients -> Nat] /\ given \in Nat BY Zenon DEF Basics, Fields
  <1>3. 0..given \subseteq 0..given' /\ given \in 0..given' /\ 0 \in 0..given' BY <1>2
  <1>4. /\ awaited'[c] \in {awaited[c], given, 0}
        /\ \A d \in Clients : d # c => awaited'[d] = awaited[d]
    BY <1>2
  <1>5. \A d \in Clients : awaited[d] \in 0..given BY Zenon DEF Awaits
  <1>6. \A d \in Clients : awaited'[d] \in 0..given' BY <1>3, <1>4, <1>5, Zenon
  <1>7. \A d \in Clients : cpc'[d] = "waited" => 1..awaited'[d] \subseteq finished'
    <2> SUFFICES ASSUME NEW d \in Clients, cpc'[d] = "waited" PROVE 1..awaited'[d] \subseteq finished'
      OBVIOUS
    <2>1. CASE d = c BY <1>1, <2>1, Zenon
    <2>2. CASE d # c
      <3>1. awaited'[d] = awaited[d] /\ 1..awaited[d] \subseteq finished
        BY <1>1, <1>4, <2>2, Zenon DEF Awaits
      <3> QED BY <3>1, Zenon
    <2> QED BY <2>1, <2>2
  <1> QED BY <1>6, <1>7, Zenon DEF Awaits

\* A client that takes no id and puts no task.
LEMMA ApartKeeps ==
  ASSUME Fields, Basics, WInv, NEW c \in Clients, NEW place, NEW r, Move(c, place, r),
         UNCHANGED <<idlings, wpc, given, finished>>,
         \A w \in Ids : Free(w + 1) => Free(w + 1)',
         place \in {"read", "put"} => Holding(c) /\ r.where = reg[c].where,
         place = "put" => r.queue = r.where + 1,
         awaited' \in {awaited, [awaited EXCEPT ![c] = given], [awaited EXCEPT ![c] = 0]},
         place = "waited" => UNCHANGED awaited /\ 1..awaited[c] \subseteq finished
  PROVE  WInv'
  <1>1. OnceOffered /\ OwnQueue /\ Spare /\ Awaits BY Zenon DEF WInv
  <1>2. OnceOffered' /\ \A w \in Ids : Offered(w)' => Offered(w) BY <1>1, OffersStep, Zenon
  <1>3. OwnQueue' BY <1>1, OwnStep, Zenon
  <1>4. Spare' BY <1>1, <1>2, SpareStep, Zenon
  <1>5. Awaits' BY <1>1, AwaitsStep, Zenon
  <1> QED BY <1>2, <1>3, <1>4, <1>5, Zenon DEF WInv

\* The tasks of a queue that is unchanged.
LEMMA FreeFrame ==
  ASSUME NEW k, content'[k] = content[k]
  PROVE  Free(k)' <=> Free(k)
  BY Zenon DEF Free, TasksIn

\* The steps of the clients that only go elsewhere.
LEMMA ApartSteps ==
  ASSUME NEW c \in Clients, Fields, Basics, WInv,
         Push(c) \/ WaitAll(c) \/ WaitQueue(c) \/ Waited(c) \/ Release(c)
  PROVE  WInv'
  <1> DEFINE Away == {"read", "put", "waited"}
  <1>0. UNCHANGED <<idlings, content, wpc, given, finished>>
    BY Zenon DEF Push, WaitAll, WaitQueue, Waited, Release, workers, history
  <1>1. \A w \in Ids : Free(w + 1) => Free(w + 1)' BY <1>0, FreeFrame, Zenon
  <1>2. awaited' \in {awaited, [awaited EXCEPT ![c] = given], [awaited EXCEPT ![c] = 0]}
    BY Zenon DEF Push, WaitAll, WaitQueue, Waited, Release, history
  <1>3. \A place \in {"idle", "get", "find", "waitqueue", "waitthreads", "stop"} : place \notin Away
    OBVIOUS
  <1>4. reg = [reg EXCEPT ![c] = reg[c]] /\ cpc = [cpc EXCEPT ![c] = cpc[c]]
    BY OwnRegs, Zenon
  <1>5. SUFFICES \E place, r : Move(c, place, r) /\ place \notin Away
    BY <1>0, <1>1, <1>2, ApartKeeps, Zenon
  <1>6. CASE Push(c)
    <2>1. (Go(c, "get") \/ Go(c, "find")) /\ UNCHANGED reg BY <1>6, Zenon DEF Push
    <2> QED BY <1>3, <1>4, <2>1, Zenon DEF Go, Move
  <1>7. CASE WaitAll(c) BY <1>3, <1>7, Zenon DEF WaitAll, Go, Set, Move
  <1>8. CASE WaitQueue(c)
    <2>1. cpc[c] = "waitqueue" /\ (Go(c, "waitthreads") \/ UNCHANGED cpc) BY <1>8, Zenon DEF WaitQueue
    <2>2. PICK r : Set(c, r) BY <1>8, Zenon DEF WaitQueue
    <2> QED BY <1>3, <1>4, <2>1, <2>2, Zenon DEF Go, Set, Move
  <1>9. CASE Waited(c) BY <1>3, <1>4, <1>9, Zenon DEF Waited, Go, Move
  <1>10. CASE Release(c) BY <1>3, <1>4, <1>10, Zenon DEF Release, Go, Move
  <1> QED BY <1>6, <1>7, <1>8, <1>9, <1>10

\* The queue of the id is read.
LEMMA ReadKeeps ==
  ASSUME NEW c \in Clients, Fields, Chosen, Basics, Original, WInv, PushRead(c)
  PROVE  WInv'
  <1> DEFINE at == reg[c].where
             q == queues[at]
             r == [NoReg EXCEPT !.queue = q, !.where = at]
  <1>1. cpc[c] = "read" /\ UNCHANGED <<idlings, content, wpc, given, finished, awaited>>
    BY Zenon DEF PushRead, workers, history
  <1>2. \A w \in Ids : Free(w + 1) => Free(w + 1)' BY <1>1, FreeFrame, Zenon
  <1>3. Holding(c) /\ at \in Ids BY <1>1 DEF Holding, Chosen
  <1>4. q # NoQueue => q = at + 1 BY <1>3, Zenon DEF Original
  <1>5. r.queue = q /\ r.where = at BY DEF NoReg
  <1>6. \/ q = NoQueue /\ Move(c, "idle", NoReg)
        \/ q # NoQueue /\ Move(c, "put", r)
    BY Zenon DEF PushRead, Go, Set, Move
  <1> HIDE DEF r, q
  <1>7. "idle" \notin {"read", "put"} /\ "idle" # "put" /\ "idle" # "waited" /\ "put" # "waited" OBVIOUS
  <1>8. CASE Move(c, "idle", NoReg) BY <1>1, <1>2, <1>7, <1>8, ApartKeeps, Zenon
  <1>9. CASE q # NoQueue /\ Move(c, "put", r)
    <2>1. r.queue = r.where + 1 BY <1>4, <1>5, <1>9
    <2> QED BY <1>1, <1>2, <1>3, <1>5, <1>7, <1>9, <2>1, ApartKeeps, Zenon
  <1> QED BY <1>6, <1>8, <1>9, Zenon

\* An id is taken from idlings.
LEMMA TakeKeeps ==
  ASSUME NEW c \in Clients, Fields, Basics, WInv, PushGet(c)
  PROVE  WInv'
  <1> DEFINE h == Head(idlings)
             r == [NoReg EXCEPT !.where = h]
  <1>0. OnceOffered /\ OwnQueue /\ Spare /\ Awaits BY Zenon DEF WInv
  <1>1. /\ cpc[c] = "get" /\ idlings # <<>> /\ idlings' = Tail(idlings) /\ Move(c, "read", r)
        /\ UNCHANGED <<content, wpc, given, finished, awaited>>
    BY Zenon DEF PushGet, Go, Set, Move, workers, history
  <1>2. r.where = h BY DEF NoReg
  <1>3. /\ Single(idlings') /\ h \notin Elements(idlings')
        /\ h \in Elements(idlings) /\ Elements(idlings') \subseteq Elements(idlings)
    <2>1. idlings \in Seq(Ids) /\ Single(idlings) BY <1>0, Zenon DEF Fields, OnceOffered
    <2> QED BY <1>1, <2>1, SingleTail, Zenon
  <1> HIDE DEF h, r
  <1>4. /\ cpc'[c] = "read" /\ reg'[c] = r
        /\ \A d \in Clients : d # c => cpc'[d] = cpc[d] /\ reg'[d] = reg[d]
    BY <1>1, MoveOne, Zenon
  <1>5. \A d \in Clients : \/ d = c /\ reg'[d].where = h
                           \/ d # c /\ (Holding(d)' <=> Holding(d)) /\ reg'[d].where = reg[d].where
    BY <1>2, <1>4, Zenon DEF Holding
  <1>6. \A d \in Clients : Holding(d) => reg[d].where # h BY <1>0, <1>3, Zenon DEF OnceOffered
  <1>7. OnceOffered' BY <1>0, <1>3, <1>5, <1>6, Zenon DEF OnceOffered
  <1>8. \A w \in Ids : Offered(w)' => Offered(w)
    BY <1>3, <1>5, Zenon DEF Offered
  <1>9. "read" # "put" /\ "read" # "waited" OBVIOUS
  <1>10. OwnQueue' BY <1>0, <1>1, <1>9, OwnStep, Zenon
  <1>11. \A w \in Ids : Free(w + 1) => Free(w + 1)' BY <1>1, FreeFrame, Zenon
  <1>12. Spare' BY <1>0, <1>1, <1>8, <1>11, SpareStep, Zenon
  <1>13. Awaits' BY <1>0, <1>1, <1>9, AwaitsStep, Zenon
  <1> QED BY <1>7, <1>10, <1>12, <1>13, Zenon DEF WInv

\* A task goes to the thread of the id that was taken, which is no longer offered.
LEMMA PutKeeps ==
  ASSUME NEW c \in Clients, Fields, Chosen, Basics, WInv, PushPut(c)
  PROVE  WInv'
  <1>0. OnceOffered /\ OwnQueue /\ Spare /\ Awaits BY Zenon DEF WInv
  <1>1. /\ cpc[c] = "put" /\ given' = given + 1 /\ Move(c, "idle", NoReg)
        /\ UNCHANGED <<idlings, wpc, finished, awaited>>
        /\ content' = [content EXCEPT ![reg[c].queue] = Append(@, given + 1)]
    BY Zenon DEF PushPut, Go, Set, Move
  <1>2. PICK at \in Ids : Holding(c) /\ reg[c].where = at /\ reg[c].queue = at + 1
    BY <1>0, <1>1 DEF Holding, Chosen, OwnQueue
  <1>3. ASSUME NEW w \in Ids, w # at PROVE content'[w + 1] = content[w + 1]
    <2>1. w + 1 \in Pooled /\ w + 1 # at + 1 /\ content \in [Pooled -> Seq(Nat)]
      <3>1. w + 1 # at + 1 BY <1>2, <1>3 DEF Ids
      <3> QED BY <3>1, FirstPooled, Zenon DEF Fields
    <2> QED BY <1>1, <1>2, <2>1, Zenon
  <1>4. "idle" \notin {"read", "put"} /\ "idle" # "put" /\ "idle" # "waited" OBVIOUS
  <1>5. OnceOffered' /\ \A w \in Ids : Offered(w)' => Offered(w)
    BY <1>0, <1>1, <1>4, OffersStep, Zenon
  <1>6. /\ cpc'[c] = "idle"
        /\ \A d \in Clients : d # c => cpc'[d] = cpc[d] /\ reg'[d] = reg[d]
    BY <1>1, MoveOne, Zenon
  <1>7. ~Holding(c)' BY <1>4, <1>6, Zenon DEF Holding
  <1>8. \A d \in Clients : Holding(d)' => d # c /\ Holding(d) /\ reg'[d].where = reg[d].where
    BY <1>6, <1>7, Zenon DEF Holding
  <1>9. ~Offered(at)'
    <2>1. at \notin Elements(idlings') BY <1>0, <1>1, <1>2, Zenon DEF OnceOffered
    <2>2. ASSUME NEW d \in Clients, Holding(d)', reg'[d].where = at PROVE FALSE
      BY <1>0, <1>2, <1>8, <2>2, Zenon DEF OnceOffered
    <2> QED BY <2>1, <2>2, Zenon DEF Offered
  <1>10. wpc[at + 1] # "list"
    <2>1. Offered(at) BY <1>2, Zenon DEF Offered
    <2>2. wpc[at + 1] \in {"get", "done"} BY <1>0, <1>2, <2>1, Zenon DEF Spare
    <2> QED BY <2>2
  <1>11. Spare'
    <2> SUFFICES ASSUME NEW w \in Ids
                 PROVE  /\ Offered(w)' => wpc'[w + 1] \in {"get", "done"} /\ Free(w + 1)'
                        /\ wpc'[w + 1] = "list" => Free(w + 1)'
      BY Zenon DEF Spare
    <2>1. CASE w = at BY <1>1, <1>9, <1>10, <2>1, Zenon
    <2>2. CASE w # at
      <3>1. Free(w + 1)' <=> Free(w + 1) BY <1>3, <2>2, FreeFrame, Zenon
      <3> QED BY <1>0, <1>1, <1>5, <3>1, Zenon DEF Spare
    <2> QED BY <2>1, <2>2
  <1>12. OwnQueue' BY <1>0, <1>1, <1>4, OwnStep, Zenon
  <1>13. Awaits' BY <1>0, <1>1, <1>4, AwaitsStep, Zenon
  <1> QED BY <1>5, <1>11, <1>12, <1>13, Zenon DEF WInv

\* The #f goes into a queue, which is no task.
LEMMA StopKeeps ==
  ASSUME NEW c \in Clients, Fields, Basics, WInv, ReleaseStop(c)
  PROVE  WInv'
  <1>1. cpc[c] = "stop" /\ UNCHANGED <<idlings, wpc, given, finished, awaited>>
    BY Zenon DEF ReleaseStop, history
  <1>2. reg = [reg EXCEPT ![c] = reg[c]] /\ cpc = [cpc EXCEPT ![c] = cpc[c]]
    BY OwnRegs, Zenon
  <1>3. PICK place \in {"join", "kill", "stop"} : \E r : Move(c, place, r)
    BY <1>1, <1>2, Zenon DEF ReleaseStop, Go, Set, Move
  <1>4. place \notin {"read", "put"} /\ place # "put" /\ place # "waited" OBVIOUS
  <1>5. ASSUME NEW k \in Pooled, Free(k) PROVE Free(k)'
    <2>1. content \in [Pooled -> Seq(Nat)] BY Zenon DEF Fields
    <2>2. content'[k] = content[k] \/ content'[k] = Append(content[k], Stop)
      BY <2>1, Zenon DEF ReleaseStop
    <2>3. Stop \in Nat /\ content[k] \in Seq(Nat) BY <2>1 DEF Stop
    <2>4. Elements(Append(content[k], Stop)) = Elements(content[k]) \cup {Stop}
      BY <2>3, ElementsAppend
    <2>5. Elements(content'[k]) \subseteq Elements(content[k]) \cup {Stop} BY <2>2, <2>4, Zenon
    <2> QED BY <1>5, <2>5, Zenon DEF Free, TasksIn
  <1>6. \A w \in Ids : Free(w + 1) => Free(w + 1)' BY <1>5, FirstPooled, Zenon
  <1> QED BY <1>1, <1>3, <1>4, <1>6, ApartKeeps, Zenon

\* Every thread that is joined, or found by thread-terminate!, had ended.
LEMMA EachKeeps ==
  ASSUME NEW c \in Clients, Fields, Basics, Original, WInv, Whole', ReleaseEach(c)
  PROVE  WInv'
  <1>1. cpc[c] \in {"join", "kill"} /\ UNCHANGED <<idlings, content, given, finished, awaited>>
    BY Zenon DEF ReleaseEach
  <1>2. reg[c] \in Regs /\ reg = [reg EXCEPT ![c] = reg[c]] /\ cpc = [cpc EXCEPT ![c] = cpc[c]]
    BY OwnRegs, Zenon
  <1>3. PICK place \in {"join", "kill", "released"} : \E r : Move(c, place, r)
    BY <1>1, <1>2, Zenon DEF ReleaseEach, Go, Set, Move
  <1>4. place \notin {"read", "put"} /\ place # "put" /\ place # "waited" OBVIOUS
  <1>5. \A w \in Ids : Free(w + 1) => Free(w + 1)' BY <1>1, FreeFrame, Zenon
  <1>6. UNCHANGED wpc
    <2>1. CASE UNCHANGED wpc BY <2>1
    <2>2. CASE reg[c].i < N /\ Kill(threads[reg[c].i])
      <3>1. reg[c].i \in 0..N BY <1>2 DEF Regs
      <3>2. reg[c].i \in Ids BY <2>2, <3>1, SizeAssumption DEF Ids
      <3>3. PICK k \in Pooled : Kill(k) BY <2>2, <3>2, Zenon DEF Fields
      <3>4. wpc \in [Pooled -> WorkerPlaces] BY Zenon DEF Fields
      <3>5. wpc'[k] # "killed" BY Zenon DEF Whole
      <3>6. wpc'[k] = IF wpc[k] = "done" THEN "done" ELSE "killed" BY <3>3, <3>4, Zenon DEF Kill
      <3>7. wpc[k] = "done" BY <3>5, <3>6, Zenon
      <3> QED BY <3>3, <3>4, <3>7, Zenon DEF Kill
    <2> QED BY <2>1, <2>2, Zenon DEF ReleaseEach
  <1> QED BY <1>1, <1>3, <1>4, <1>5, <1>6, ApartKeeps, Zenon

\* thread-pool-wait-all! returns: every id is in idlings, so no thread has a task, and
\* all the tasks there were are finished.
LEMMA ThreadsKeeps ==
  ASSUME NEW c \in Clients, Fields, Basics, Accounted, WInv, WaitThreads(c)
  PROVE  WInv'
  <1>0. OnceOffered /\ Spare /\ Awaits /\ given \in Nat BY Zenon DEF WInv, Fields
  <1>1. /\ Len(idlings) = N /\ Go(c, "waited")
        /\ UNCHANGED <<idlings, content, wpc, reg, given, finished, awaited>>
    BY Zenon DEF WaitThreads, workers, history
  <1>2. \A w \in Ids : w \in Elements(idlings)
    BY <1>0, <1>1, AllListed, Zenon DEF Fields, OnceOffered
  <1>3. \A w \in Ids : wpc[w + 1] \in {"get", "done"} /\ Free(w + 1)
    BY <1>0, <1>2, Zenon DEF Spare, Offered
  <1>4. \A k \in 1..N : wpc[k] \in {"get", "done"} /\ Free(k)
    <2>1. \A k \in 1..N : k - 1 \in Ids /\ (k - 1) + 1 = k BY SizeAssumption DEF Ids
    <2> QED BY <1>3, <2>1
  <1>5. ASSUME NEW t \in 1..given PROVE t \in finished
    <2>1. t # 0 /\ t # Stop BY DEF Stop
    <2>2. ASSUME NEW k \in 1..N, Holds(k, t) PROVE FALSE
      <3>1. wpc[k] # "run" BY <1>4
      <3>2. running[k] = 0 BY <3>1, FirstPooled, Zenon DEF Basics, Busy
      <3>3. t \in TasksIn(k) BY <2>1, <2>2, <3>2, Zenon DEF Holds, TasksIn
      <3> QED BY <1>4, <3>3, Zenon DEF Free
    <2> QED BY <2>2, Zenon DEF Accounted
  <1>6. 1..awaited[c] \subseteq finished
    <2>1. awaited[c] \in 0..given BY <1>0, Zenon DEF Awaits
    <2>2. 1..awaited[c] \subseteq 1..given BY <1>0, <2>1
    <2> QED BY <1>5, <2>2, Zenon
  <1>7. Move(c, "waited", reg[c]) BY <1>1, OwnRegs, Zenon DEF Move, Go
  <1>8. "waited" \notin {"read", "put"} /\ "waited" # "put" OBVIOUS
  <1>9. \A w \in Ids : Free(w + 1) => Free(w + 1)' BY <1>1, FreeFrame, Zenon
  <1> QED BY <1>1, <1>6, <1>7, <1>8, <1>9, ApartKeeps, Zenon

\* The loop of a pooled thread: it is listed when it has no task, and once.
LEMMA WorkerKeeps ==
  ASSUME NEW k \in Pooled, Fields, Basics, Original, WInv, Worker(k)
  PROVE  WInv'
  <1>0. /\ OnceOffered /\ OwnQueue /\ Spare /\ Awaits /\ wpc \in [Pooled -> WorkerPlaces]
        /\ content \in [Pooled -> Seq(Nat)] /\ idlings \in Seq(Ids)
    BY Zenon DEF WInv, Fields
  <1>1. UNCHANGED <<cpc, reg, given, awaited>> /\ finished \subseteq finished'
    BY Zenon DEF Worker, List, Get, Run, Check, history
  <1>2. OwnQueue' /\ Awaits' BY <1>0, <1>1, Zenon DEF OwnQueue, Awaits
  <1>3. \A d \in Clients : Holding(d)' <=> Holding(d) BY <1>1, Zenon DEF Holding
  <1>4. \A j \in Pooled : j # k => wpc'[j] = wpc[j] /\ content'[j] = content[j]
    BY <1>0, Zenon DEF Worker, List, Get, Run, Check, Work
  <1>5. \A w \in Ids : w + 1 \in Pooled BY FirstPooled, Zenon
  <1>6. ASSUME NEW w \in Ids, w + 1 # k, Offered(w)' => Offered(w)
        PROVE  /\ Offered(w)' => wpc'[w + 1] \in {"get", "done"} /\ Free(w + 1)'
               /\ wpc'[w + 1] = "list" => Free(w + 1)'
    <2>1. wpc'[w + 1] = wpc[w + 1] /\ (Free(w + 1)' <=> Free(w + 1))
      BY <1>4, <1>5, <1>6, FreeFrame, Zenon
    <2> QED BY <1>0, <1>6, <2>1, Zenon DEF Spare
  <1>7. CASE \E w \in Ids : List(k, w)
    <2> PICK v \in Ids : List(k, v) BY <1>7
    <2>1. /\ wpc[k] = "list" /\ idlings' = Append(idlings, v) /\ wpc'[k] = "get"
          /\ content' = content
      BY <1>0, Zenon DEF List, Work
    <2>2. k = v + 1 BY Zenon DEF List, Original
    <2>3. ~Offered(v)
      <3>1. "list" \notin {"get", "done"} OBVIOUS
      <3> QED BY <1>0, <2>1, <2>2, <3>1, Zenon DEF Spare
    <2>4. v \notin Elements(idlings) /\ \A d \in Clients : Holding(d) => reg[d].where # v
      BY <2>3, Zenon DEF Offered
    <2>5. Elements(idlings') = Elements(idlings) \cup {v}
      <3>1. Elements(Append(idlings, v)) = Elements(idlings) \cup {v} BY <1>0, ElementsAppend
      <3> QED BY <2>1, <3>1, Zenon
    <2>6. Single(idlings')
      <3>1. Single(Append(idlings, v)) BY <1>0, <2>4, SingleAppend, Zenon DEF OnceOffered
      <3> QED BY <2>1, <3>1, Zenon
    <2>7. OnceOffered' BY <1>0, <1>1, <1>3, <2>4, <2>5, <2>6, Zenon DEF OnceOffered
    <2>8. \A w \in Ids : w # v /\ Offered(w)' => Offered(w) BY <1>1, <1>3, <2>5, Zenon DEF Offered
    <2>9. Free(v + 1)'
      <3>1. Free(v + 1) BY <1>0, <2>1, <2>2, Zenon DEF Spare
      <3> QED BY <2>1, <3>1, FreeFrame, Zenon
    <2>10. ASSUME NEW w \in Ids
           PROVE  /\ Offered(w)' => wpc'[w + 1] \in {"get", "done"} /\ Free(w + 1)'
                  /\ wpc'[w + 1] = "list" => Free(w + 1)'
      <3>1. CASE w = v BY <2>1, <2>2, <2>9, <3>1, Zenon
      <3>2. CASE w # v
        <4>1. w + 1 # k BY <2>2, <3>2 DEF Ids
        <4> QED BY <1>6, <2>8, <3>2, <4>1, Zenon
      <3> QED BY <3>1, <3>2
    <2>11. Spare' BY <2>10, Zenon DEF Spare
    <2> QED BY <1>2, <2>7, <2>11, Zenon DEF WInv
  <1>8. CASE Get(k) \/ Run(k) \/ Check(k)
    <2>1. UNCHANGED idlings BY <1>8, Zenon DEF Get, Run, Check
    <2>2. OnceOffered' BY <1>0, <1>1, <1>3, <2>1, Zenon DEF OnceOffered
    <2>3. \A w \in Ids : Offered(w)' <=> Offered(w) BY <1>1, <1>3, <2>1, Zenon DEF Offered
    <2>4. ASSUME NEW v \in Ids, v + 1 = k
          PROVE  /\ Offered(v) => wpc'[k] \in {"get", "done"} /\ Free(k)'
                 /\ wpc'[k] = "list" => Free(k)'
      <3>1. CASE Get(k)
        <4>1. /\ content[k] \in Seq(Nat) /\ content[k] # <<>> /\ content'[k] = Tail(content[k])
              /\ \/ Head(content[k]) = Stop /\ wpc'[k] = "done"
                 \/ Head(content[k]) # Stop /\ wpc'[k] = "run"
          BY <1>0, <3>1 DEF Get, Work
        <4>2. Elements(content'[k]) \subseteq Elements(content[k]) /\ Head(content[k]) \in Elements(content[k])
          BY <4>1, ElementsOfTail, Zenon
        <4>3. "run" # "list" /\ "done" # "list" OBVIOUS
        <4>4. ASSUME Offered(v) PROVE wpc'[k] \in {"get", "done"} /\ Free(k)'
          <5>1. Free(k) BY <1>0, <2>4, <4>4, Zenon DEF Spare
          <5>2. Elements(content[k]) \subseteq {Stop} BY <5>1, Zenon DEF Free, TasksIn
          <5>3. Free(k)' BY <4>2, <5>2, Zenon DEF Free, TasksIn
          <5> QED BY <4>1, <4>2, <5>2, <5>3, Zenon
        <4> QED BY <4>1, <4>3, <4>4, Zenon
      <3>2. CASE Run(k) \/ Check(k)
        <4>1. wpc[k] \in {"run", "check"} /\ content' = content
          BY <3>2, Zenon DEF Run, Check
        <4>2. ~Offered(v)
          <5>1. wpc[k] \notin {"get", "done"} BY <4>1
          <5> QED BY <1>0, <2>4, <5>1, Zenon DEF Spare
        <4>3. wpc'[k] = "list" => content[k] = <<>>
          BY <1>0, <3>2 DEF Run, Check, Work
        <4>4. content[k] = <<>> => Free(k)'
          <5>1. Elements(<<>>) = {} BY DEF Elements
          <5> QED BY <4>1, <5>1, Zenon DEF Free, TasksIn
        <4> QED BY <4>2, <4>3, <4>4, Zenon
      <3> QED BY <1>8, <3>1, <3>2
    <2>5. ASSUME NEW w \in Ids
          PROVE  /\ Offered(w)' => wpc'[w + 1] \in {"get", "done"} /\ Free(w + 1)'
                 /\ wpc'[w + 1] = "list" => Free(w + 1)'
      <3>1. CASE w + 1 = k BY <2>3, <2>4, <3>1, Zenon
      <3>2. CASE w + 1 # k BY <1>6, <2>3, <3>2, Zenon
      <3> QED BY <3>1, <3>2
    <2>6. Spare' BY <2>5, Zenon DEF Spare
    <2> QED BY <1>2, <2>2, <2>6, Zenon DEF WInv
  <1> QED BY <1>7, <1>8, Zenon DEF Worker

\* The counting stays enough in every step of a pool whose threads are left alone.
LEMMA WaitStep ==
  ASSUME IInv, RInv, Smooth, Smooth', Whole, Whole', WInv, [Next]_vars
  PROVE  WInv'
  <1>0. Fields /\ Chosen /\ Basics BY Zenon DEF IInv, RInv, Basics
  <1>2. Original /\ Accounted BY Zenon DEF RInv, RunsAll
  <1>3. CASE UNCHANGED vars
    <2>1. UNCHANGED <<idlings, content, wpc, given, finished, awaited, cpc, reg>>
      BY <1>3, Zenon DEF vars, workers, history
    <2>2. OnceOffered => OnceOffered' BY <2>1, Zenon DEF OnceOffered, Holding
    <2>3. OwnQueue => OwnQueue' BY <2>1, Zenon DEF OwnQueue
    <2>4. Awaits => Awaits' BY <2>1, Zenon DEF Awaits
    <2>5. Spare => Spare' BY <2>1, Zenon DEF Spare, Offered, Holding, Free, TasksIn
    <2> QED BY <2>2, <2>3, <2>4, <2>5, Zenon DEF WInv
  <1>4. CASE Next
    <2>1. (\E k \in Pooled : Worker(k)) \/ \E c \in Clients : PoolStep(c)
      BY <1>0, <1>4, WholeStep, Zenon
    <2>2. CASE \E k \in Pooled : Worker(k) BY <1>0, <1>2, <2>2, WorkerKeeps, Zenon
    <2>3. ASSUME NEW c \in Clients, PoolStep(c) PROVE WInv'
      <3>1. CASE Push(c) \/ WaitAll(c) \/ WaitQueue(c) \/ Waited(c) \/ Release(c)
        BY <1>0, <3>1, ApartSteps, Zenon
      <3>2. CASE PushGet(c) BY <1>0, <3>2, TakeKeeps, Zenon
      <3>3. CASE PushFind(c) BY <3>3, Zenon DEF PushFind, Smooth
      <3>4. CASE PushRead(c) BY <1>0, <1>2, <3>4, ReadKeeps, Zenon
      <3>5. CASE PushPut(c) BY <1>0, <3>5, PutKeeps, Zenon
      <3>6. CASE WaitThreads(c) BY <1>0, <1>2, <3>6, ThreadsKeeps, Zenon
      <3>7. CASE ReleaseStop(c) BY <1>0, <3>7, StopKeeps, Zenon
      <3>8. CASE ReleaseEach(c) BY <1>0, <1>2, <3>8, EachKeeps, Zenon
      <3> QED BY <2>3, <3>1, <3>2, <3>3, <3>4, <3>5, <3>6, <3>7, <3>8, Zenon DEF PoolStep
    <2> QED BY <2>1, <2>2, <2>3, Zenon
  <1> QED BY <1>3, <1>4

\* A new pool offers every id once, and has no task.
LEMMA InitWaits == Init => WInv
  <1> SUFFICES ASSUME Init PROVE WInv
    OBVIOUS
  <1>1. \A c \in Clients : cpc[c] = "idle" /\ ~Holding(c) BY DEF Init, Holding
  <1>2. OnceOffered
    <2>1. Single(idlings) BY AllOnce, Zenon DEF Init
    <2> QED BY <1>1, <2>1, Zenon DEF OnceOffered
  <1>3. OwnQueue BY <1>1 DEF OwnQueue
  <1>4. \A k \in 1..N : wpc[k] = "get" /\ content[k] = <<>>
    <2>1. \A k \in 1..N : k \in Pooled /\ k <= N BY FirstPooled, SizeAssumption
    <2> QED BY <2>1, Zenon DEF Init
  <1>5. Spare
    <2>1. Elements(<<>>) = {} BY DEF Elements
    <2>2. \A k \in 1..N : Free(k) BY <1>4, <2>1, Zenon DEF Free, TasksIn
    <2> QED BY <1>4, <2>2, FirstPooled, Zenon DEF Spare
  <1>6. Awaits
    <2>1. given = 0 /\ \A c \in Clients : awaited[c] = 0 BY Zenon DEF Init
    <2>2. 0 \in 0..0 OBVIOUS
    <2>3. "idle" # "waited" OBVIOUS
    <2> QED BY <1>1, <2>1, <2>2, <2>3, Zenon DEF Awaits
  <1> QED BY <1>2, <1>3, <1>5, <1>6, Zenon DEF WInv

\* When thread-pool-wait-all! returns, the tasks pushed before it are finished, for any
\* number of threads, clients and tasks, in every behaviour in which each push finds an
\* idling thread and no thread is replaced or terminated.
THEOREM WaitsForAll == Spec => WaitAllWaitsWhileIdling
  <1>1. IInv /\ RInv /\ [Next]_vars => RInv' BY RunsStep
  <1>2. IInv /\ RInv /\ Smooth => Whole BY WholePool DEF Smooth
  <1>3. IInv /\ RInv /\ Smooth /\ Smooth' /\ Whole /\ Whole' /\ WInv /\ [Next]_vars => WInv'
    BY WaitStep
  <1>4. WInv => WaitAllWaits BY Zenon DEF WInv, Awaits, WaitAllWaits
  <1>5. (NoneTerminated /\ \A c \in Clients : cpc[c] # "find") => Smooth BY DEF Smooth
  <1> QED BY <1>1, <1>2, <1>3, <1>4, <1>5, InitRuns, InitWaits, Inductive, PTL
      DEF Spec, WaitAllWaitsWhileIdling
=============================================================================
