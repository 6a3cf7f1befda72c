---------------------------- MODULE ExecutorProofs ----------------------------
(***************************************************************************)
(* Theorems about Executor, for any futures, clients, number of threads,   *)
(* reject handlers and retries: the inductive invariant, the steps, those  *)
(* that take a future out of the list of the executor, and what the        *)
(* invariant comes to.                                                     *)
(***************************************************************************)
EXTENDS Executor, InductionLemmas, TLAPS

(***************************************************************************)
(* The inductive invariant.                                                *)
(***************************************************************************)
Elements(s) == {s[i] : i \in 1..Len(s)}

ClientPlaces == {"idle", "answered", "cancelled"} \cup GetPlaces \cup CancelPlaces \cup ExecutePlaces

Entries == [id : Ids, f : Futures]

Registers ==
  [f : Futures \cup {NoThread}, value : Values \cup {Empty, "timeout", "terminated", "not-started"},
   how : {"", "raise", "return"}, late : BOOLEAN, count : Nat, id : Ids,
   old : Futures \cup {NoThread}, todo : Seq(Futures)]

Fields ==
  /\ state \in [Futures -> {"created", "finished", "done", "terminated"}]
  /\ result \in [Futures -> {"not-started", "box", "timeout"} \cup Values]
  /\ canceller \in [Futures -> {"none", "flag", "procedure"}]
  /\ box \in [Futures -> Values \cup {Empty}]
  /\ tpc \in [Futures -> {"none", "start", "run", "flag", "clean", "put", "over", "killed"}]
  /\ tval \in [Futures -> Values \cup {Empty}]
  /\ work \in [Ids -> Seq(Futures)]
  /\ ids \in Seq(Entries)
  /\ estate \in {"running", "shutdown"} /\ handler \in Handlers
  /\ cpc \in [Clients -> ClientPlaces]
  /\ reg \in [Clients -> Registers]
  /\ \A c \in Clients : cpc[c] # "idle" => reg[c].f \in Futures

\* Who is in the executor's mutex between two steps is adding a future.
Locked ==
  /\ lock \in Clients \cup {NoThread}
  /\ \A c \in Clients : cpc[c] = "added" <=> lock = c

\* Where the reject handlers lead.
Handled ==
  /\ Forks => estate = "running"
  /\ \A c \in Clients :
       /\ cpc[c] \in ExecutePlaces => ~Forks
       /\ cpc[c] = "push" => handler = "push"
       /\ cpc[c] \in {"oldest", "kill", "oldclean"} => handler = "terminate"

InHands(f) == \E id \in Ids : f \in Elements(work[id])

\* A future is executed once, and by one client; its task is in the hands of a thread.
Owned ==
  /\ \A c \in Clients : cpc[c] \in ExecutePlaces \ {"added"} => tpc[reg[c].f] = "none"
  /\ \A c, d \in Clients : c # d /\ cpc[c] \in ExecutePlaces /\ cpc[d] \in ExecutePlaces
                             => reg[c].f # reg[d].f
  /\ \A id \in Ids : \A f \in Elements(work[id]) : tpc[f] # "none"
  /\ ~Forks => \A f \in Futures : tpc[f] \in {"start", "run", "flag", "clean", "put"} => InHands(f)

\* A future is listed, or about to be, before its cleanup.
Listing ==
  /\ Forks => Listed = {}
  /\ \A f \in Listed : tpc[f] \in {"start", "run", "flag", "clean", "killed"}
  /\ handler # "push" => Len(ids) <= N
  /\ \A c \in Clients : cpc[c] = "added" =>
       /\ tpc[reg[c].f] \in {"start", "run", "flag", "clean"}
       /\ handler # "push" => Len(ids) < N

Base == Fields /\ Locked /\ Handled /\ Owned /\ Listing

(***************************************************************************)
(* What a shutdown has to know.                                            *)
(***************************************************************************)
\* A task with its cleanup to do is listed or about to be, unless its future is cancelled.
Known ==
  ~Forks /\ handler # "terminate" =>
    \A f \in Futures : tpc[f] \in {"start", "run", "flag", "clean"} /\ state[f] = "created" =>
      f \in Listed \/ \E c \in Clients : cpc[c] = "added" /\ reg[c].f = f

\* shutdown-executor! has still to cancel f.
ToCancel(c, f) ==
  \/ cpc[c] = "cset" /\ reg[c].f = f
  \/ cpc[c] \in CancelPlaces /\ f \in Elements(reg[c].todo)

Doomed ==
  /\ \A f \in Futures : tpc[f] \in {"put", "over"} => state[f] # "created"
  /\ handler # "terminate" =>
       \A f \in Futures : tpc[f] = "killed" /\ state[f] = "created" => \E c \in Clients : ToCancel(c, f)

Survivors == Known /\ Doomed

(***************************************************************************)
(* What the box, the result and the canceller of a future tell.            *)
(***************************************************************************)
Flags(f) ==
  /\ tpc[f] = "flag" => tval[f] = "error"
  /\ tpc[f] \in {"clean", "put", "over"} => tval[f] \in Values
  /\ canceller[f] = "flag" => tval[f] = "error" /\ tpc[f] \notin {"none", "start", "run"}
  /\ Forks => /\ canceller[f] # "procedure" /\ tpc[f] # "killed"
              /\ tpc[f] \in {"clean", "put", "over"} /\ tval[f] = "error" => canceller[f] = "flag"

Flagged == \A f \in Futures : Flags(f)

\* v is what the thunk of f came to, for good.
Settled(f, v) == v \in Values /\ v = tval[f] /\ tpc[f] \in {"over", "killed"}

Outcome(f, v) == Settled(f, v) \/ (v = "timeout" /\ handler \in Timed)

Boxes == \A f \in Futures : box[f] # Empty => Settled(f, box[f])

Results ==
  \A f \in Futures :
    /\ result[f] \notin {"not-started", "box"} => Outcome(f, result[f])
    /\ state[f] = "done" => result[f] \notin {"not-started", "box"}
    /\ tpc[f] = "none" => \/ result[f] = "not-started"
                          \/ /\ estate # "running"
                             /\ \A c \in Clients : cpc[c] = "push" => reg[c].f # f

\* What a client inside future-get or future-cancel has read.
Got(c) ==
  /\ cpc[c] \in {"cclean", "cclear"} => ~Forks
  /\ cpc[c] \in {"box", "boxwait", "store"} => result[reg[c].f] # "not-started"
  /\ cpc[c] \in {"store", "flag"} => Outcome(reg[c].f, reg[c].value)
  /\ cpc[c] = "reread" => result[reg[c].f] \notin {"not-started", "box"}
  /\ cpc[c] = "answered" =>
       \/ reg[c].how = "raise" /\ reg[c].value \in {"terminated", "not-started"}
       \/ handler \in Timed /\ reg[c].value = "timeout"
       \/ /\ Settled(reg[c].f, reg[c].value)
          /\ reg[c].how = "raise" => reg[c].value = "error"
          /\ Forks /\ reg[c].value = "error" => reg[c].how = "raise"

Gets == \A c \in Clients : Got(c)

Outcomes == Flagged /\ Boxes /\ Results /\ Gets

(***************************************************************************)
(* The list of the executor and other sequences.                           *)
(***************************************************************************)
LEMMA ElementsAppend ==
  ASSUME NEW S, NEW s \in Seq(S), NEW e \in S
  PROVE  Elements(Append(s, e)) = Elements(s) \cup {e}
<1>1. /\ Len(s) \in Nat /\ Len(Append(s, e)) = Len(s) + 1 /\ Append(s, e)[Len(s) + 1] = e
      /\ \A i \in 1..Len(s) : Append(s, e)[i] = s[i]
  OBVIOUS
<1>2. \A i : i \in 1..(Len(s) + 1) <=> i \in 1..Len(s) \/ i = Len(s) + 1
  BY <1>1
<1>3. ASSUME NEW x PROVE x \in Elements(Append(s, e)) <=> x \in Elements(s) \/ x = e
  BY <1>1, <1>2, Zenon DEF Elements
<1> QED
  BY <1>3, Zenon

LEMMA ElementsTail ==
  ASSUME NEW S, NEW s \in Seq(S), s # <<>>
  PROVE  /\ Head(s) \in S /\ Tail(s) \in Seq(S) /\ Len(Tail(s)) = Len(s) - 1 /\ Len(s) \in Nat \ {0}
         /\ Elements(s) = {Head(s)} \cup Elements(Tail(s))
<1>1. /\ Head(s) \in S /\ Tail(s) \in Seq(S) /\ Len(Tail(s)) = Len(s) - 1 /\ Len(s) \in Nat \ {0}
      /\ \A i \in 1..Len(Tail(s)) : Tail(s)[i] = s[i + 1]
      /\ Head(s) = s[1]
  OBVIOUS
<1>2. ASSUME NEW x PROVE x \in Elements(s) <=> x = Head(s) \/ x \in Elements(Tail(s))
  <2>1. ASSUME x \in Elements(s) PROVE x = Head(s) \/ x \in Elements(Tail(s))
    <3>1. PICK i \in 1..Len(s) : x = s[i]
      BY <2>1 DEF Elements
    <3>2. i # 1 => i - 1 \in 1..Len(Tail(s)) /\ (i - 1) + 1 = i
      BY <1>1
    <3>3. i # 1 => x = Tail(s)[i - 1]
      BY <1>1, <3>1, <3>2
    <3> QED
      BY <1>1, <3>1, <3>2, <3>3, Zenon DEF Elements
  <2>2. ASSUME x \in Elements(Tail(s)) PROVE x \in Elements(s)
    <3>1. PICK i \in 1..Len(Tail(s)) : x = Tail(s)[i]
      BY <2>2 DEF Elements
    <3>2. i + 1 \in 1..Len(s) /\ x = s[i + 1]
      BY <1>1, <3>1
    <3> QED
      BY <3>2, Zenon DEF Elements
  <2>3. Head(s) \in Elements(s)
    <3>1. 1 \in 1..Len(s)
      BY <1>1
    <3> QED
      BY <1>1, <3>1, Zenon DEF Elements
  <2> QED
    BY <2>1, <2>2, <2>3, Zenon
<1> QED
  BY <1>1, <1>2, Zenon

LEMMA SeqLength == ASSUME NEW S, NEW s \in Seq(S) PROVE Len(s) \in Nat
OBVIOUS

LEMMA ElementsIn == ASSUME NEW S, NEW s \in Seq(S), NEW x \in Elements(s) PROVE x \in S
BY DEF Elements

LEMMA StaysShort ==
  ASSUME NEW m \in Nat, NEW n \in Nat, m <= n
  PROVE  (n <= N => m <= N) /\ (n < N => m < N)
BY SizeAssumption

LEMMA ListedFutures ==
  /\ ids \in Seq(Entries) => Listed \subseteq Futures /\ Len(ids) \in Nat
  /\ ids' \in Seq(Entries) => Len(ids') \in Nat
<1>1. ASSUME ids \in Seq(Entries), NEW i \in 1..Len(ids) PROVE ids[i].f \in Futures
  <2>1. ids[i] \in Entries
    BY <1>1
  <2> QED
    BY <2>1 DEF Entries
<1> QED
  BY <1>1, SeqLength DEF Listed

LEMMA TailShrinks ==
  ASSUME ids \in Seq(Entries), ids # <<>>, ids' = Tail(ids)
  PROVE  /\ ids' \in Seq(Entries) /\ Len(ids') <= Len(ids) /\ Listed' \subseteq Listed
         /\ Head(ids) \in Entries /\ Listed = {Head(ids).f} \cup Listed'
<1>1. /\ ids' \in Seq(Entries) /\ Head(ids) \in Entries /\ Len(Tail(ids)) = Len(ids) - 1 /\ Len(ids) \in Nat
      /\ Elements(ids) = {Head(ids)} \cup Elements(ids')
  BY ElementsTail
<1>2. Listed = {e.f : e \in Elements(ids)} /\ Listed' = {e.f : e \in Elements(ids')}
  BY Zenon DEF Listed, Elements
<1>3. Listed = {Head(ids).f} \cup Listed'
  BY <1>1, <1>2, Zenon
<1> QED
  BY <1>1, <1>3

LEMMA AppendLists ==
  ASSUME ids \in Seq(Entries), NEW e \in Entries, ids' = Append(ids, e)
  PROVE  ids' \in Seq(Entries) /\ Len(ids') = Len(ids) + 1 /\ Listed' = Listed \cup {e.f}
<1>1. ids' \in Seq(Entries) /\ Len(ids') = Len(ids) + 1
  OBVIOUS
<1>2. Elements(ids') = Elements(ids) \cup {e}
  BY ElementsAppend
<1>3. Listed = {o.f : o \in Elements(ids)} /\ Listed' = {o.f : o \in Elements(ids')}
  BY Zenon DEF Listed, Elements
<1>4. Listed' = Listed \cup {e.f}
  BY <1>2, <1>3, Zenon
<1> QED
  BY <1>1, <1>4, Zenon

(***************************************************************************)
(* The variables of a client.                                              *)
(***************************************************************************)
LEMMA NoRegType == NoReg \in Registers
BY SizeAssumption DEF NoReg, Registers, Ids

\* Client c is at the place q with the variables r, and the others are where they were.
At(c, q, r) ==
  /\ cpc' \in [Clients -> ClientPlaces] /\ reg' \in [Clients -> Registers]
  /\ cpc'[c] = q /\ reg'[c] = r
  /\ \A d \in Clients \ {c} : cpc'[d] = cpc[d] /\ reg'[d] = reg[d]

LEMMA Arrives ==
  ASSUME Fields, NEW c \in Clients, NEW q \in ClientPlaces, NEW r \in Registers,
         Go(c, q), reg' = [reg EXCEPT ![c] = r]
  PROVE  At(c, q, r)
BY Zenon DEF Fields, Go, At

LEMMA ArrivesUnchanged ==
  ASSUME Fields, NEW c \in Clients, NEW q \in ClientPlaces, Go(c, q), reg' = reg
  PROVE  At(c, q, reg[c])
BY Zenon DEF Fields, Go, At

LEMMA Leaves == ASSUME Fields, NEW c \in Clients, Leave(c) PROVE At(c, "idle", NoReg)
<1>1. "idle" \in ClientPlaces
  BY DEF ClientPlaces
<1> QED
  BY <1>1, NoRegType, Arrives, Zenon DEF Leave

LEMMA Answers ==
  ASSUME Fields, NEW c \in Clients, NEW how \in {"raise", "return"},
         NEW what \in Values \cup {"timeout", "terminated", "not-started"}, Answer(c, how, what)
  PROVE  At(c, "answered", [reg[c] EXCEPT !.how = how, !.value = what])
<1>1. "answered" \in ClientPlaces /\ reg[c] \in Registers
  BY DEF ClientPlaces, Fields
<1>2. [reg[c] EXCEPT !.how = how, !.value = what] \in Registers
  BY <1>1 DEF Registers
<1>3. reg' = [reg EXCEPT ![c] = [reg[c] EXCEPT !.how = how, !.value = what]]
  BY Zenon DEF Answer, Fields
<1> QED
  BY <1>1, <1>2, <1>3, Arrives, Zenon DEF Answer

(***************************************************************************)
(* Who has the mutex, and which futures are listed.                        *)
(***************************************************************************)
LEMMA BaseInit == Init => Base
<1> SUFFICES ASSUME Init PROVE Base
  OBVIOUS
<1>1. Fields
  BY NoRegType DEF Init, Fields, ClientPlaces, Values
<1>2. Locked /\ Handled
  BY NoThreadAssumption DEF Init, Locked, Handled, ExecutePlaces
<1>3. Listed = {} /\ Len(ids) = 0 /\ \A id \in Ids : Elements(work[id]) = {}
  BY DEF Init, Listed, Elements
<1>4. Owned
  BY <1>3 DEF Init, Owned, ExecutePlaces, InHands
<1>5. Listing
  BY <1>3, SizeAssumption DEF Init, Listing
<1> QED
  BY <1>1, <1>2, <1>4, <1>5, Zenon DEF Base

\* The fields of the futures are set to what they may be.
FutureFields ==
  /\ state' \in [Futures -> {"created", "finished", "done", "terminated"}]
  /\ result' \in [Futures -> {"not-started", "box", "timeout"} \cup Values]
  /\ canceller' \in [Futures -> {"none", "flag", "procedure"}]
  /\ box' \in [Futures -> Values \cup {Empty}]
  /\ tval' \in [Futures -> Values \cup {Empty}]

\* No place in the list is taken.
Shrinks == ids' \in Seq(Entries) /\ Len(ids') <= Len(ids) /\ Listed' \subseteq Listed

\* Tasks are left alone or, outside the mutex, killed.
Spares ==
  /\ tpc' \in [Futures -> {"none", "start", "run", "flag", "clean", "put", "over", "killed"}]
  /\ work' \in [Ids -> Seq(Futures)]
  /\ \A id \in Ids : Elements(work'[id]) \subseteq Elements(work[id])
  /\ \A f \in Futures : \/ tpc'[f] = tpc[f]
                        \/ tpc[f] # "none" /\ tpc'[f] = "killed" /\ lock = NoThread
  /\ \A f \in Futures : InHands(f) => InHands(f)' \/ tpc'[f] = "killed"

\* Client c stays inside or outside an execution, or begins one.
Proceeds(c) ==
  /\ cpc' \in [Clients -> ClientPlaces] /\ reg' \in [Clients -> Registers]
  /\ \A d \in Clients \ {c} : cpc'[d] = cpc[d] /\ reg'[d] = reg[d]
  /\ cpc[c] # "added" /\ cpc'[c] # "added"
  /\ cpc'[c] # "idle" => reg'[c].f \in Futures
  /\ cpc'[c] \in ExecutePlaces =>
       \/ cpc[c] \in ExecutePlaces /\ reg'[c].f = reg[c].f
       \/ ~Forks /\ Unexecuted(reg'[c].f)
  /\ cpc'[c] = "push" => handler = "push"
  /\ cpc'[c] \in {"oldest", "kill", "oldclean"} => handler = "terminate"

LEMMA BaseProceeds ==
  ASSUME Base, NEW c \in Clients, Proceeds(c), FutureFields, Shrinks, Spares,
         estate' \in {"running", "shutdown"}, Forks => estate' = estate, UNCHANGED <<handler, lock>>
  PROVE  Base'
<1> USE DEF Forks
<1>1. Fields'
  <2>1. ASSUME NEW d \in Clients, cpc'[d] # "idle" PROVE reg'[d].f \in Futures
    BY <2>1, Zenon DEF Proceeds, Base, Fields
  <2>2. handler' \in Handlers
    BY Zenon DEF Base, Fields
  <2> QED
    BY <2>1, <2>2, Zenon DEF Fields, FutureFields, Shrinks, Spares, Proceeds
<1>2. Locked'
  <2>1. ASSUME NEW d \in Clients PROVE cpc'[d] = "added" <=> cpc[d] = "added"
    BY Zenon DEF Proceeds
  <2> QED
    BY <2>1, Zenon DEF Base, Locked
<1>3. Handled'
  <2>1. Forks => estate' = "running"
    BY Zenon DEF Base, Handled
  <2> SUFFICES ASSUME NEW d \in Clients
               PROVE  /\ cpc'[d] \in ExecutePlaces => ~Forks
                      /\ cpc'[d] = "push" => handler = "push"
                      /\ cpc'[d] \in {"oldest", "kill", "oldclean"} => handler = "terminate"
    BY <2>1, Zenon DEF Handled
  <2> QED
    BY Zenon DEF Base, Handled, Proceeds
<1>4. Owned'
  <2>0. ASSUME NEW e \in Clients \ {c}, cpc'[c] \in ExecutePlaces, cpc'[e] \in ExecutePlaces
        PROVE  reg'[c].f # reg'[e].f
    <3>1. cpc'[e] = cpc[e] /\ reg'[e] = reg[e]
      BY Zenon DEF Proceeds
    <3>2. CASE cpc[c] \in ExecutePlaces /\ reg'[c].f = reg[c].f
      BY <2>0, <3>1, <3>2, Zenon DEF Base, Owned
    <3>3. CASE Unexecuted(reg'[c].f)
      BY <2>0, <3>1, <3>3, Zenon DEF Unexecuted
    <3> QED
      BY <2>0, <3>2, <3>3, Zenon DEF Proceeds
  <2>1. ASSUME NEW d \in Clients, NEW e \in Clients, d # e, cpc'[d] \in ExecutePlaces, cpc'[e] \in ExecutePlaces
        PROVE  reg'[d].f # reg'[e].f
    <3>1. CASE d # c /\ e # c
      <4>1. cpc'[d] = cpc[d] /\ reg'[d] = reg[d] /\ cpc'[e] = cpc[e] /\ reg'[e] = reg[e]
        BY <3>1, Zenon DEF Proceeds
      <4> QED
        BY <2>1, <4>1, Zenon DEF Base, Owned
    <3>2. CASE d = c
      BY <2>0, <2>1, <3>2, Zenon
    <3>3. CASE e = c
      BY <2>0, <2>1, <3>3, Zenon
    <3> QED
      BY <3>1, <3>2, <3>3
  <2>2. ASSUME NEW d \in Clients, cpc'[d] \in ExecutePlaces \ {"added"} PROVE tpc'[reg'[d].f] = "none"
    <3>1. cpc'[d] # "idle"
      BY <2>2 DEF ExecutePlaces
    <3>2. reg'[d].f \in Futures
      BY <1>1, <3>1, Zenon DEF Fields
    <3>3. tpc[reg'[d].f] = "none"
      <4>1. CASE d # c
        BY <2>2, <4>1, Zenon DEF Proceeds, Base, Owned
      <4>2. CASE d = c /\ cpc[c] \in ExecutePlaces /\ reg'[c].f = reg[c].f
        <5>1. cpc[c] # "added"
          BY Zenon DEF Proceeds
        <5> QED
          BY <4>2, <5>1, Zenon DEF Base, Owned
      <4>3. CASE d = c /\ Unexecuted(reg'[c].f)
        BY <4>3, Zenon DEF Unexecuted
      <4> QED
        BY <2>2, <4>1, <4>2, <4>3, Zenon DEF Proceeds
    <3> QED
      BY <3>2, <3>3, Zenon DEF Spares
  <2>3. ASSUME NEW id \in Ids, NEW f \in Elements(work'[id]) PROVE tpc'[f] # "none"
    <3>1. f \in Elements(work[id])
      BY Zenon DEF Spares
    <3>2. f \in Futures /\ tpc[f] # "none"
      <4>1. work[id] \in Seq(Futures)
        BY Zenon DEF Base, Fields
      <4>2. f \in Futures
        BY <3>1, <4>1 DEF Elements
      <4> QED
        BY <3>1, <4>2, Zenon DEF Base, Owned
    <3> QED
      BY <3>2 DEF Spares
  <2>4. ASSUME ~Forks', NEW f \in Futures, tpc'[f] \in {"start", "run", "flag", "clean", "put"} PROVE InHands(f)'
    <3>1. tpc'[f] # "killed"
      BY <2>4
    <3>2. tpc'[f] = tpc[f]
      BY <3>1, Zenon DEF Spares
    <3>3. InHands(f)
      BY <2>4, <3>2, Zenon DEF Base, Owned
    <3> QED
      BY <3>1, <3>3, Zenon DEF Spares
  <2> QED
    BY <2>1, <2>2, <2>3, <2>4, Zenon DEF Owned
<1>5. Listing'
  <2>1. Listed \subseteq Futures /\ Len(ids) \in Nat /\ Len(ids') \in Nat
    BY ListedFutures, Zenon DEF Base, Fields, Shrinks
  <2>2. ASSUME NEW f \in Listed' PROVE tpc'[f] \in {"start", "run", "flag", "clean", "killed"}
    <3>1. f \in Listed /\ f \in Futures
      BY <2>1, Zenon DEF Shrinks
    <3> QED
      BY <3>1 DEF Base, Listing, Spares
  <2>3. handler' # "push" => Len(ids') <= N
    BY <2>1, SizeAssumption DEF Base, Listing, Shrinks
  <2>4. ASSUME NEW d \in Clients, cpc'[d] = "added"
        PROVE  /\ tpc'[reg'[d].f] \in {"start", "run", "flag", "clean"}
               /\ handler' # "push" => Len(ids') < N
    <3>1. d # c /\ cpc[d] = "added" /\ reg'[d] = reg[d]
      BY <2>4, Zenon DEF Proceeds
    <3>2. lock = d /\ lock # NoThread /\ reg[d].f \in Futures
      BY <3>1, NoThreadAssumption DEF Base, Locked, Fields
    <3>3. tpc'[reg[d].f] = tpc[reg[d].f]
      BY <3>2, Zenon DEF Spares
    <3>4. handler' # "push" => Len(ids') < N
      BY <2>1, <3>1, SizeAssumption DEF Base, Listing, Shrinks
    <3> QED
      BY <3>1, <3>3, <3>4, Zenon DEF Base, Listing
  <2>5. Forks => Listed' = {}
    BY Zenon DEF Base, Listing, Shrinks
  <2> QED
    BY <2>2, <2>3, <2>4, <2>5, Zenon DEF Listing
<1> QED
  BY <1>1, <1>2, <1>3, <1>4, <1>5, Zenon DEF Base

\* A client outside an execution, and one inside.
LEMMA ProceedsOutside ==
  ASSUME NEW c \in Clients, NEW q, NEW r, At(c, q, r), cpc[c] # "added",
         q \notin ExecutePlaces, q # "idle" => r.f \in Futures
  PROVE  Proceeds(c)
<1>1. q \notin {"added", "push", "oldest", "kill", "oldclean"}
  BY DEF ExecutePlaces
<1> QED
  BY <1>1, Zenon DEF At, Proceeds

LEMMA ProceedsInside ==
  ASSUME Base, NEW c \in Clients, NEW q, NEW r, At(c, q, r), cpc[c] \in ExecutePlaces \ {"added"},
         q # "added", r.f = reg[c].f, q = "push" => handler = "push",
         q \in {"oldest", "kill", "oldclean"} => handler = "terminate"
  PROVE  Proceeds(c)
<1>1. reg[c].f \in Futures
  BY DEF Base, Fields, ExecutePlaces
<1> QED
  BY <1>1, Zenon DEF At, Proceeds

(***************************************************************************)
(* What becomes of the futures that a shutdown has to cancel.              *)
(***************************************************************************)
\* No future is created again, and none leaves the list that might be forgotten.
Remembers(c) ==
  /\ \A f \in Futures : state'[f] = "created" => state[f] = "created"
  /\ handler # "terminate" => \A f \in Listed : f \in Listed' \/ state'[f] # "created"
  /\ \A f \in Futures : state'[f] = "created" /\ ToCancel(c, f) => ToCancel(c, f)'

LEMMA ToCancelStays ==
  ASSUME NEW c \in Clients, NEW d \in Clients \ {c}, NEW f, Proceeds(c), ToCancel(d, f)
  PROVE  ToCancel(d, f)'
<1>1. cpc'[d] = cpc[d] /\ reg'[d] = reg[d]
  BY Zenon DEF Proceeds
<1> QED
  BY <1>1, Zenon DEF ToCancel

LEMMA SurvivorsProceed ==
  ASSUME Survivors, NEW c \in Clients, Proceeds(c), Remembers(c), UNCHANGED <<tpc, handler>>
  PROVE  Survivors'
<1>1. Known'
  <2> SUFFICES ASSUME ~Forks, handler # "terminate", NEW f \in Futures,
                      tpc[f] \in {"start", "run", "flag", "clean"}, state'[f] = "created"
               PROVE  f \in Listed' \/ \E d \in Clients : cpc'[d] = "added" /\ reg'[d].f = f
    BY Zenon DEF Known, Forks
  <2>1. f \in Listed \/ \E d \in Clients : cpc[d] = "added" /\ reg[d].f = f
    BY Zenon DEF Survivors, Known, Remembers
  <2>2. CASE f \in Listed
    BY <2>2, Zenon DEF Remembers
  <2>3. ASSUME NEW d \in Clients, cpc[d] = "added", reg[d].f = f PROVE cpc'[d] = "added" /\ reg'[d].f = f
    BY <2>3, Zenon DEF Proceeds
  <2> QED
    BY <2>1, <2>2, <2>3, Zenon
<1>2. Doomed'
  <2>1. ASSUME NEW f \in Futures, tpc'[f] \in {"put", "over"} PROVE state'[f] # "created"
    BY <2>1, Zenon DEF Survivors, Doomed, Remembers
  <2>2. ASSUME handler # "terminate", NEW f \in Futures, tpc'[f] = "killed", state'[f] = "created"
        PROVE  \E d \in Clients : ToCancel(d, f)'
    <3>1. PICK d \in Clients : ToCancel(d, f)
      BY <2>2, Zenon DEF Survivors, Doomed, Remembers
    <3>2. ToCancel(d, f)'
      BY <2>2, <3>1, ToCancelStays, Zenon DEF Remembers
    <3> QED
      BY <3>2, Zenon
  <2> QED
    BY <2>1, <2>2, Zenon DEF Doomed
<1> QED
  BY <1>1, <1>2, Zenon DEF Survivors

(***************************************************************************)
(* What the calls of future-get are told.                                  *)
(***************************************************************************)
\* What a thunk came to, and that there is a result, is for good.
Holds ==
  /\ \A f \in Futures : tpc[f] \in {"over", "killed"} => tval'[f] = tval[f] /\ tpc'[f] \in {"over", "killed"}
  /\ \A f \in Futures : /\ result[f] # "not-started" => result'[f] # "not-started"
                        /\ result[f] \notin {"not-started", "box"} => result'[f] \notin {"not-started", "box"}
  /\ handler' = handler

LEMMA GotStays ==
  ASSUME Base, Holds, NEW d \in Clients, cpc'[d] = cpc[d], reg'[d] = reg[d], Got(d)
  PROVE  Got(d)'
<1> SUFFICES ASSUME cpc[d] \in {"box", "boxwait", "store", "flag", "reread", "answered", "cclean", "cclear"}
             PROVE  Got(d)'
  BY Zenon DEF Got
<1>1. reg[d].f \in Futures
  BY DEF Base, Fields
<1>2. Settled(reg[d].f, reg[d].value) => Settled(reg[d].f, reg[d].value)'
  BY <1>1, Zenon DEF Holds, Settled
<1>3. Outcome(reg[d].f, reg[d].value) => Outcome(reg[d].f, reg[d].value)'
  BY <1>2, Zenon DEF Holds, Outcome
<1> QED
  BY <1>1, <1>2, <1>3, Zenon DEF Got, Holds, Forks

\* Client c makes nothing up.
Tells(c) ==
  /\ UNCHANGED <<tval, box, handler>>
  /\ \A f \in Futures : tpc'[f] = tpc[f] \/ (~Forks /\ tpc[f] # "none" /\ tpc'[f] = "killed")
  /\ \A f \in Futures : canceller'[f] = canceller[f] \/ (~Forks /\ canceller'[f] = "none")
  /\ \A f \in Futures : \/ result'[f] = result[f]
                        \/ result[f] # "not-started" /\ Outcome(f, result'[f])
                        \/ /\ result[f] = "not-started" /\ result'[f] = "box" /\ estate # "running"
                           /\ \A d \in Clients : cpc'[d] = "push" => reg'[d].f # f
  /\ \A f \in Futures : state'[f] = "done" => state[f] = "done" \/ result[f] \notin {"not-started", "box"}
  /\ estate' = estate \/ estate' = "shutdown"
  /\ cpc'[c] = "push" => estate = "running"
  /\ Got(c)'

LEMMA NotPlaceholders ==
  ASSUME NEW f, NEW v, Outcome(f, v) PROVE v \notin {"not-started", "box", Empty}
BY DEF Outcome, Settled, Values, Empty

LEMMA TellsHolds == ASSUME NEW c, Tells(c) PROVE Holds
<1>1. ASSUME NEW f \in Futures, tpc[f] \in {"over", "killed"}
      PROVE  tval'[f] = tval[f] /\ tpc'[f] \in {"over", "killed"}
  BY <1>1, Zenon DEF Tells
<1>2. ASSUME NEW f \in Futures
      PROVE  /\ result[f] # "not-started" => result'[f] # "not-started"
             /\ result[f] \notin {"not-started", "box"} => result'[f] \notin {"not-started", "box"}
  BY NotPlaceholders, Zenon DEF Tells
<1> QED
  BY <1>1, <1>2, Zenon DEF Holds, Tells

LEMMA OutcomesProceed ==
  ASSUME Base, Outcomes, NEW c \in Clients, Proceeds(c), Tells(c)
  PROVE  Outcomes'
<1>1. Holds
  BY TellsHolds, Zenon
<1>2. Flagged'
  <2> SUFFICES ASSUME NEW f \in Futures
               PROVE  /\ tpc'[f] = "flag" => tval[f] = "error"
                      /\ tpc'[f] \in {"clean", "put", "over"} => tval[f] \in Values
                      /\ canceller'[f] = "flag" => tval[f] = "error" /\ tpc'[f] \notin {"none", "start", "run"}
                      /\ Forks => /\ canceller'[f] # "procedure" /\ tpc'[f] # "killed"
                                  /\ tpc'[f] \in {"clean", "put", "over"} /\ tval[f] = "error"
                                       => canceller'[f] = "flag"
    BY Zenon DEF Flagged, Flags, Tells, Forks
  <2>1. Flagged
    BY Zenon DEF Outcomes
  <2>2. tpc'[f] = tpc[f] \/ (~Forks /\ tpc[f] # "none" /\ tpc'[f] = "killed")
    BY Zenon DEF Tells
  <2>3. canceller'[f] = canceller[f] \/ (~Forks /\ canceller'[f] = "none")
    BY Zenon DEF Tells
  <2> QED
    BY <2>1, <2>2, <2>3 DEF Flagged, Flags
<1>3. Boxes'
  <2> SUFFICES ASSUME NEW f \in Futures, box[f] # Empty PROVE Settled(f, box[f])'
    BY Zenon DEF Boxes, Tells
  <2>1. Settled(f, box[f]) /\ box' = box
    BY Zenon DEF Outcomes, Boxes, Tells
  <2> QED
    BY <1>1, <2>1, Zenon DEF Settled, Holds
<1>4. ASSUME NEW f \in Futures
      PROVE  /\ result'[f] \notin {"not-started", "box"} => Outcome(f, result[f])'
             /\ state'[f] = "done" => result'[f] \notin {"not-started", "box"}
             /\ tpc'[f] = "none" => \/ result'[f] = "not-started"
                                    \/ /\ estate' # "running"
                                       /\ \A d \in Clients : cpc'[d] = "push" => reg'[d].f # f
  <2>1. Results
    BY Zenon DEF Outcomes
  <2>2. result'[f] \notin {"not-started", "box"} => Outcome(f, result'[f])
    BY <2>1, Zenon DEF Results, Tells
  <2>3. result'[f] \notin {"not-started", "box"} => Outcome(f, result[f])'
    BY <1>1, <2>2, Zenon DEF Outcome, Settled, Holds
  <2>4. state'[f] = "done" => result'[f] \notin {"not-started", "box"}
    BY <1>1, <2>1, Zenon DEF Results, Tells, Holds
  <2>5. ASSUME tpc'[f] = "none", result'[f] # "not-started"
        PROVE  estate' # "running" /\ \A d \in Clients : cpc'[d] = "push" => reg'[d].f # f
    <3>1. tpc[f] = "none"
      <4>1. "none" # "killed"
        OBVIOUS
      <4> QED
        BY <2>5, <4>1, Zenon DEF Tells
    <3>2. estate # "running" => estate' # "running"
      <4>1. "shutdown" # "running"
        OBVIOUS
      <4> QED
        BY <4>1, Zenon DEF Tells
    <3>3. CASE result[f] = "not-started"
      BY <2>5, <3>2, <3>3, Zenon DEF Tells
    <3>4. CASE result[f] # "not-started"
      <4>1. estate # "running" /\ \A d \in Clients : cpc[d] = "push" => reg[d].f # f
        BY <2>1, <3>1, <3>4, Zenon DEF Results
      <4>2. cpc'[c] # "push" /\ \A d \in Clients \ {c} : cpc'[d] = cpc[d] /\ reg'[d] = reg[d]
        BY <4>1, Zenon DEF Tells, Proceeds
      <4>3. ASSUME NEW d \in Clients, cpc'[d] = "push" PROVE reg'[d].f # f
        BY <4>1, <4>2, <4>3, Zenon
      <4> QED
        BY <3>2, <4>1, <4>3, Zenon
    <3> QED
      BY <3>3, <3>4
  <2> QED
    BY <2>3, <2>4, <2>5, Zenon
<1>5. Gets'
  <2> SUFFICES ASSUME NEW d \in Clients PROVE Got(d)'
    BY Zenon DEF Gets
  <2>1. CASE d = c
    BY <2>1, Zenon DEF Tells
  <2>2. CASE d # c
    <3>1. cpc'[d] = cpc[d] /\ reg'[d] = reg[d] /\ Got(d)
      BY <2>2, Zenon DEF Proceeds, Outcomes, Gets
    <3> QED
      BY <1>1, <3>1, GotStays, Zenon
  <2> QED
    BY <2>1, <2>2
<1> QED
  BY <1>2, <1>3, <1>4, <1>5, Zenon DEF Outcomes, Results

(***************************************************************************)
(* The steps of the clients keep the invariant.                            *)
(***************************************************************************)
Inv == Base /\ Survivors /\ Outcomes

LEMMA FutureFieldsStay == ASSUME Base, UNCHANGED <<futures, tval>> PROVE FutureFields
BY Zenon DEF Base, Fields, FutureFields, futures

LEMMA ShrinksStay == ASSUME Base, UNCHANGED ids PROVE Shrinks
<1>1. ids \in Seq(Entries)
  BY Zenon DEF Base, Fields
<1>2. Len(ids) \in Nat
  BY <1>1, SeqLength, Zenon
<1>3. Len(ids) <= Len(ids)
  BY <1>2
<1> QED
  BY <1>1, <1>3, Zenon DEF Shrinks, Listed

LEMMA SparesStay == ASSUME Base, UNCHANGED <<tpc, work>> PROVE Spares
BY Zenon DEF Base, Fields, Spares, InHands

\* A step that leaves tasks, places and the executor's state alone.
LEMMA Keeps ==
  ASSUME Inv, NEW c \in Clients, Proceeds(c), FutureFields, Shrinks, Remembers(c), Tells(c),
         UNCHANGED <<tpc, work, estate, handler, lock>>
  PROVE  Inv'
<1>1. Base'
  <2>1. estate' \in {"running", "shutdown"}
    BY Zenon DEF Inv, Base, Fields
  <2> QED
    BY <2>1, BaseProceeds, SparesStay, Zenon DEF Inv
<1>2. Survivors'
  BY SurvivorsProceed, Zenon DEF Inv
<1>3. Outcomes'
  BY OutcomesProceed, Zenon DEF Inv
<1> QED
  BY <1>1, <1>2, <1>3, Zenon DEF Inv

\* A step of which only the client's variables tell.
LEMMA QuietKeeps ==
  ASSUME Inv, NEW c \in Clients, Proceeds(c), UNCHANGED <<futures, tasks, executor>>,
         cpc'[c] = "push" => estate = "running", Got(c)',
         \A f \in Futures : state[f] = "created" /\ ToCancel(c, f) => ToCancel(c, f)'
  PROVE  Inv'
<1> USE DEF futures, tasks, executor
<1>1. Base
  BY Zenon DEF Inv
<1>2. FutureFields /\ Shrinks
  BY <1>1, FutureFieldsStay, ShrinksStay, Zenon
<1>3. Remembers(c)
  BY Zenon DEF Remembers, Listed
<1>4. Tells(c)
  BY Zenon DEF Tells
<1> QED
  BY <1>2, <1>3, <1>4, Keeps, Zenon

LEMMA NotCancelling ==
  ASSUME NEW c, NEW f, cpc[c] \notin CancelPlaces PROVE ~ToCancel(c, f)
BY DEF ToCancel, CancelPlaces

LEMMA NotGetting ==
  ASSUME NEW c, cpc'[c] \notin {"box", "boxwait", "store", "flag", "reread", "answered", "cclean", "cclear"}
  PROVE  Got(c)'
BY DEF Got

\* Such a step outside an execution, and one inside.
LEMMA OutsideKeeps ==
  ASSUME Inv, NEW c \in Clients, NEW q, NEW r, At(c, q, r), cpc[c] \notin CancelPlaces \cup {"added"},
         q \notin ExecutePlaces, q # "idle" => r.f \in Futures,
         UNCHANGED <<futures, tasks, executor>>, Got(c)'
  PROVE  Inv'
<1>1. Proceeds(c)
  BY ProceedsOutside
<1>2. \A f \in Futures : ~ToCancel(c, f)
  BY NotCancelling
<1>3. cpc'[c] # "push"
  BY DEF At, ExecutePlaces
<1> QED
  BY <1>1, <1>2, <1>3, QuietKeeps, Zenon

LEMMA InsideKeeps ==
  ASSUME Inv, NEW c \in Clients, NEW q \in ExecutePlaces, NEW r, At(c, q, r),
         cpc[c] \in ExecutePlaces \ {"added"}, q # "added", r.f = reg[c].f,
         q = "push" => handler = "push" /\ estate = "running", q \in {"oldest", "kill", "oldclean"} => handler = "terminate",
         UNCHANGED <<futures, tasks, executor>>
  PROVE  Inv'
<1>1. Proceeds(c)
  BY ProceedsInside, Zenon DEF Inv
<1>2. \A f \in Futures : ~ToCancel(c, f)
  BY NotCancelling DEF ExecutePlaces, CancelPlaces
<1>3. cpc'[c] = q
  BY Zenon DEF At
<1>4. Got(c)'
  BY <1>3, NotGetting DEF ExecutePlaces
<1> QED
  BY <1>1, <1>2, <1>3, <1>4, QuietKeeps, Zenon

LEMMA LeaveKeeps ==
  ASSUME Inv, NEW c \in Clients, cpc[c] \notin CancelPlaces \cup {"added"}, Leave(c),
         UNCHANGED <<futures, tasks, executor>>
  PROVE  Inv'
<1>1. At(c, "idle", NoReg)
  BY Leaves, Zenon DEF Inv, Base
<1>2. Got(c)'
  BY <1>1, NotGetting DEF At
<1>3. "idle" \notin ExecutePlaces
  BY DEF ExecutePlaces
<1> QED
  BY <1>1, <1>2, <1>3, OutsideKeeps, Zenon

LEMMA ReturnKeeps == ASSUME Inv, NEW c \in Clients, Return(c) PROVE Inv'
<1>1. cpc[c] \notin CancelPlaces \cup {"added"}
  BY DEF Return, CancelPlaces
<1> QED
  BY <1>1, LeaveKeeps, Zenon DEF Return

LEMMA CallGetKeeps == ASSUME Inv, NEW c \in Clients, NEW f \in Futures, CallGet(c, f) PROVE Inv'
<1> DEFINE r == [NoReg EXCEPT !.f = f, !.late = cpc[c] = "cancelled"]
           a == [r EXCEPT !.how = "raise", !.value = "terminated"]
<1>0. Fields
  BY Zenon DEF Inv, Base
<1>1. cpc[c] \notin CancelPlaces \cup {"added"} /\ UNCHANGED <<futures, tasks, executor>>
  BY DEF CallGet, CancelPlaces
<1>2. r \in Registers /\ r.f = f /\ a \in Registers /\ a.f = f /\ a.how = "raise" /\ a.value = "terminated"
  BY NoRegType DEF Registers, NoReg
<1>3. {"answered", "result"} \subseteq ClientPlaces /\ {"answered", "result"} \cap ExecutePlaces = {}
  BY DEF ClientPlaces, GetPlaces, ExecutePlaces
<1>4. \/ Go(c, "answered") /\ reg' = [reg EXCEPT ![c] = a]
      \/ Go(c, "result") /\ reg' = [reg EXCEPT ![c] = r]
  BY Zenon DEF CallGet
<1> HIDE DEF r, a
<1>5. CASE Go(c, "answered") /\ reg' = [reg EXCEPT ![c] = a]
  <2>1. At(c, "answered", a)
    BY <1>0, <1>2, <1>3, <1>5, Arrives, Zenon
  <2>2. Got(c)'
    BY <1>2, <2>1 DEF At, Got
  <2> QED
    BY <1>1, <1>2, <1>3, <2>1, <2>2, OutsideKeeps, Zenon
<1>6. CASE Go(c, "result") /\ reg' = [reg EXCEPT ![c] = r]
  <2>1. At(c, "result", r)
    BY <1>0, <1>2, <1>3, <1>6, Arrives, Zenon
  <2>2. Got(c)'
    BY <2>1, NotGetting DEF At
  <2> QED
    BY <1>1, <1>2, <1>3, <2>1, <2>2, OutsideKeeps, Zenon
<1> QED
  BY <1>4, <1>5, <1>6

\* A client inside future-get has a future and is outside executions and cancellations.
LEMMA Getting ==
  ASSUME Base, NEW c \in Clients, cpc[c] \in GetPlaces
  PROVE  reg[c].f \in Futures /\ reg[c] \in Registers /\ cpc[c] \notin CancelPlaces \cup {"added"}
BY DEF Base, Fields, GetPlaces, CancelPlaces

LEMMA GetPlacesOutside == GetPlaces \subseteq ClientPlaces /\ GetPlaces \cap ExecutePlaces = {}
BY DEF ClientPlaces, GetPlaces, ExecutePlaces

\* A step from one place of future-get to another.
LEMMA GetOnKeeps ==
  ASSUME Inv, NEW c \in Clients, cpc[c] \in GetPlaces, NEW q \in GetPlaces, NEW r \in Registers,
         Go(c, q), reg' = [reg EXCEPT ![c] = r], r.f = reg[c].f, UNCHANGED <<futures, tasks, executor>>,
         At(c, q, r) => Got(c)'
  PROVE  Inv'
<1>1. Fields /\ Base
  BY Zenon DEF Inv, Base
<1>2. At(c, q, r)
  BY <1>1, GetPlacesOutside, Arrives, Zenon
<1> QED
  BY <1>1, <1>2, GetPlacesOutside, Getting, OutsideKeeps, Zenon

LEMMA SameRegister ==
  ASSUME Fields, NEW c \in Clients, reg' = reg PROVE reg' = [reg EXCEPT ![c] = reg[c]]
BY Zenon DEF Fields

LEMMA AnswerKeeps ==
  ASSUME Inv, NEW c \in Clients, cpc[c] \in GetPlaces, NEW how \in {"raise", "return"},
         NEW what \in Values \cup {"timeout", "terminated", "not-started"}, Answer(c, how, what),
         UNCHANGED <<futures, tasks, executor>>,
         \/ how = "raise" /\ what \in {"terminated", "not-started"}
         \/ handler \in Timed /\ what = "timeout"
         \/ /\ Settled(reg[c].f, what)
            /\ how = "raise" => what = "error"
            /\ Forks /\ what = "error" => how = "raise"
  PROVE  Inv'
<1> DEFINE r == [reg[c] EXCEPT !.how = how, !.value = what]
<1>1. At(c, "answered", r)
  BY Answers, Zenon DEF Inv, Base
<1>2. reg[c].f \in Futures /\ reg[c] \in Registers /\ cpc[c] \notin CancelPlaces \cup {"added"}
  BY Getting, Zenon DEF Inv
<1>3. r.f = reg[c].f /\ r.how = how /\ r.value = what
  BY <1>2 DEF Registers
<1> HIDE DEF r
<1>4. Got(c)'
  <2>1. cpc'[c] = "answered" /\ reg'[c].f = reg[c].f /\ reg'[c].how = how /\ reg'[c].value = what
    BY <1>1, <1>3, Zenon DEF At
  <2>2. tpc' = tpc /\ tval' = tval /\ handler' = handler
    BY Zenon DEF tasks, executor
  <2> QED
    BY <2>1, <2>2 DEF Got, Settled, Forks
<1>5. "answered" \notin ExecutePlaces
  BY DEF ExecutePlaces
<1> QED
  BY <1>1, <1>2, <1>3, <1>4, <1>5, OutsideKeeps, Zenon

LEMMA GetResultKeeps == ASSUME Inv, NEW c \in Clients, GetResult(c) PROVE Inv'
<1>1. Fields /\ cpc[c] = "result" /\ "result" \in GetPlaces /\ UNCHANGED <<futures, tasks, executor>>
  BY DEF Inv, Base, GetResult, GetPlaces
<1>2. reg[c].f \in Futures /\ reg[c] \in Registers
  BY <1>1, Getting, Zenon DEF Inv
<1>3. \/ result[reg[c].f] = "box" /\ Go(c, "box") /\ reg' = reg
      \/ Answer(c, "raise", "not-started")
      \/ result[reg[c].f] \notin {"box", "not-started"} /\ Go(c, "reread") /\ reg' = reg
  BY <1>2, Zenon DEF GetResult, Inv, Outcomes, Results
<1>4. CASE result[reg[c].f] = "box" /\ Go(c, "box") /\ reg' = reg
  <2>1. At(c, "box", reg[c]) => Got(c)'
    BY <1>1, <1>4 DEF At, Got, futures
  <2> QED
    BY <1>1, <1>2, <1>4, <2>1, SameRegister, GetOnKeeps DEF GetPlaces
<1>5. CASE Answer(c, "raise", "not-started")
  BY <1>1, <1>5, AnswerKeeps
<1>6. CASE result[reg[c].f] \notin {"box", "not-started"} /\ Go(c, "reread") /\ reg' = reg
  <2>1. At(c, "reread", reg[c]) => Got(c)'
    BY <1>1, <1>6 DEF At, Got, futures
  <2> QED
    BY <1>1, <1>2, <1>6, <2>1, SameRegister, GetOnKeeps DEF GetPlaces
<1> QED
  BY <1>3, <1>4, <1>5, <1>6

LEMMA GetBoxKeeps == ASSUME Inv, NEW c \in Clients, GetBox(c) PROVE Inv'
<1>1. Fields /\ cpc[c] = "box" /\ "box" \in GetPlaces /\ UNCHANGED <<futures, tasks, executor>>
  BY DEF Inv, Base, GetBox, GetPlaces
<1>2. reg[c].f \in Futures /\ reg[c] \in Registers
  BY <1>1, Getting, Zenon DEF Inv
<1>3. result[reg[c].f] # "not-started"
  BY <1>1 DEF Inv, Outcomes, Gets, Got
<1>4. CASE Go(c, "boxwait") /\ reg' = reg
  <2>1. At(c, "boxwait", reg[c]) => Got(c)'
    BY <1>1, <1>3 DEF At, Got, futures
  <2> QED
    BY <1>1, <1>2, <1>4, <2>1, SameRegister, GetOnKeeps DEF GetPlaces
<1>5. CASE /\ box[reg[c].f] # Empty /\ Go(c, "store")
           /\ reg' = [reg EXCEPT ![c].value = box[reg[c].f]]
  <2> DEFINE r == [reg[c] EXCEPT !.value = box[reg[c].f]]
  <2>1. Settled(reg[c].f, box[reg[c].f])
    BY <1>2, <1>5, Zenon DEF Inv, Outcomes, Boxes
  <2>2. r \in Registers /\ r.f = reg[c].f /\ r.value = box[reg[c].f]
    BY <1>2, <2>1 DEF Registers, Settled
  <2>3. reg' = [reg EXCEPT ![c] = r]
    BY <1>1, <1>5, Zenon DEF Fields
  <2> HIDE DEF r
  <2>4. At(c, "store", r) => Got(c)'
    BY <1>1, <1>3, <2>1, <2>2 DEF At, Got, Outcome, Settled, futures, tasks
  <2> QED
    BY <1>1, <1>5, <2>2, <2>3, <2>4, GetOnKeeps, Zenon DEF GetPlaces
<1> QED
  BY <1>4, <1>5, Zenon DEF GetBox

LEMMA GetTimeoutKeeps == ASSUME Inv, NEW c \in Clients, GetTimeout(c) PROVE Inv'
<1> DEFINE r == [reg[c] EXCEPT !.value = "timeout"]
<1>1. /\ Fields /\ cpc[c] = "boxwait" /\ "boxwait" \in GetPlaces /\ UNCHANGED <<futures, tasks, executor>>
      /\ handler \in Timed /\ Go(c, "store")
  BY DEF Inv, Base, GetTimeout, GetPlaces, Step
<1>2. reg[c].f \in Futures /\ reg[c] \in Registers
  BY <1>1, Getting, Zenon DEF Inv
<1>3. result[reg[c].f] # "not-started"
  BY <1>1 DEF Inv, Outcomes, Gets, Got
<1>4. r \in Registers /\ r.f = reg[c].f /\ r.value = "timeout"
  BY <1>2 DEF Registers
<1>5. reg' = [reg EXCEPT ![c] = r]
  BY <1>1, Zenon DEF Fields, GetTimeout
<1> HIDE DEF r
<1>6. At(c, "store", r) => Got(c)'
  BY <1>1, <1>3, <1>4 DEF At, Got, Outcome, futures, executor
<1> QED
  BY <1>1, <1>4, <1>5, <1>6, GetOnKeeps, Zenon DEF GetPlaces

\* The same, of a step that changes fields of the future.
LEMMA GetSetsKeeps ==
  ASSUME Inv, NEW c \in Clients, cpc[c] \in GetPlaces, NEW q \in GetPlaces, NEW r, At(c, q, r), r.f \in Futures,
         FutureFields, Tells(c), \A f \in Futures : state'[f] = "created" => state[f] = "created",
         UNCHANGED <<tasks, executor>>
  PROVE  Inv'
<1> USE DEF tasks, executor
<1>1. Base
  BY Zenon DEF Inv
<1>2. cpc[c] \notin CancelPlaces \cup {"added"}
  BY <1>1, Getting, Zenon
<1>3. Proceeds(c)
  BY <1>2, GetPlacesOutside, ProceedsOutside
<1>4. Remembers(c)
  <2>1. \A f \in Futures : ~ToCancel(c, f)
    BY <1>2, NotCancelling
  <2>2. Listed' = Listed
    BY Zenon DEF Listed
  <2> QED
    BY <2>1, <2>2, Zenon DEF Remembers
<1> QED
  BY <1>1, <1>3, <1>4, ShrinksStay, Keeps, Zenon

LEMMA GetStoreKeeps == ASSUME Inv, NEW c \in Clients, GetStore(c) PROVE Inv'
<1> DEFINE f == reg[c].f
<1>1. /\ Fields /\ cpc[c] = "store" /\ cpc[c] \in GetPlaces /\ Go(c, "reread") /\ reg' = reg
      /\ result' = [result EXCEPT ![f] = reg[c].value]
      /\ UNCHANGED <<state, canceller, box, tpc, tval, estate, handler>> /\ UNCHANGED <<tasks, executor>>
  BY DEF Inv, Base, GetStore, GetPlaces, Step, tasks, executor
<1>2. f \in Futures
  BY <1>1, Getting, Zenon DEF Inv
<1>3. Outcome(f, reg[c].value) /\ result[f] # "not-started"
  BY <1>1 DEF Inv, Outcomes, Gets, Got
<1>4. reg[c].value \notin {"not-started", "box", Empty} /\ reg[c].value \in Values \cup {"timeout"}
  BY <1>3, NotPlaceholders DEF Outcome, Settled
<1>5. At(c, "reread", reg[c])
  BY <1>1, GetPlacesOutside, ArrivesUnchanged DEF GetPlaces
<1>6. /\ result'[f] = reg[c].value /\ \A g \in Futures \ {f} : result'[g] = result[g]
      /\ result' \in [Futures -> {"not-started", "box", "timeout"} \cup Values]
  BY <1>1, <1>2, <1>4 DEF Fields
<1>7. FutureFields
  BY <1>1, <1>6, Zenon DEF Fields, FutureFields
<1>8. Got(c)'
  BY <1>4, <1>5, <1>6 DEF At, Got
<1>9. Tells(c)
  <2>1. cpc'[c] # "push"
    BY <1>5 DEF At
  <2> QED
    BY <1>1, <1>3, <1>6, <1>8, <2>1, Zenon DEF Tells
<1> QED
  BY <1>1, <1>2, <1>5, <1>7, <1>9, GetSetsKeeps, Zenon DEF GetPlaces

LEMMA GetDoneKeeps == ASSUME Inv, NEW c \in Clients, GetDone(c) PROVE Inv'
<1> DEFINE f == reg[c].f
           r == [reg[c] EXCEPT !.value = result[f]]
<1>1. /\ Fields /\ cpc[c] = "reread" /\ cpc[c] \in GetPlaces /\ Go(c, "flag")
      /\ state' = [state EXCEPT ![f] = "done"]
      /\ UNCHANGED <<result, canceller, box, tpc, tval, estate, handler>> /\ UNCHANGED <<tasks, executor>>
  BY DEF Inv, Base, GetDone, GetPlaces, Step, tasks, executor
<1>2. f \in Futures /\ reg[c] \in Registers
  BY <1>1, Getting, Zenon DEF Inv
<1>3. result[f] \notin {"not-started", "box"}
  BY <1>1 DEF Inv, Outcomes, Gets, Got
<1>4. Outcome(f, result[f])
  BY <1>2, <1>3, Zenon DEF Inv, Outcomes, Results
<1>5. r \in Registers /\ r.f = f /\ r.value = result[f]
  BY <1>2, <1>4 DEF Registers, Outcome, Settled
<1>6. At(c, "flag", r)
  <2>1. reg' = [reg EXCEPT ![c] = r]
    BY <1>1, Zenon DEF GetDone, Fields
  <2>2. "flag" \in ClientPlaces
    BY GetPlacesOutside DEF GetPlaces
  <2> QED
    BY <1>1, <1>5, <2>1, <2>2, Arrives, Zenon
<1> HIDE DEF r
<1>7. /\ state'[f] = "done" /\ \A g \in Futures \ {f} : state'[g] = state[g]
      /\ state' \in [Futures -> {"created", "finished", "done", "terminated"}]
  BY <1>1, <1>2 DEF Fields
<1>8. FutureFields
  BY <1>1, <1>7, Zenon DEF Fields, FutureFields
<1>9. Got(c)'
  <2>1. cpc'[c] = "flag" /\ reg'[c].f = f /\ reg'[c].value = result[f]
    BY <1>5, <1>6, Zenon DEF At
  <2> QED
    BY <1>1, <1>4, <2>1 DEF Got, Outcome, Settled
<1>10. Tells(c)
  <2>1. cpc'[c] # "push"
    BY <1>6 DEF At
  <2> QED
    BY <1>1, <1>3, <1>7, <1>9, <2>1, Zenon DEF Tells
<1>11. \A g \in Futures : state'[g] = "created" => state[g] = "created"
  BY <1>7
<1> QED
  BY <1>1, <1>2, <1>5, <1>6, <1>8, <1>10, <1>11, GetSetsKeeps DEF GetPlaces

LEMMA GetFlagKeeps == ASSUME Inv, NEW c \in Clients, GetFlag(c) PROVE Inv'
<1> DEFINE f == reg[c].f
           v == reg[c].value
           how == IF canceller[f] = "flag" THEN "raise" ELSE "return"
<1>1. cpc[c] = "flag" /\ cpc[c] \in GetPlaces /\ Answer(c, how, v) /\ UNCHANGED <<futures, tasks, executor>>
  BY DEF GetFlag, GetPlaces
<1>2. f \in Futures
  BY <1>1, Getting, Zenon DEF Inv
<1>3. Outcome(f, v) /\ Flagged
  BY <1>1 DEF Inv, Outcomes, Gets, Got
<1>4. v \in Values \cup {"timeout", "terminated", "not-started"} /\ how \in {"raise", "return"}
  BY <1>3 DEF Outcome, Settled
<1>5. \/ handler \in Timed /\ v = "timeout"
      \/ /\ Settled(f, v)
         /\ how = "raise" => v = "error"
         /\ Forks /\ v = "error" => how = "raise"
  BY <1>2, <1>3 DEF Outcome, Settled, Flagged, Flags
<1> HIDE DEF how
<1> QED
  BY <1>1, <1>4, <1>5, AnswerKeeps, Zenon

LEMMA CancelPlacesOutside ==
  /\ CancelPlaces \cup {"cancelled"} \subseteq ClientPlaces
  /\ (CancelPlaces \cup {"cancelled"}) \cap ExecutePlaces = {}
BY DEF ClientPlaces, CancelPlaces, ExecutePlaces

LEMMA Cancelling ==
  ASSUME Base, NEW c \in Clients, cpc[c] \in CancelPlaces
  PROVE  reg[c].f \in Futures /\ reg[c] \in Registers /\ cpc[c] # "added"
BY DEF Base, Fields, CancelPlaces

\* The test for done leads to a cancellation, and misses no future that is not done.
LEMMA CancelTestAt ==
  ASSUME Fields, NEW c \in Clients, NEW r \in Registers, CancelTest(c, r)
  PROVE  \E q \in {"ccall", "cset"} : At(c, q, r) /\ (state[r.f] # "done" => q = "cset")
<1>1. {"ccall", "cset"} \subseteq ClientPlaces
  BY CancelPlacesOutside DEF CancelPlaces
<1>2. CASE state[r.f] = "done"
  <2>1. At(c, "ccall", r)
    BY <1>1, <1>2, Arrives, Zenon DEF CancelTest
  <2> QED
    BY <1>2, <2>1
<1>3. CASE state[r.f] # "done"
  <2>1. At(c, "cset", r)
    BY <1>1, <1>3, Arrives, Zenon DEF CancelTest
  <2> QED
    BY <2>1
<1> QED
  BY <1>2, <1>3

\* A step from future-cancel to future-cancel or out of it.
CancelsOn(c) ==
  /\ \E q \in CancelPlaces \cup {"cancelled"}, r \in Registers : At(c, q, r) /\ r.f \in Futures
  /\ \A f \in Futures : state'[f] = "created" /\ ToCancel(c, f) => ToCancel(c, f)'

LEMMA CancelsOnProceeds ==
  ASSUME NEW c \in Clients, CancelsOn(c), cpc[c] # "added" PROVE Proceeds(c) /\ cpc'[c] # "push"
<1>1. PICK q \in CancelPlaces \cup {"cancelled"}, r \in Registers : At(c, q, r) /\ r.f \in Futures
  BY Zenon DEF CancelsOn
<1>2. q \notin ExecutePlaces
  BY CancelPlacesOutside
<1> QED
  BY <1>1, <1>2, ProceedsOutside DEF At, ExecutePlaces

LEMMA CancelledOn ==
  ASSUME Base, NEW c \in Clients, cpc[c] \in {"ccall", "cclear"}, Cancelled(c), UNCHANGED state
  PROVE  CancelsOn(c) /\ cpc'[c] \notin {"cclean", "cclear"}
<1>1. Fields /\ reg[c] \in Registers /\ reg[c].f \in Futures /\ reg[c].todo \in Seq(Futures)
  BY Cancelling DEF Base, CancelPlaces, Registers
<1>2. ASSUME NEW f \in Futures, ToCancel(c, f) PROVE f \in Elements(reg[c].todo)
  BY <1>2 DEF ToCancel
<1>3. CASE reg[c].todo = <<>>
  <2> DEFINE r == [NoReg EXCEPT !.f = reg[c].f]
  <2>1. r \in Registers /\ r.f = reg[c].f
    BY <1>1, NoRegType DEF Registers
  <2>2. "cancelled" \in ClientPlaces
    BY DEF ClientPlaces
  <2>3. Go(c, "cancelled") /\ reg' = [reg EXCEPT ![c] = r]
    BY <1>3, Zenon DEF Cancelled
  <2> HIDE DEF r
  <2>4. At(c, "cancelled", r)
    BY <1>1, <2>1, <2>2, <2>3, Arrives, Zenon
  <2>5. Elements(reg[c].todo) = {}
    BY <1>3 DEF Elements
  <2> QED
    BY <1>1, <1>2, <2>1, <2>4, <2>5 DEF CancelsOn, At
<1>4. CASE reg[c].todo # <<>>
  <2> DEFINE r == [NoReg EXCEPT !.f = Head(reg[c].todo), !.todo = Tail(reg[c].todo)]
  <2>1. /\ Head(reg[c].todo) \in Futures /\ Tail(reg[c].todo) \in Seq(Futures)
        /\ Elements(reg[c].todo) = {Head(reg[c].todo)} \cup Elements(Tail(reg[c].todo))
    BY <1>1, <1>4, ElementsTail, Zenon
  <2>2. r \in Registers /\ r.f = Head(reg[c].todo) /\ r.todo = Tail(reg[c].todo)
    BY <2>1, NoRegType DEF Registers, NoReg
  <2>3. CancelTest(c, r)
    BY <1>4, Zenon DEF Cancelled
  <2> HIDE DEF r
  <2>4. PICK q \in {"ccall", "cset"} : At(c, q, r) /\ (state[r.f] # "done" => q = "cset")
    BY <1>1, <2>2, <2>3, CancelTestAt, Zenon
  <2>5. q \in CancelPlaces /\ cpc'[c] = q /\ reg'[c] = r /\ cpc'[c] \notin {"cclean", "cclear"}
    BY <2>4 DEF CancelPlaces, At
  <2>6. ASSUME NEW f \in Futures, state'[f] = "created", ToCancel(c, f) PROVE ToCancel(c, f)'
    <3>1. f = r.f \/ f \in Elements(r.todo)
      BY <1>2, <2>1, <2>2, <2>6, Zenon
    <3>2. f = r.f => q = "cset"
      BY <2>4, <2>6
    <3> QED
      BY <2>5, <3>1, <3>2, Zenon DEF ToCancel
  <2> QED
    BY <2>1, <2>2, <2>4, <2>5, <2>6, Zenon DEF CancelsOn
<1> QED
  BY <1>3, <1>4

LEMMA CallCancelKeeps == ASSUME Inv, NEW c \in Clients, NEW f \in Futures, CallCancel(c, f) PROVE Inv'
<1> DEFINE r == [NoReg EXCEPT !.f = f]
<1>1. r \in Registers /\ r.f = f
  BY NoRegType DEF Registers
<1>2. CancelTest(c, r) /\ UNCHANGED <<futures, tasks, executor>> /\ cpc[c] \notin CancelPlaces \cup {"added"}
  BY DEF CallCancel, CancelPlaces
<1> HIDE DEF r
<1>3. PICK q \in {"ccall", "cset"} : At(c, q, r)
  BY <1>1, <1>2, CancelTestAt, Zenon DEF Inv, Base
<1>4. q \notin ExecutePlaces
  BY DEF ExecutePlaces
<1>5. Got(c)'
  BY <1>3, NotGetting DEF At
<1> QED
  BY <1>1, <1>2, <1>3, <1>4, <1>5, OutsideKeeps, Zenon

LEMMA CancelKeeps ==
  ASSUME Inv, NEW c \in Clients, cpc[c] \in CancelPlaces, CancelsOn(c), FutureFields, Shrinks,
         UNCHANGED <<result, box, tasks, estate, handler, lock>>,
         cpc'[c] \in {"cclean", "cclear"} => ~Forks,
         \A f \in Futures : canceller'[f] = canceller[f] \/ (~Forks /\ canceller'[f] = "none"),
         \A f \in Futures : state'[f] = state[f] \/ state'[f] = "terminated",
         \A f \in Listed : f \in Listed' \/ state'[f] # "created"
  PROVE  Inv'
<1> USE DEF tasks
<1>1. Proceeds(c) /\ cpc'[c] # "push"
  BY CancelsOnProceeds DEF CancelPlaces
<1>2. "terminated" \notin {"created", "done"}
  OBVIOUS
<1>3. Remembers(c)
  BY <1>2, Zenon DEF Remembers, CancelsOn
<1>4. Got(c)'
  <2>1. cpc'[c] \in CancelPlaces \cup {"cancelled"}
    BY Zenon DEF CancelsOn, At
  <2>2. cpc'[c] \notin {"box", "boxwait", "store", "flag", "reread", "answered"}
    BY <2>1 DEF CancelPlaces
  <2> QED
    BY <2>2 DEF Got, Forks
<1>5. Tells(c)
  BY <1>1, <1>2, <1>4, Zenon DEF Tells
<1> QED
  BY <1>1, <1>3, <1>5, Keeps, Zenon

\* A step inside one cancellation.
LEMMA CancelsNext ==
  ASSUME Base, NEW c \in Clients, cpc[c] \in CancelPlaces, NEW q \in CancelPlaces, Go(c, q), reg' = reg,
         cpc[c] = "cset" => state'[reg[c].f] # "created"
  PROVE  CancelsOn(c) /\ cpc'[c] = q
<1>1. reg[c].f \in Futures /\ reg[c] \in Registers
  BY Cancelling, Zenon
<1>2. At(c, q, reg[c])
  BY CancelPlacesOutside, ArrivesUnchanged DEF Base
<1>3. ASSUME NEW f \in Futures, state'[f] = "created", ToCancel(c, f) PROVE ToCancel(c, f)'
  <2>1. f \in Elements(reg[c].todo)
    BY <1>3, Zenon DEF ToCancel
  <2> QED
    BY <1>2, <2>1, Zenon DEF ToCancel, At
<1>4. cpc'[c] = q
  BY <1>2, Zenon DEF At
<1> QED
  BY <1>1, <1>2, <1>3, <1>4, Zenon DEF CancelsOn

LEMMA CancelSetKeeps == ASSUME Inv, NEW c \in Clients, CancelSet(c) PROVE Inv'
<1> DEFINE f == reg[c].f
<1>1. /\ Base /\ Fields /\ cpc[c] \in CancelPlaces /\ Go(c, "ccall") /\ reg' = reg
      /\ state' = [state EXCEPT ![f] = "terminated"]
      /\ UNCHANGED <<result, canceller, box, tval, ids>> /\ UNCHANGED <<result, box, tasks, estate, handler, lock>>
  BY DEF Inv, Base, CancelSet, CancelPlaces, Step, tasks, executor
<1>2. f \in Futures
  BY <1>1, Cancelling, Zenon
<1>3. /\ state'[f] = "terminated" /\ \A g \in Futures \ {f} : state'[g] = state[g]
      /\ state' \in [Futures -> {"created", "finished", "done", "terminated"}]
  BY <1>1, <1>2 DEF Fields
<1>4. FutureFields /\ Shrinks
  <2>1. Shrinks /\ Fields /\ UNCHANGED <<result, canceller, box, tval>>
    BY <1>1, ShrinksStay, Zenon
  <2> QED
    BY <1>3, <2>1, Zenon DEF FutureFields, Fields
<1>5. CancelsOn(c) /\ cpc'[c] = "ccall"
  BY <1>1, <1>3, CancelsNext DEF CancelPlaces
<1>6. Listed' = Listed
  BY <1>1, Zenon DEF Listed
<1>7. cpc'[c] \notin {"cclean", "cclear"}
  BY <1>5
<1> QED
  BY <1>1, <1>3, <1>4, <1>5, <1>6, <1>7, CancelKeeps, Zenon

LEMMA CancelCallKeeps == ASSUME Inv, NEW c \in Clients, CancelCall(c) PROVE Inv'
<1>1. /\ Base /\ cpc[c] = "ccall" /\ cpc[c] \in CancelPlaces /\ UNCHANGED <<futures, tasks, executor>>
      /\ UNCHANGED <<state, canceller, futures, tval, ids>> /\ UNCHANGED <<result, box, tasks, estate, handler, lock>>
  BY DEF Inv, Base, CancelCall, CancelPlaces, futures, tasks, executor
<1>2. FutureFields /\ Shrinks /\ Listed' = Listed
  BY <1>1, ShrinksStay, FutureFieldsStay, Zenon DEF Listed
<1>3. CASE canceller[reg[c].f] = "procedure" /\ Go(c, "cclean") /\ reg' = reg
  <2>1. CancelsOn(c)
    BY <1>1, <1>3, CancelsNext DEF CancelPlaces
  <2>2. ~Forks
    <3>1. reg[c].f \in Futures
      BY <1>1, Cancelling, Zenon
    <3> QED
      BY <1>3, <3>1, Zenon DEF Inv, Outcomes, Flagged, Flags
  <2> QED
    BY <1>1, <1>2, <2>1, <2>2, CancelKeeps, Zenon
<1>4. CASE Cancelled(c)
  <2>1. CancelsOn(c) /\ cpc'[c] \notin {"cclean", "cclear"}
    BY <1>1, <1>4, CancelledOn
  <2> QED
    BY <1>1, <1>2, <2>1, CancelKeeps, Zenon
<1> QED
  BY <1>3, <1>4, Zenon DEF CancelCall

LEMMA CancelClearKeeps == ASSUME Inv, NEW c \in Clients, CancelClear(c) PROVE Inv'
<1> DEFINE f == reg[c].f
<1>1. /\ Base /\ Fields /\ cpc[c] = "cclear" /\ cpc[c] \in CancelPlaces
      /\ canceller' = [canceller EXCEPT ![f] = "none"] /\ Cancelled(c)
      /\ UNCHANGED <<state, result, box, tval, ids>> /\ UNCHANGED <<result, box, tasks, estate, handler, lock>>
  BY DEF Inv, Base, CancelClear, CancelPlaces, tasks, executor
<1>2. f \in Futures
  BY <1>1, Cancelling, Zenon
<1>3. /\ canceller'[f] = "none" /\ \A g \in Futures \ {f} : canceller'[g] = canceller[g]
      /\ canceller' \in [Futures -> {"none", "flag", "procedure"}]
  BY <1>1, <1>2 DEF Fields
<1>4. FutureFields /\ Shrinks /\ Listed' = Listed
  <2>1. Shrinks /\ Listed' = Listed
    BY <1>1, ShrinksStay, Zenon DEF Listed
  <2> QED
    BY <1>1, <1>3, <2>1, Zenon DEF FutureFields, Fields
<1>5. CancelsOn(c) /\ cpc'[c] \notin {"cclean", "cclear"}
  BY <1>1, CancelledOn
<1>6. ~Forks
  BY <1>1 DEF Inv, Outcomes, Gets, Got
<1> QED
  BY <1>1, <1>3, <1>4, <1>5, <1>6, CancelKeeps, Zenon

LEMMA ExecutePlacesAre == ExecutePlaces \subseteq ClientPlaces
BY DEF ClientPlaces

LEMMA Executing ==
  ASSUME Base, NEW c \in Clients, cpc[c] \in ExecutePlaces
  PROVE  reg[c].f \in Futures /\ reg[c] \in Registers /\ cpc[c] \notin CancelPlaces
BY DEF Base, Fields, ExecutePlaces, CancelPlaces

\* Execute finds no room.
LEMMA RejectedKeeps ==
  ASSUME Inv, NEW c \in Clients, NEW f \in Futures, ~Forks,
         (cpc[c] = "idle" /\ Unexecuted(f)) \/ (cpc[c] = "execute" /\ reg[c].f = f),
         Go(c, "reject"), reg' = [reg EXCEPT ![c].f = f], UNCHANGED <<futures, tasks, executor>>
  PROVE  Inv'
<1> DEFINE r == [reg[c] EXCEPT !.f = f]
<1>1. Fields /\ reg[c] \in Registers
  BY Zenon DEF Inv, Base, Fields
<1>2. r \in Registers /\ r.f = f
  BY <1>1 DEF Registers
<1>3. reg' = [reg EXCEPT ![c] = r]
  BY <1>1, Zenon DEF Fields
<1> HIDE DEF r
<1>4. At(c, "reject", r)
  BY <1>1, <1>2, <1>3, ExecutePlacesAre, Arrives, Zenon DEF ExecutePlaces
<1>5. cpc'[c] = "reject" /\ reg'[c].f = f
  BY <1>2, <1>4, Zenon DEF At
<1>6. Proceeds(c)
  <2>1. cpc[c] # "added" /\ cpc[c] \notin CancelPlaces /\ (cpc[c] = "execute" => cpc[c] \in ExecutePlaces)
    BY DEF CancelPlaces, ExecutePlaces
  <2>2. cpc'[c] \notin {"added", "push", "oldest", "kill", "oldclean"}
    BY <1>5
  <2> QED
    BY <1>4, <1>5, <2>1, <2>2, Zenon DEF At, Proceeds
<1>7. Got(c)' /\ cpc'[c] # "push"
  BY <1>5, NotGetting
<1>8. \A g \in Futures : ~ToCancel(c, g)
  BY NotCancelling DEF CancelPlaces
<1> QED
  BY <1>6, <1>7, <1>8, QuietKeeps, Zenon

LEMMA RejectKeeps == ASSUME Inv, NEW c \in Clients, Reject(c) PROVE Inv'
<1>1. Base /\ Fields /\ cpc[c] \in ExecutePlaces \ {"added"} /\ UNCHANGED <<futures, tasks, executor>>
  BY DEF Inv, Base, Reject, ExecutePlaces
<1>2. cpc[c] \notin CancelPlaces \cup {"added"}
  BY <1>1, Executing
<1>3. CASE Leave(c)
  BY <1>1, <1>2, <1>3, LeaveKeeps, Zenon
<1>4. ASSUME NEW q \in {"push", "oldest", "wait"}, Go(c, q), reg' = reg,
             q = "push" => handler = "push" /\ estate = "running", q = "oldest" => handler = "terminate"
      PROVE  Inv'
  <2>1. q \in ExecutePlaces /\ q # "added" /\ (q \in {"oldest", "kill", "oldclean"} => handler = "terminate")
    BY <1>4 DEF ExecutePlaces
  <2>2. At(c, q, reg[c])
    BY <1>1, <1>4, <2>1, ExecutePlacesAre, ArrivesUnchanged
  <2> QED
    BY <1>1, <1>4, <2>1, <2>2, InsideKeeps, Zenon
<1>5. \/ Leave(c)
      \/ handler = "push" /\ estate = "running" /\ Go(c, "push") /\ reg' = reg
      \/ handler = "terminate" /\ Go(c, "oldest") /\ reg' = reg
      \/ handler = "wait" /\ Go(c, "wait") /\ reg' = reg
  BY Zenon DEF Reject
<1> QED
  BY <1>3, <1>4, <1>5

LEMMA WaitKeeps == ASSUME Inv, NEW c \in Clients, Wait(c) PROVE Inv'
<1>1. /\ Base /\ Fields /\ cpc[c] = "wait" /\ cpc[c] \in ExecutePlaces \ {"added"}
      /\ UNCHANGED <<futures, tasks, executor>>
  BY DEF Inv, Base, Wait, ExecutePlaces
<1>2. cpc[c] \notin CancelPlaces \cup {"added"} /\ reg[c] \in Registers
  BY <1>1, Executing
<1>3. CASE Leave(c)
  BY <1>1, <1>2, <1>3, LeaveKeeps, Zenon
<1>4. ASSUME NEW q \in {"execute", "wait"}, Go(c, q), NEW n \in Nat, reg' = [reg EXCEPT ![c].count = n]
      PROVE  Inv'
  <2> DEFINE r == [reg[c] EXCEPT !.count = n]
  <2>1. /\ q \in ExecutePlaces /\ q # "added" /\ (q = "push" => handler = "push" /\ estate = "running")
        /\ q \in {"oldest", "kill", "oldclean"} => handler = "terminate"
    BY <1>4 DEF ExecutePlaces
  <2>2. r \in Registers /\ r.f = reg[c].f
    BY <1>2 DEF Registers
  <2>3. reg' = [reg EXCEPT ![c] = r]
    BY <1>1, <1>4, Zenon DEF Fields
  <2> HIDE DEF r
  <2>4. At(c, q, r)
    BY <1>1, <1>4, <2>1, <2>2, <2>3, ExecutePlacesAre, Arrives, Zenon
  <2> QED
    BY <1>1, <2>1, <2>2, <2>4, InsideKeeps, Zenon
<1>5. reg[c].count + 1 \in Nat /\ 0 \in Nat
  <2>1. reg[c].count \in Nat
    BY <1>2, Zenon DEF Registers
  <2> QED
    BY <2>1
<1>6. \/ Leave(c)
      \/ Go(c, "execute") /\ reg' = [reg EXCEPT ![c].count = 0]
      \/ cpc' = cpc /\ reg' = [reg EXCEPT ![c].count = @ + 1]
  BY Zenon DEF Wait
<1>7. CASE cpc' = cpc /\ reg' = [reg EXCEPT ![c].count = @ + 1]
  <2>1. Go(c, "wait")
    BY <1>1, <1>7 DEF Go, Fields
  <2>2. reg' = [reg EXCEPT ![c].count = reg[c].count + 1]
    BY <1>1, <1>7, Zenon DEF Fields
  <2> QED
    BY <1>4, <1>5, <2>1, <2>2, Zenon
<1> QED
  BY <1>3, <1>4, <1>5, <1>6, <1>7

\* A step of terminate-oldest-handler may take places away.
LEMMA OldestOnKeeps ==
  ASSUME Inv, NEW c \in Clients, NEW q \in ExecutePlaces, NEW r, At(c, q, r),
         cpc[c] \in ExecutePlaces \ {"added"}, q \notin {"added", "push"}, r.f = reg[c].f, handler = "terminate",
         Shrinks, UNCHANGED <<result, canceller, box, tasks, estate, handler, lock>>,
         state' \in [Futures -> {"created", "finished", "done", "terminated"}],
         \A f \in Futures : state'[f] = state[f] \/ state'[f] = "terminated"
  PROVE  Inv'
<1> USE DEF tasks
<1>1. Base /\ Fields
  BY Zenon DEF Inv, Base
<1>2. Proceeds(c)
  <2>1. q # "added" /\ (q = "push" => handler = "push")
    OBVIOUS
  <2> QED
    BY <1>1, <2>1, ProceedsInside, Zenon
<1>3. FutureFields
  BY <1>1, Zenon DEF Fields, FutureFields
<1>4. "terminated" \notin {"created", "done"}
  OBVIOUS
<1>5. Remembers(c)
  <2>1. \A f \in Futures : ~ToCancel(c, f)
    BY <1>1, Executing, NotCancelling
  <2> QED
    BY <1>4, <2>1, Zenon DEF Remembers
<1>6. Tells(c)
  <2>1. cpc'[c] = q
    BY Zenon DEF At
  <2>2. Got(c)' /\ cpc'[c] # "push"
    BY <2>1, NotGetting DEF ExecutePlaces
  <2> QED
    BY <1>4, <2>2, Zenon DEF Tells
<1> QED
  BY <1>2, <1>3, <1>5, <1>6, Keeps, Zenon

LEMMA OldestKeeps == ASSUME Inv, NEW c \in Clients, Oldest(c) PROVE Inv'
<1>1. /\ Base /\ Fields /\ cpc[c] = "oldest" /\ cpc[c] \in ExecutePlaces \ {"added"}
      /\ UNCHANGED <<futures, tasks, estate, handler, lock>>
  BY DEF Inv, Base, Oldest, ExecutePlaces
<1>2. reg[c] \in Registers /\ ids \in Seq(Entries)
  BY <1>1 DEF Fields
<1>3. handler = "terminate"
  BY <1>1 DEF Base, Handled
<1>4. UNCHANGED <<state, result, canceller, box, tasks, estate, handler, lock>>
  BY <1>1, Zenon DEF futures
<1>5. /\ state' \in [Futures -> {"created", "finished", "done", "terminated"}]
      /\ \A f \in Futures : state'[f] = state[f] \/ state'[f] = "terminated"
  BY <1>1, <1>4, Zenon DEF Fields
<1>6. {"execute", "kill"} \subseteq ExecutePlaces /\ {"execute", "kill"} \cap {"added", "push"} = {}
  BY DEF ExecutePlaces
<1>7. CASE ids' = ids /\ Go(c, "execute") /\ reg' = reg
  <2>1. At(c, "execute", reg[c])
    BY <1>1, <1>6, <1>7, ExecutePlacesAre, ArrivesUnchanged
  <2> QED
    BY <1>1, <1>3, <1>4, <1>5, <1>6, <1>7, <2>1, ShrinksStay, OldestOnKeeps, Zenon
<1>8. CASE /\ ids # <<>> /\ ids' = Tail(ids) /\ Go(c, "kill")
           /\ reg' = [reg EXCEPT ![c].id = Head(ids).id, ![c].old = Head(ids).f]
  <2> DEFINE r == [reg[c] EXCEPT !.id = Head(ids).id, !.old = Head(ids).f]
  <2>1. /\ ids' \in Seq(Entries) /\ Len(ids') <= Len(ids) /\ Listed' \subseteq Listed
        /\ Head(ids) \in Entries
    BY <1>2, <1>8, TailShrinks, Zenon
  <2>2. Head(ids).id \in Ids /\ Head(ids).f \in Futures
    BY <2>1 DEF Entries
  <2>3. r \in Registers /\ r.f = reg[c].f
    BY <1>2, <2>2 DEF Registers
  <2>4. reg' = [reg EXCEPT ![c] = r]
    BY <1>1, <1>8, Zenon DEF Fields
  <2> HIDE DEF r
  <2>5. At(c, "kill", r)
    BY <1>1, <1>6, <1>8, <2>3, <2>4, ExecutePlacesAre, Arrives, Zenon
  <2>6. Shrinks
    BY <2>1, Zenon DEF Shrinks
  <2> QED
    BY <1>1, <1>3, <1>4, <1>5, <1>6, <2>3, <2>5, <2>6, OldestOnKeeps, Zenon
<1> QED
  BY <1>7, <1>8, Zenon DEF Oldest

LEMMA KillSpares ==
  ASSUME Base, NEW K \in SUBSET Ids, Kill(K), lock = NoThread
  PROVE  /\ Spares
         /\ \A id \in K : \A f \in Elements(work[id]) : tpc'[f] = "killed"
<1> DEFINE dead == UNION {{work[id][i] : i \in 1..Len(work[id])} : id \in K}
<1>1. /\ tpc \in [Futures -> {"none", "start", "run", "flag", "clean", "put", "over", "killed"}]
      /\ work \in [Ids -> Seq(Futures)]
  BY Zenon DEF Base, Fields
<1>2. /\ work' = [id \in Ids |-> IF id \in K THEN <<>> ELSE work[id]]
      /\ tpc' = [f \in Futures |-> IF f \in dead THEN "killed" ELSE tpc[f]]
  BY Zenon DEF Kill
<1>3. ASSUME NEW f PROVE f \in dead <=> \E id \in K : f \in Elements(work[id])
  BY Zenon DEF Elements
<1> HIDE DEF dead
<1>4. tpc' \in [Futures -> {"none", "start", "run", "flag", "clean", "put", "over", "killed"}]
  BY <1>1, <1>2
<1>5. work' \in [Ids -> Seq(Futures)]
  BY <1>1, <1>2
<1>6. Elements(<<>>) = {}
  BY DEF Elements
<1>7. ASSUME NEW id \in Ids
      PROVE  Elements(work'[id]) \subseteq Elements(work[id]) /\ (id \notin K => work'[id] = work[id])
  BY <1>2, <1>6, Zenon
<1>8. ASSUME NEW f \in Futures PROVE tpc'[f] = tpc[f] \/ (tpc[f] # "none" /\ tpc'[f] = "killed")
  <2>1. f \in dead => tpc[f] # "none"
    BY <1>3, Zenon DEF Base, Owned
  <2> QED
    BY <1>2, <2>1, Zenon
<1>9. ASSUME NEW f \in Futures, InHands(f) PROVE InHands(f)' \/ tpc'[f] = "killed"
  <2>1. PICK id \in Ids : f \in Elements(work[id])
    BY <1>9, Zenon DEF InHands
  <2>2. CASE id \in K
    BY <1>2, <1>3, <2>1, <2>2, Zenon
  <2>3. CASE id \notin K
    BY <1>7, <2>1, <2>3, Zenon DEF InHands
  <2> QED
    BY <2>2, <2>3
<1>10. Spares
  BY <1>4, <1>5, <1>7, <1>8, <1>9, Zenon DEF Spares
<1>11. ASSUME NEW id \in K, NEW f \in Elements(work[id]) PROVE tpc'[f] = "killed"
  <2>1. f \in Futures
    <3>1. work[id] \in Seq(Futures)
      BY <1>1
    <3> QED
      BY <3>1 DEF Elements
  <2> QED
    BY <1>2, <1>3, <2>1, Zenon
<1> QED
  BY <1>10, <1>11, Zenon

LEMMA KillOldestKeeps == ASSUME Inv, NEW c \in Clients, KillOldest(c) PROVE Inv'
<1>1. /\ Base /\ Fields /\ cpc[c] = "kill" /\ cpc[c] \in ExecutePlaces \ {"added"}
      /\ lock = NoThread /\ UNCHANGED <<futures, tval, taskq, executor>>
  BY DEF Inv, Base, KillOldest, ExecutePlaces
<1>2. reg[c] \in Registers /\ cpc[c] \notin CancelPlaces \cup {"added"}
  BY <1>1, Executing
<1>3. handler = "terminate" /\ ~Forks
  BY <1>1 DEF Base, Handled, Forks
<1>4. CASE Leave(c) /\ UNCHANGED <<work, tpc>>
  <2>1. UNCHANGED <<futures, tasks, executor>>
    BY <1>1, <1>4, Zenon DEF tasks
  <2> QED
    BY <1>2, <1>4, <2>1, LeaveKeeps, Zenon
<1>5. CASE Kill({reg[c].id}) /\ Go(c, "oldclean") /\ reg' = reg
  <2>1. "oldclean" \in ExecutePlaces /\ "oldclean" \notin {"added", "push"}
    BY DEF ExecutePlaces
  <2>2. At(c, "oldclean", reg[c])
    BY <1>1, <1>5, <2>1, ExecutePlacesAre, ArrivesUnchanged
  <2>3. Proceeds(c)
    BY <1>1, <1>3, <2>1, <2>2, ProceedsInside
  <2>4. {reg[c].id} \in SUBSET Ids
    BY <1>2 DEF Registers
  <2>5. Spares
    BY <1>1, <1>5, <2>4, KillSpares, Zenon
  <2>6. FutureFields /\ Shrinks
    BY <1>1, FutureFieldsStay, ShrinksStay, Zenon DEF executor
  <2>7. Base'
    BY <1>1, <2>3, <2>5, <2>6, BaseProceeds, Zenon DEF executor, Fields
  <2>8. Survivors'
    <3>1. Known'
      BY <1>1, <1>3, Zenon DEF Known, executor
    <3>2. ASSUME NEW f \in Futures, tpc'[f] \in {"put", "over"} PROVE state'[f] # "created"
      <4>1. tpc'[f] = tpc[f]
        BY <2>5, <3>2 DEF Spares
      <4> QED
        BY <1>1, <3>2, <4>1, Zenon DEF Inv, Survivors, Doomed, futures
    <3>3. handler' = "terminate"
      BY <1>1, <1>3, Zenon DEF executor
    <3> QED
      BY <3>1, <3>2, <3>3, Zenon DEF Survivors, Doomed
  <2>9. Tells(c)
    <3>1. cpc'[c] = "oldclean"
      BY <2>2, Zenon DEF At
    <3>2. Got(c)' /\ cpc'[c] # "push"
      BY <3>1, NotGetting
    <3> QED
      BY <1>1, <1>3, <2>5, <3>2, Zenon DEF Tells, Spares, futures, executor
  <2>10. Outcomes'
    BY <2>3, <2>9, OutcomesProceed, Zenon DEF Inv
  <2> QED
    BY <2>7, <2>8, <2>10, Zenon DEF Inv
<1> QED
  BY <1>4, <1>5, Zenon DEF KillOldest

\* push-future-handler finds the pool released.
LEMMA PushFailsKeeps ==
  ASSUME Inv, NEW c \in Clients, cpc[c] = "push", estate # "running", Leave(c),
         result' = [result EXCEPT ![reg[c].f] = "box"], UNCHANGED <<state, canceller, box, tasks, executor>>
  PROVE  Inv'
<1> DEFINE f == reg[c].f
<1> USE DEF tasks, executor
<1>1. Base /\ Fields /\ cpc[c] \in ExecutePlaces \ {"added"}
  BY DEF Inv, Base, ExecutePlaces
<1>2. f \in Futures /\ cpc[c] \notin CancelPlaces
  BY <1>1, Executing
<1>3. At(c, "idle", NoReg)
  BY <1>1, Leaves, Zenon
<1>4. cpc'[c] = "idle" /\ cpc'[c] # "push" /\ Got(c)'
  BY <1>3, NotGetting DEF At
<1>5. Proceeds(c)
  BY <1>1, <1>3, ProceedsOutside DEF ExecutePlaces
<1>6. /\ result'[f] = "box" /\ \A g \in Futures \ {f} : result'[g] = result[g]
      /\ result' \in [Futures -> {"not-started", "box", "timeout"} \cup Values]
  BY <1>1, <1>2 DEF Fields
<1>7. FutureFields /\ Shrinks
  <2>1. Shrinks
    BY <1>1, ShrinksStay, Zenon
  <2> QED
    BY <1>1, <1>6, <2>1, Zenon DEF Fields, FutureFields
<1>8. Remembers(c)
  BY <1>2, NotCancelling, Zenon DEF Remembers, Listed
<1>9. Tells(c)
  <2>1. tpc[f] = "none"
    BY <1>1, Zenon DEF Base, Owned
  <2>2. result[f] = "not-started"
    BY <1>2, <2>1, Zenon DEF Inv, Outcomes, Results
  <2>3. ASSUME NEW d \in Clients, cpc'[d] = "push" PROVE reg'[d].f # f
    <3>1. d # c /\ cpc[d] = "push" /\ reg'[d] = reg[d]
      BY <1>4, <1>5, <2>3, Zenon DEF Proceeds
    <3>2. cpc[d] \in ExecutePlaces
      BY <3>1 DEF ExecutePlaces
    <3> QED
      BY <1>1, <3>1, <3>2, Zenon DEF Base, Owned
  <2>4. ASSUME NEW g \in Futures
        PROVE  \/ result'[g] = result[g]
               \/ /\ result[g] = "not-started" /\ result'[g] = "box" /\ estate # "running"
                  /\ \A d \in Clients : cpc'[d] = "push" => reg'[d].f # g
    BY <1>6, <2>2, <2>3, Zenon
  <2> QED
    BY <1>4, <2>4, Zenon DEF Tells
<1> QED
  BY <1>5, <1>7, <1>8, <1>9, Keeps, Zenon

\* The futures that shutdown-executor! cancels are the listed ones.
LEMMA AllAreCancelled ==
  ASSUME ids \in Seq(Entries), ids # <<>>, NEW todo, todo = [i \in 1..(Len(ids) - 1) |-> ids[i + 1].f]
  PROVE  Head(ids).f \in Futures /\ todo \in Seq(Futures) /\ Listed = {Head(ids).f} \cup Elements(todo)
<1>1. Len(ids) \in Nat \ {0} /\ Head(ids) = ids[1] /\ \A i \in 1..Len(ids) : ids[i] \in Entries
  OBVIOUS
<1>2. \A i \in 1..Len(ids) : ids[i].f \in Futures
  BY <1>1 DEF Entries
<1>3. 1 \in 1..Len(ids) /\ \A i \in 1..(Len(ids) - 1) : i + 1 \in 1..Len(ids)
  BY <1>1
<1>4. Len(ids) - 1 \in Nat /\ \A i \in 1..(Len(ids) - 1) : todo[i] = ids[i + 1].f /\ ids[i + 1].f \in Futures
  BY <1>1, <1>2, <1>3
<1>5. todo \in Seq(Futures) /\ Len(todo) = Len(ids) - 1
  BY <1>4
<1>6. ASSUME NEW f PROVE f \in Listed <=> f = Head(ids).f \/ f \in Elements(todo)
  <2>1. ASSUME f \in Listed PROVE f = Head(ids).f \/ f \in Elements(todo)
    <3>1. PICK i \in 1..Len(ids) : f = ids[i].f
      BY <2>1, Zenon DEF Listed
    <3>2. i # 1 => i - 1 \in 1..Len(todo) /\ (i - 1) + 1 = i
      BY <1>1, <1>5
    <3>3. i # 1 => f = todo[i - 1]
      BY <1>4, <1>5, <3>1, <3>2
    <3> QED
      BY <1>1, <3>1, <3>2, <3>3, Zenon DEF Elements
  <2>2. ASSUME f \in Elements(todo) PROVE f \in Listed
    <3>1. PICK i \in 1..Len(todo) : f = todo[i]
      BY <2>2, Zenon DEF Elements
    <3>2. i + 1 \in 1..Len(ids) /\ f = ids[i + 1].f
      BY <1>3, <1>4, <1>5, <3>1
    <3> QED
      BY <3>2, Zenon DEF Listed
  <2>3. Head(ids).f \in Listed
    BY <1>1, <1>3, Zenon DEF Listed
  <2> QED
    BY <2>1, <2>2, <2>3, Zenon
<1> QED
  BY <1>1, <1>2, <1>3, <1>5, <1>6, Zenon

\* Where shutdown-executor! leads.
LEMMA ShutdownAt ==
  ASSUME Inv, NEW c \in Clients, Shutdown(c)
  PROVE  /\ Proceeds(c) /\ cpc'[c] # "push" /\ Got(c)'
         /\ \A f \in Listed : state[f] = "created" => ToCancel(c, f)'
<1>1. Base /\ Fields /\ ids \in Seq(Entries) /\ cpc[c] = "idle"
  BY DEF Inv, Base, Fields, Shutdown
<1>2. CASE ids = <<>> /\ UNCHANGED <<cpc, reg>>
  <2>1. Listed = {}
    BY <1>2 DEF Listed
  <2>2. At(c, "idle", reg[c])
    BY <1>1, <1>2, Zenon DEF At, Fields
  <2> QED
    BY <1>1, <2>1, <2>2, ProceedsOutside, NotGetting DEF At, ExecutePlaces
<1>3. CASE ids # <<>>
  <2> DEFINE todo == [i \in 1..(Len(ids) - 1) |-> ids[i + 1].f]
             r == [NoReg EXCEPT !.f = Head(ids).f, !.todo = todo]
  <2>1. Head(ids).f \in Futures /\ todo \in Seq(Futures) /\ Listed = {Head(ids).f} \cup Elements(todo)
    BY <1>1, <1>3, AllAreCancelled, Zenon
  <2>2. CancelTest(c, r)
    BY <1>3, Zenon DEF Shutdown
  <2> HIDE DEF todo
  <2>3. r \in Registers /\ r.f = Head(ids).f /\ r.todo = todo
    BY <2>1, NoRegType DEF Registers, NoReg
  <2> HIDE DEF r
  <2>4. PICK q \in {"ccall", "cset"} : At(c, q, r) /\ (state[r.f] # "done" => q = "cset")
    BY <1>1, <2>2, <2>3, CancelTestAt, Zenon
  <2>5. q \in CancelPlaces /\ q \notin ExecutePlaces /\ q # "push" /\ cpc'[c] = q /\ reg'[c] = r
    BY <2>4 DEF CancelPlaces, ExecutePlaces, At
  <2>6. Got(c)'
    BY <2>5, NotGetting
  <2>7. Proceeds(c)
    BY <1>1, <2>1, <2>3, <2>4, <2>5, ProceedsOutside
  <2>8. ASSUME NEW f \in Listed, state[f] = "created" PROVE ToCancel(c, f)'
    <3>1. f = r.f \/ f \in Elements(r.todo)
      BY <2>1, <2>3, Zenon
    <3>2. f = r.f => q = "cset"
      BY <2>4, <2>8
    <3> QED
      BY <2>5, <3>1, <3>2, Zenon DEF ToCancel
  <2> QED
    BY <2>5, <2>6, <2>7, <2>8, Zenon
<1> QED
  BY <1>2, <1>3, Zenon DEF Shutdown

LEMMA ShutdownKeeps == ASSUME Inv, NEW c \in Clients, Shutdown(c) PROVE Inv'
<1>1. /\ Base /\ Fields /\ cpc[c] = "idle" /\ lock = NoThread /\ ~Forks /\ estate' = "shutdown" /\ Kill(Ids)
      /\ ids' = <<>> /\ UNCHANGED <<futures, tval, handler, lock>>
  BY DEF Inv, Base, Shutdown
<1>2. /\ Proceeds(c) /\ cpc'[c] # "push" /\ Got(c)'
      /\ \A f \in Listed : state[f] = "created" => ToCancel(c, f)'
  BY ShutdownAt, Zenon
<1>3. Spares /\ \A id \in Ids : \A f \in Elements(work[id]) : tpc'[f] = "killed"
  <2>1. Ids \in SUBSET Ids
    OBVIOUS
  <2> QED
    BY <1>1, <2>1, KillSpares, Zenon
<1>4. FutureFields /\ Shrinks
  <2>1. Listed' = {} /\ Len(ids') = 0 /\ ids' \in Seq(Entries)
    BY <1>1 DEF Listed
  <2>2. Len(ids) \in Nat
    BY <1>1, ListedFutures DEF Fields
  <2>3. Len(ids') <= Len(ids)
    BY <2>1, <2>2
  <2>4. FutureFields
    BY <1>1, FutureFieldsStay, Zenon
  <2> QED
    BY <2>1, <2>3, <2>4, Zenon DEF Shrinks
<1>5. Base'
  <2>1. estate' \in {"running", "shutdown"}
    BY <1>1
  <2> QED
    BY <1>1, <1>2, <1>3, <1>4, <2>1, BaseProceeds, Zenon
<1>6. \A d \in Clients : cpc[d] # "added"
  BY <1>1, NoThreadAssumption DEF Base, Locked
<1>7. ASSUME handler # "terminate", NEW f \in Futures, tpc[f] \in {"start", "run", "flag", "clean"}, state[f] = "created"
      PROVE  f \in Listed
  BY <1>1, <1>6, <1>7, Zenon DEF Inv, Survivors, Known
<1>8. Known'
  <2>1. ASSUME NEW f \in Futures, tpc'[f] \in {"start", "run", "flag", "clean"} PROVE FALSE
    <3>1. tpc'[f] # "killed"
      BY <2>1
    <3>2. tpc'[f] = tpc[f]
      BY <1>3, <3>1, Zenon DEF Spares
    <3>3. InHands(f)
      BY <1>1, <2>1, <3>2 DEF Base, Owned
    <3> QED
      BY <1>3, <3>1, <3>3, Zenon DEF InHands
  <2> QED
    BY <2>1, Zenon DEF Known
<1>9. Doomed'
  <2>1. ASSUME NEW f \in Futures, tpc'[f] \in {"put", "over"} PROVE state'[f] # "created"
    <3>1. tpc'[f] = tpc[f]
      BY <1>3, <2>1 DEF Spares
    <3> QED
      BY <1>1, <2>1, <3>1, Zenon DEF Inv, Survivors, Doomed, futures
  <2>2. ASSUME handler # "terminate", NEW f \in Futures, tpc'[f] = "killed", state[f] = "created"
        PROVE  \E d \in Clients : ToCancel(d, f)'
    <3>1. CASE tpc[f] = "killed"
      <4>1. PICK d \in Clients : ToCancel(d, f)
        BY <2>2, <3>1, Zenon DEF Inv, Survivors, Doomed
      <4>2. d # c
        BY <1>1, <4>1, NotCancelling DEF CancelPlaces
      <4> QED
        BY <1>2, <4>1, <4>2, ToCancelStays, Zenon
    <3>2. CASE tpc[f] # "killed"
      <4>1. tpc[f] # "none" /\ tpc[f] \notin {"put", "over"}
        BY <1>3, <2>2, <3>2 DEF Inv, Survivors, Doomed, Spares
      <4>2. tpc[f] \in {"start", "run", "flag", "clean"}
        BY <1>1, <3>2, <4>1 DEF Fields
      <4> QED
        BY <1>2, <1>7, <2>2, <4>2, Zenon
    <3> QED
      BY <3>1, <3>2
  <2> QED
    BY <1>1, <2>1, <2>2, Zenon DEF Doomed, futures
<1>10. Tells(c)
  BY <1>1, <1>2, <1>3, Zenon DEF Tells, Spares, futures
<1>11. Outcomes'
  BY <1>2, <1>10, OutcomesProceed, Zenon DEF Inv
<1> QED
  BY <1>5, <1>8, <1>9, <1>11, Zenon DEF Inv, Survivors

(***************************************************************************)
(* A future is executed.                                                   *)
(***************************************************************************)
\* Future f gets a box and its task begins.
Starts(f) ==
  /\ tpc[f] = "none" /\ estate = "running"
  /\ tpc' = [tpc EXCEPT ![f] = "start"]
  /\ result' = [result EXCEPT ![f] = "box"]
  /\ UNCHANGED <<state, canceller, box, tval, ids, estate, handler>>

LEMMA StartsOne ==
  ASSUME Base, NEW f \in Futures, Starts(f)
  PROVE  /\ tpc'[f] = "start" /\ \A g \in Futures \ {f} : tpc'[g] = tpc[g]
         /\ tpc' \in [Futures -> {"none", "start", "run", "flag", "clean", "put", "over", "killed"}]
         /\ result'[f] = "box" /\ \A g \in Futures \ {f} : result'[g] = result[g]
         /\ result' \in [Futures -> {"not-started", "box", "timeout"} \cup Values]
         /\ FutureFields /\ Shrinks /\ Listed' = Listed /\ f \notin Listed
<1>1. /\ Fields /\ tpc' = [tpc EXCEPT ![f] = "start"] /\ result' = [result EXCEPT ![f] = "box"]
      /\ ids' = ids /\ UNCHANGED <<state, canceller, box, tval>>
  BY Zenon DEF Base, Starts
<1>2. /\ tpc'[f] = "start" /\ \A g \in Futures \ {f} : tpc'[g] = tpc[g]
      /\ tpc' \in [Futures -> {"none", "start", "run", "flag", "clean", "put", "over", "killed"}]
  BY <1>1 DEF Fields
<1>3. /\ result'[f] = "box" /\ \A g \in Futures \ {f} : result'[g] = result[g]
      /\ result' \in [Futures -> {"not-started", "box", "timeout"} \cup Values]
  BY <1>1 DEF Fields
<1>4. Shrinks /\ Listed' = Listed
  BY <1>1, ShrinksStay, Zenon DEF Listed
<1>5. FutureFields
  <2>1. Fields /\ UNCHANGED <<state, canceller, box, tval>>
    BY <1>1, Zenon
  <2> QED
    BY <1>3, <2>1, Zenon DEF Fields, FutureFields
<1>6. f \notin Listed
  BY DEF Base, Listing, Starts
<1> QED
  BY <1>2, <1>3, <1>4, <1>5, <1>6, Zenon

LEMMA OutcomesStart ==
  ASSUME Base, Outcomes, NEW f \in Futures, Starts(f),
         \A d \in Clients : (cpc'[d] = cpc[d] /\ reg'[d] = reg[d]) \/ cpc'[d] = "added"
  PROVE  Outcomes'
<1>1. /\ tpc'[f] = "start" /\ \A g \in Futures \ {f} : tpc'[g] = tpc[g]
      /\ result'[f] = "box" /\ \A g \in Futures \ {f} : result'[g] = result[g]
  BY StartsOne, Zenon
<1>2. tpc[f] = "none" /\ estate = "running" /\ UNCHANGED <<state, canceller, box, tval, estate, handler>>
  BY Zenon DEF Starts
<1>3. \A g \in Futures : tpc[g] = "none" => result[g] = "not-started"
  BY <1>2, Zenon DEF Outcomes, Results
<1>4. Holds
  <2>1. ASSUME NEW g \in Futures, tpc[g] \in {"over", "killed"}
        PROVE  tval'[g] = tval[g] /\ tpc'[g] \in {"over", "killed"}
    <3>1. g # f
      BY <1>2, <2>1
    <3> QED
      BY <1>1, <1>2, <2>1, <3>1, Zenon
  <2>2. "box" # "not-started"
    OBVIOUS
  <2>3. ASSUME NEW g \in Futures
        PROVE  /\ result[g] # "not-started" => result'[g] # "not-started"
               /\ result[g] \notin {"not-started", "box"} => result'[g] \notin {"not-started", "box"}
    BY <1>1, <1>2, <1>3, <2>2, Zenon
  <2> QED
    BY <1>2, <2>1, <2>3, Zenon DEF Holds
<1>5. Flagged'
  <2>1. ASSUME NEW g \in Futures PROVE Flags(g)'
    <3>1. Flags(g)
      BY Zenon DEF Outcomes, Flagged
    <3>2. CASE g = f
      BY <1>1, <1>2, <3>1, <3>2 DEF Flags, Forks
    <3>3. CASE g # f
      BY <1>1, <1>2, <3>1, <3>3, Zenon DEF Flags, Forks
    <3> QED
      BY <3>2, <3>3
  <2> QED
    BY <2>1, Zenon DEF Flagged
<1>6. Boxes'
  <2> SUFFICES ASSUME NEW g \in Futures, box[g] # Empty PROVE Settled(g, box[g])'
    BY <1>2, Zenon DEF Boxes
  <2>1. Settled(g, box[g]) /\ box' = box
    BY <1>2, Zenon DEF Outcomes, Boxes
  <2> QED
    BY <1>4, <2>1, Zenon DEF Settled, Holds
<1>7. Results'
  <2> SUFFICES ASSUME NEW g \in Futures
               PROVE  /\ result'[g] \notin {"not-started", "box"} => Outcome(g, result[g])'
                      /\ state[g] = "done" => result'[g] \notin {"not-started", "box"}
                      /\ tpc'[g] = "none" => result'[g] = "not-started"
    BY <1>2, Zenon DEF Results
  <2>1. Results
    BY Zenon DEF Outcomes
  <2>2. CASE g = f
    BY <1>1, <1>2, <1>3, <2>1, <2>2 DEF Results
  <2>3. CASE g # f
    <3>1. result'[g] = result[g] /\ tpc'[g] = tpc[g]
      BY <1>1, <2>3, Zenon
    <3>2. result[g] \notin {"not-started", "box"} => Outcome(g, result[g])
      BY <2>1, Zenon DEF Results
    <3>3. Outcome(g, result[g]) => Outcome(g, result[g])'
      BY <1>2, <3>1, Zenon DEF Outcome, Settled
    <3> QED
      BY <1>3, <2>1, <3>1, <3>2, <3>3, Zenon DEF Results
  <2> QED
    BY <2>2, <2>3
<1>8. Gets'
  <2> SUFFICES ASSUME NEW d \in Clients PROVE Got(d)'
    BY Zenon DEF Gets
  <2>1. CASE cpc'[d] = cpc[d] /\ reg'[d] = reg[d]
    BY <1>4, <2>1, GotStays, Zenon DEF Outcomes, Gets
  <2>2. CASE cpc'[d] = "added"
    BY <2>2, NotGetting
  <2> QED
    BY <2>1, <2>2
<1> QED
  BY <1>5, <1>6, <1>7, <1>8, Zenon DEF Outcomes

LEMMA ForkKeeps == ASSUME Inv, NEW c \in Clients, NEW f \in Futures, Fork(c, f) PROVE Inv'
<1>1. Base /\ Fields /\ Forks /\ UNCHANGED <<work, executor, cpc, reg>>
  BY Zenon DEF Inv, Base, Fork
<1>2. Starts(f)
  BY <1>1, Zenon DEF Fork, Starts, Unexecuted, Base, Handled, executor
<1>3. /\ tpc'[f] = "start" /\ \A g \in Futures \ {f} : tpc'[g] = tpc[g]
      /\ tpc' \in [Futures -> {"none", "start", "run", "flag", "clean", "put", "over", "killed"}]
      /\ FutureFields /\ Shrinks /\ Listed' = Listed /\ f \notin Listed
  BY <1>1, <1>2, StartsOne, Zenon
<1>4. Fields'
  <2>1. Fields /\ UNCHANGED <<work, ids, estate, handler, cpc, reg>>
    BY <1>1, Zenon DEF executor
  <2> QED
    BY <1>3, <2>1, Zenon DEF Fields, FutureFields
<1>5. Locked' /\ Handled'
  BY <1>1, Zenon DEF Base, Locked, Handled, Forks, executor
<1>6. \A d \in Clients : cpc[d] \notin ExecutePlaces /\ cpc[d] # "added"
  BY <1>1 DEF Base, Handled, ExecutePlaces
<1>7. Owned'
  <2>1. ASSUME NEW id \in Ids, NEW g \in Elements(work[id]) PROVE tpc'[g] # "none"
    <3>1. g \in Futures
      <4>1. work[id] \in Seq(Futures)
        BY <1>1, Zenon DEF Fields
      <4> QED
        BY <4>1, ElementsIn, Zenon
    <3>2. tpc[g] # "none"
      BY <1>1, Zenon DEF Base, Owned
    <3> QED
      BY <1>3, <3>1, <3>2, Zenon
  <2>2. Forks'
    BY <1>1, Zenon DEF Forks, executor
  <2> QED
    BY <1>1, <1>6, <2>1, <2>2, Zenon DEF Owned
<1>8. Listing'
  <2>1. ASSUME NEW g \in Listed PROVE FALSE
    BY <1>1, Zenon DEF Base, Listing
  <2> QED
    BY <1>1, <1>3, <1>6, <2>1, Zenon DEF Base, Listing, Forks, executor
<1>9. Survivors'
  <2>1. Known'
    BY <1>1, Zenon DEF Known, Forks, executor
  <2>2. state' = state /\ "start" \notin {"put", "over", "killed"}
    BY <1>2, Zenon DEF Starts
  <2>3. Doomed'
    BY <1>1, <1>3, <2>2, Zenon DEF Inv, Survivors, Doomed, ToCancel, executor
  <2> QED
    BY <2>1, <2>3, Zenon DEF Survivors
<1>10. Outcomes'
  BY <1>1, <1>2, OutcomesStart, Zenon DEF Inv
<1> QED
  BY <1>4, <1>5, <1>7, <1>8, <1>9, <1>10, Zenon DEF Inv, Base

\* Nobody is in the executor's mutex.
LEMMA NobodyAdds == ASSUME Base, lock = NoThread PROVE \A d \in Clients : cpc[d] # "added"
BY NoThreadAssumption DEF Base, Locked

LEMMA PushTaskKeeps ==
  ASSUME Inv, NEW c \in Clients, NEW f \in Futures, ~Forks, lock = NoThread, estate = "running",
         (cpc[c] = "idle" /\ Unexecuted(f)) \/ (cpc[c] \in {"execute", "push"} /\ reg[c].f = f),
         handler # "push" => HasRoom, PushTask(c, f),
         UNCHANGED <<state, canceller, box, tval, ids, estate, handler>>
  PROVE  Inv'
<1>1. Base /\ Fields /\ reg[c] \in Registers
  BY Zenon DEF Inv, Base, Fields
<1>2. /\ tpc[f] = "none"
      /\ \A d \in Clients \ {c} : cpc[d] \in ExecutePlaces => reg[d].f # f
      /\ cpc[c] \notin CancelPlaces
  <2>1. CASE cpc[c] = "idle" /\ Unexecuted(f)
    BY <2>1 DEF Unexecuted, CancelPlaces
  <2>2. CASE cpc[c] \in {"execute", "push"} /\ reg[c].f = f
    <3>1. cpc[c] \in ExecutePlaces \ {"added"} /\ cpc[c] \notin CancelPlaces
      BY <2>2 DEF ExecutePlaces, CancelPlaces
    <3> QED
      BY <1>1, <2>2, <3>1, Zenon DEF Base, Owned
  <2> QED
    BY <2>1, <2>2
<1>3. PICK id \in Ids : work' = [work EXCEPT ![id] = Append(@, f)] /\ reg' = [reg EXCEPT ![c].id = id, ![c].f = f]
  BY Zenon DEF PushTask
<1> DEFINE r == [reg[c] EXCEPT !.id = id, !.f = f]
<1>4. r \in Registers /\ r.f = f
  BY <1>1 DEF Registers
<1>5. At(c, "added", r)
  <2>1. reg' = [reg EXCEPT ![c] = r]
    BY <1>1, <1>3, Zenon DEF Fields
  <2>2. "added" \in ClientPlaces
    BY ExecutePlacesAre DEF ExecutePlaces
  <2> QED
    BY <1>1, <1>4, <2>1, <2>2, Arrives, Zenon DEF PushTask
<1> HIDE DEF r
<1>6. /\ cpc' \in [Clients -> ClientPlaces] /\ reg' \in [Clients -> Registers]
      /\ cpc'[c] = "added" /\ reg'[c].f = f
      /\ \A d \in Clients \ {c} : cpc'[d] = cpc[d] /\ reg'[d] = reg[d]
  BY <1>4, <1>5, Zenon DEF At
<1>7. Starts(f)
  BY <1>2, Zenon DEF Starts, PushTask
<1>8. /\ tpc'[f] = "start" /\ \A g \in Futures \ {f} : tpc'[g] = tpc[g]
      /\ tpc' \in [Futures -> {"none", "start", "run", "flag", "clean", "put", "over", "killed"}]
      /\ FutureFields /\ Listed' = Listed /\ f \notin Listed
  BY <1>1, <1>7, StartsOne, Zenon
<1>9. /\ work' \in [Ids -> Seq(Futures)]
      /\ \A i \in Ids : Elements(work'[i]) = Elements(work[i]) \cup (IF i = id THEN {f} ELSE {})
  <2>1. work \in [Ids -> Seq(Futures)]
    BY <1>1, Zenon DEF Fields
  <2>2. work[id] \in Seq(Futures)
    BY <2>1
  <2>3. Append(work[id], f) \in Seq(Futures) /\ Elements(Append(work[id], f)) = Elements(work[id]) \cup {f}
    BY <2>2, ElementsAppend
  <2>4. work' = [work EXCEPT ![id] = Append(work[id], f)]
    BY <1>3, <2>1, Zenon
  <2> HIDE <1>3
  <2>5. work'[id] = Append(work[id], f) /\ \A i \in Ids \ {id} : work'[i] = work[i]
    BY <2>1, <2>4, Zenon
  <2>6. work' \in [Ids -> Seq(Futures)]
    BY <2>1, <2>3, <2>4, Zenon
  <2>7. ASSUME NEW i \in Ids PROVE Elements(work'[i]) = Elements(work[i]) \cup (IF i = id THEN {f} ELSE {})
    BY <2>3, <2>5, Zenon
  <2> QED
    BY <2>6, <2>7, Zenon
<1>10. \A d \in Clients : cpc[d] # "added"
  BY <1>1, NobodyAdds, Zenon
<1>11. Fields'
  <2>1. ASSUME NEW d \in Clients, cpc'[d] # "idle" PROVE reg'[d].f \in Futures
    BY <1>1, <1>6, <2>1, Zenon DEF Fields
  <2>2. ids' \in Seq(Entries) /\ estate' \in {"running", "shutdown"} /\ handler' \in Handlers
    BY <1>1, Zenon DEF Fields
  <2> QED
    BY <1>6, <1>8, <1>9, <2>1, <2>2, Zenon DEF Fields, FutureFields
<1>12. Locked'
  <2>1. lock' = c
    BY Zenon DEF PushTask
  <2> QED
    BY <1>6, <1>10, <2>1, Zenon DEF Locked
<1>13. Handled'
  <2>1. "added" \notin {"push", "oldest", "kill", "oldclean"}
    OBVIOUS
  <2> QED
    BY <1>1, <1>6, <2>1, Zenon DEF Base, Handled, Forks
<1>14. Owned'
  <2>1. ASSUME NEW d \in Clients, cpc'[d] \in ExecutePlaces \ {"added"} PROVE tpc'[reg'[d].f] = "none"
    <3>1. d # c /\ cpc[d] = cpc'[d] /\ reg'[d] = reg[d]
      BY <1>6, <2>1, Zenon
    <3>2. reg[d].f # f /\ reg[d].f \in Futures /\ tpc[reg[d].f] = "none"
      BY <1>1, <1>2, <2>1, <3>1, Executing, Zenon DEF Base, Owned
    <3> QED
      BY <1>8, <3>1, <3>2, Zenon
  <2>2. ASSUME NEW d \in Clients, NEW e \in Clients, d # e, cpc'[d] \in ExecutePlaces, cpc'[e] \in ExecutePlaces
        PROVE  reg'[d].f # reg'[e].f
    <3>1. CASE d # c /\ e # c
      <4>1. /\ cpc[d] \in ExecutePlaces /\ cpc[e] \in ExecutePlaces
            /\ reg'[d].f = reg[d].f /\ reg'[e].f = reg[e].f
        BY <1>6, <2>2, <3>1, Zenon
      <4> QED
        BY <1>1, <2>2, <4>1, Zenon DEF Base, Owned
    <3>2. CASE d = c
      BY <1>2, <1>6, <2>2, <3>2, Zenon
    <3>3. CASE e = c
      BY <1>2, <1>6, <2>2, <3>3, Zenon
    <3> QED
      BY <3>1, <3>2, <3>3
  <2>3. ASSUME NEW i \in Ids, NEW g \in Elements(work'[i]) PROVE tpc'[g] # "none"
    <3>1. g \in Elements(work[i]) \/ g = f
      BY <1>9, Zenon
    <3>2. g \in Futures
      <4>1. work'[i] \in Seq(Futures)
        BY <1>9
      <4> QED
        BY <4>1, ElementsIn, Zenon
    <3>3. g # f => tpc[g] # "none"
      BY <1>1, <3>1, Zenon DEF Base, Owned
    <3> QED
      BY <1>8, <3>2, <3>3, Zenon
  <2>4. ASSUME NEW g \in Futures, tpc'[g] \in {"start", "run", "flag", "clean", "put"} PROVE InHands(g)'
    <3>1. CASE g = f
      BY <1>9, <3>1, Zenon DEF InHands
    <3>2. CASE g # f
      <4>1. InHands(g)
        BY <1>1, <1>8, <2>4, <3>2, Zenon DEF Base, Owned
      <4> QED
        BY <1>9, <4>1, Zenon DEF InHands
    <3> QED
      BY <3>1, <3>2
  <2> QED
    BY <2>1, <2>2, <2>3, <2>4, Zenon DEF Owned
<1>15. Listing'
  <2>1. Listed \subseteq Futures
    BY <1>1, ListedFutures DEF Fields
  <2>2. ASSUME NEW g \in Listed PROVE tpc'[g] = tpc[g]
    BY <1>8, <2>1, <2>2, Zenon
  <2>3. ASSUME NEW d \in Clients, cpc'[d] = "added"
        PROVE  tpc'[reg'[d].f] \in {"start", "run", "flag", "clean"} /\ (handler # "push" => Len(ids) < N)
    <3>1. d = c
      BY <1>6, <1>10, <2>3, Zenon
    <3>2. tpc'[reg'[d].f] = "start"
      BY <1>6, <1>8, <3>1, Zenon
    <3> QED
      BY <3>2 DEF HasRoom
  <2> QED
    BY <1>1, <1>8, <2>2, <2>3, Zenon DEF Base, Listing, Forks
<1>16. Survivors'
  <2>1. Known'
    <3>1. ASSUME handler # "terminate", NEW g \in Futures, tpc'[g] \in {"start", "run", "flag", "clean"}, state[g] = "created"
          PROVE  g \in Listed \/ \E d \in Clients : cpc'[d] = "added" /\ reg'[d].f = g
      <4>1. CASE g = f
        BY <1>6, <4>1, Zenon
      <4>2. CASE g # f
        BY <1>8, <1>10, <3>1, <4>2, Zenon DEF Inv, Survivors, Known
      <4> QED
        BY <4>1, <4>2
    <3> QED
      BY <1>8, <3>1, Zenon DEF Known
  <2>2. "start" \notin {"put", "over", "killed"}
    OBVIOUS
  <2>3. ASSUME NEW d \in Clients, NEW g, ToCancel(d, g) PROVE ToCancel(d, g)'
    <3>1. d # c
      BY <1>2, <2>3, NotCancelling
    <3> QED
      BY <1>6, <2>3, <3>1, Zenon DEF ToCancel
  <2>4. Doomed'
    BY <1>8, <2>2, <2>3, Zenon DEF Inv, Survivors, Doomed
  <2> QED
    BY <2>1, <2>4, Zenon DEF Survivors
<1>17. Outcomes'
  <2>1. \A d \in Clients : (cpc'[d] = cpc[d] /\ reg'[d] = reg[d]) \/ cpc'[d] = "added"
    BY <1>6, Zenon
  <2> QED
    BY <1>1, <1>7, <2>1, OutcomesStart, Zenon DEF Inv
<1> QED
  BY <1>11, <1>12, <1>13, <1>14, <1>15, <1>16, <1>17, Zenon DEF Inv, Base

LEMMA ExecuteKeeps == ASSUME Inv, NEW c \in Clients, NEW f \in Futures, Execute(c, f) PROVE Inv'
<1>1. /\ ~Forks /\ lock = NoThread
      /\ (cpc[c] = "idle" /\ Unexecuted(f)) \/ (cpc[c] = "execute" /\ reg[c].f = f)
  BY Zenon DEF Execute
<1>2. CASE /\ HasRoom /\ estate = "running" /\ PushTask(c, f)
           /\ UNCHANGED <<state, canceller, box, tval, ids, estate, handler>>
  <2>1. (cpc[c] = "idle" /\ Unexecuted(f)) \/ (cpc[c] \in {"execute", "push"} /\ reg[c].f = f)
    BY <1>1, Zenon
  <2> QED
    BY <1>1, <1>2, <2>1, PushTaskKeeps, Zenon
<1>3. CASE Go(c, "reject") /\ reg' = [reg EXCEPT ![c].f = f] /\ UNCHANGED <<futures, tasks, executor>>
  BY <1>1, <1>3, RejectedKeeps, Zenon
<1> QED
  BY <1>2, <1>3, Zenon DEF Execute

LEMMA PushFutureKeeps == ASSUME Inv, NEW c \in Clients, PushFuture(c) PROVE Inv'
<1>1. /\ Base /\ cpc[c] = "push" /\ lock = NoThread /\ cpc[c] \in ExecutePlaces
      /\ cpc[c] \in {"execute", "push"}
  BY DEF Inv, PushFuture, ExecutePlaces
<1>2. reg[c].f \in Futures /\ ~Forks /\ handler = "push"
  BY <1>1, Executing, Zenon DEF Base, Handled
<1>3. CASE /\ estate = "running" /\ PushTask(c, reg[c].f)
           /\ UNCHANGED <<state, canceller, box, tval, ids, estate, handler>>
  BY <1>1, <1>2, <1>3, PushTaskKeeps, Zenon
<1>4. CASE /\ estate # "running" /\ result' = [result EXCEPT ![reg[c].f] = "box"] /\ Leave(c)
           /\ UNCHANGED <<state, canceller, box, tasks, executor>>
  BY <1>1, <1>4, PushFailsKeeps, Zenon
<1> QED
  BY <1>3, <1>4, Zenon DEF PushFuture

LEMMA AddedKeeps == ASSUME Inv, NEW c \in Clients, Added(c) PROVE Inv'
<1> DEFINE f == reg[c].f
           e == [id |-> reg[c].id, f |-> reg[c].f]
<1>1. /\ Base /\ Fields /\ cpc[c] = "added" /\ cpc[c] \in ExecutePlaces /\ cpc[c] \notin CancelPlaces
      /\ canceller' = [canceller EXCEPT ![f] = "procedure"] /\ ids' = Append(ids, e) /\ lock' = NoThread /\ Leave(c)
      /\ UNCHANGED <<state, result, box, tpc, tval, work, estate, handler>>
  BY DEF Inv, Base, Added, ExecutePlaces, CancelPlaces, tasks
<1>2. f \in Futures /\ reg[c] \in Registers /\ ~Forks
  BY <1>1, Executing, Zenon DEF Base, Handled
<1>3. e \in Entries /\ e.f = f
  BY <1>2 DEF Entries, Registers
<1>4. ids' \in Seq(Entries) /\ Len(ids') = Len(ids) + 1 /\ Listed' = Listed \cup {f}
  <2> HIDE DEF e
  <2>1. ids \in Seq(Entries)
    BY <1>1, Zenon DEF Fields
  <2> QED
    BY <1>1, <1>3, <2>1, AppendLists, Zenon
<1> HIDE DEF e
<1>5. At(c, "idle", NoReg)
  BY <1>1, Leaves, Zenon
<1>6. /\ cpc' \in [Clients -> ClientPlaces] /\ reg' \in [Clients -> Registers] /\ cpc'[c] = "idle"
      /\ \A d \in Clients \ {c} : cpc'[d] = cpc[d] /\ reg'[d] = reg[d]
  BY <1>5, Zenon DEF At
<1>7. /\ canceller'[f] = "procedure" /\ \A g \in Futures \ {f} : canceller'[g] = canceller[g]
      /\ canceller' \in [Futures -> {"none", "flag", "procedure"}]
  <2>1. canceller \in [Futures -> {"none", "flag", "procedure"}] /\ canceller' = [canceller EXCEPT ![f] = "procedure"]
    BY <1>1, Zenon DEF Fields
  <2> QED
    BY <1>2, <2>1
<1>8. \A d \in Clients \ {c} : cpc[d] # "added"
  BY <1>1, Zenon DEF Base, Locked
<1>9. "idle" \notin ExecutePlaces \cup {"added", "push", "oldest", "kill", "oldclean"}
  BY DEF ExecutePlaces
<1>10. Fields'
  <2>1. ASSUME NEW d \in Clients, cpc'[d] # "idle" PROVE reg'[d].f \in Futures
    BY <1>1, <1>6, <2>1, Zenon DEF Fields
  <2>2. Fields /\ UNCHANGED <<state, result, box, tpc, tval, work, estate, handler>>
    BY <1>1, Zenon
  <2>3. /\ state' \in [Futures -> {"created", "finished", "done", "terminated"}]
        /\ result' \in [Futures -> {"not-started", "box", "timeout"} \cup Values]
        /\ box' \in [Futures -> Values \cup {Empty}]
        /\ tpc' \in [Futures -> {"none", "start", "run", "flag", "clean", "put", "over", "killed"}]
        /\ tval' \in [Futures -> Values \cup {Empty}]
        /\ work' \in [Ids -> Seq(Futures)]
        /\ estate' \in {"running", "shutdown"} /\ handler' \in Handlers
    BY <2>2, Zenon DEF Fields
  <2> QED
    BY <1>4, <1>6, <1>7, <2>1, <2>3, Zenon DEF Fields
<1>11. Locked'
  BY <1>1, <1>6, <1>8, <1>9, NoThreadAssumption DEF Locked
<1>12. Handled'
  BY <1>1, <1>6, <1>9, Zenon DEF Base, Handled, Forks
<1>13. Owned'
  <2>1. ASSUME NEW d \in Clients, cpc'[d] \in ExecutePlaces PROVE d # c /\ cpc'[d] = cpc[d] /\ reg'[d] = reg[d]
    BY <1>6, <1>9, <2>1, Zenon
  <2>2. ASSUME NEW d \in Clients, cpc'[d] \in ExecutePlaces \ {"added"} PROVE tpc'[reg'[d].f] = "none"
    BY <1>1, <2>1, <2>2, Zenon DEF Base, Owned
  <2>3. ASSUME NEW a \in Clients, NEW d \in Clients, a # d, cpc'[a] \in ExecutePlaces, cpc'[d] \in ExecutePlaces
        PROVE  reg'[a].f # reg'[d].f
    <3>1. /\ cpc[a] \in ExecutePlaces /\ cpc[d] \in ExecutePlaces
          /\ reg'[a].f = reg[a].f /\ reg'[d].f = reg[d].f
      BY <2>1, <2>3, Zenon
    <3> QED
      BY <1>1, <2>3, <3>1, Zenon DEF Base, Owned
  <2> QED
    BY <1>1, <2>2, <2>3, Zenon DEF Base, Owned, Forks, InHands
<1>14. Listing'
  <2>1. tpc[f] \in {"start", "run", "flag", "clean"} /\ (handler # "push" => Len(ids) < N)
    BY <1>1, Zenon DEF Base, Listing
  <2>2. ASSUME NEW g \in Listed' PROVE tpc'[g] \in {"start", "run", "flag", "clean", "killed"}
    BY <1>1, <1>4, <2>1, Zenon DEF Base, Listing
  <2>3. handler' # "push" => Len(ids') <= N
    <3>1. Len(ids) \in Nat
      BY <1>1, ListedFutures DEF Fields
    <3> QED
      BY <1>1, <1>4, <2>1, <3>1, SizeAssumption
  <2>4. \A d \in Clients : cpc'[d] # "added"
    BY <1>6, <1>8, <1>9, Zenon
  <2> QED
    BY <1>1, <1>2, <2>2, <2>3, <2>4, Zenon DEF Listing, Forks
<1>15. Survivors'
  <2>1. Known'
    <3>1. ASSUME handler # "terminate", NEW g \in Futures, tpc[g] \in {"start", "run", "flag", "clean"}, state[g] = "created"
          PROVE  g \in Listed'
      <4>1. g \in Listed \/ \E d \in Clients : cpc[d] = "added" /\ reg[d].f = g
        BY <1>2, <3>1, Zenon DEF Inv, Survivors, Known
      <4> QED
        BY <1>4, <1>8, <4>1, Zenon
    <3> QED
      BY <1>1, <3>1, Zenon DEF Known
  <2>2. ASSUME NEW d \in Clients, NEW g, ToCancel(d, g) PROVE ToCancel(d, g)'
    <3>1. d # c
      BY <1>1, <2>2, NotCancelling
    <3> QED
      BY <1>6, <2>2, <3>1, Zenon DEF ToCancel
  <2>3. Doomed'
    BY <1>1, <2>2, Zenon DEF Inv, Survivors, Doomed
  <2> QED
    BY <2>1, <2>3, Zenon DEF Survivors
<1>16. Holds
  BY <1>1, Zenon DEF Holds
<1>17. Flagged'
  <2>1. "procedure" # "flag"
    OBVIOUS
  <2>2. ASSUME NEW g \in Futures PROVE Flags(g)'
    <3>1. Flags(g)
      BY Zenon DEF Inv, Outcomes, Flagged
    <3>2. canceller'[g] = "flag" => canceller[g] = "flag"
      BY <1>7, <2>1, Zenon
    <3> QED
      BY <1>1, <1>2, <3>1, <3>2, Zenon DEF Flags, Forks
  <2> QED
    BY <2>2, Zenon DEF Flagged
<1>18. Boxes' /\ Results'
  <2>1. \A d \in Clients : cpc'[d] = "push" => cpc[d] = "push" /\ reg'[d] = reg[d]
    BY <1>6, <1>9, Zenon
  <2>2. Boxes'
    BY <1>1, Zenon DEF Inv, Outcomes, Boxes, Settled
  <2>3. Results'
    <3> SUFFICES ASSUME NEW g \in Futures
                 PROVE  /\ result[g] \notin {"not-started", "box"} => Outcome(g, result[g])'
                        /\ state[g] = "done" => result[g] \notin {"not-started", "box"}
                        /\ tpc[g] = "none" => \/ result[g] = "not-started"
                                              \/ /\ estate # "running"
                                                 /\ \A d \in Clients : cpc'[d] = "push" => reg'[d].f # g
      BY <1>1, Zenon DEF Results
    <3>1. Results
      BY Zenon DEF Inv, Outcomes
    <3>2. Outcome(g, result[g]) => Outcome(g, result[g])'
      BY <1>1, Zenon DEF Outcome, Settled
    <3> QED
      BY <2>1, <3>1, <3>2, Zenon DEF Results
  <2> QED
    BY <2>2, <2>3
<1>19. Gets'
  <2> SUFFICES ASSUME NEW d \in Clients PROVE Got(d)'
    BY Zenon DEF Gets
  <2>1. CASE d = c
    BY <1>6, <2>1, NotGetting
  <2>2. CASE d # c
    BY <1>1, <1>6, <1>16, <2>2, GotStays, Zenon DEF Inv, Outcomes, Gets
  <2> QED
    BY <2>1, <2>2
<1> QED
  BY <1>10, <1>11, <1>12, <1>13, <1>14, <1>15, <1>17, <1>18, <1>19, Zenon DEF Inv, Base, Outcomes

(***************************************************************************)
(* The steps of the tasks keep the invariant.                              *)
(***************************************************************************)
Active == {"start", "run", "flag", "clean", "put"}

\* The task of f gets to the place p, and who waits for its box may look again.
Moves(f, p) ==
  /\ tpc[f] \in Active /\ p \in {"run", "flag", "clean", "put", "over"} /\ tpc' = [tpc EXCEPT ![f] = p]
  /\ cpc' \in [Clients -> ClientPlaces] /\ reg' = reg
  /\ \A d \in Clients : cpc'[d] = cpc[d] \/ (cpc[d] = "boxwait" /\ cpc'[d] = "box")
  /\ UNCHANGED <<result, estate, handler, lock>>

LEMMA MovesOne ==
  ASSUME Base, NEW f \in Futures, NEW p, Moves(f, p)
  PROVE  /\ tpc'[f] = p /\ \A g \in Futures \ {f} : tpc'[g] = tpc[g]
         /\ tpc' \in [Futures -> {"none", "start", "run", "flag", "clean", "put", "over", "killed"}]
         /\ p \in {"run", "flag", "clean", "put", "over"} /\ tpc[f] \in Active
<1>1. /\ tpc \in [Futures -> {"none", "start", "run", "flag", "clean", "put", "over", "killed"}]
      /\ tpc' = [tpc EXCEPT ![f] = p] /\ p \in {"run", "flag", "clean", "put", "over"} /\ tpc[f] \in Active
  BY Zenon DEF Base, Fields, Moves
<1> QED
  BY <1>1

\* Clients outside the box are where they were.
LEMMA MovesClients ==
  ASSUME NEW f, NEW p, Moves(f, p), NEW d \in Clients
  PROVE  /\ \A q \in ExecutePlaces \cup CancelPlaces \cup {"idle", "added", "push"} : cpc'[d] = q <=> cpc[d] = q
         /\ cpc'[d] \in ExecutePlaces <=> cpc[d] \in ExecutePlaces
         /\ cpc'[d] \in CancelPlaces <=> cpc[d] \in CancelPlaces
<1>1. {"box", "boxwait"} \cap (ExecutePlaces \cup CancelPlaces \cup {"idle", "added", "push"}) = {}
  BY DEF ExecutePlaces, CancelPlaces
<1>2. cpc'[d] = cpc[d] \/ (cpc[d] = "boxwait" /\ cpc'[d] = "box")
  BY Zenon DEF Moves
<1> QED
  BY <1>1, <1>2

LEMMA BaseMoves ==
  ASSUME Base, NEW f \in Futures, NEW p, Moves(f, p), FutureFields, Shrinks,
         work' \in [Ids -> Seq(Futures)], \A id \in Ids : Elements(work'[id]) \subseteq Elements(work[id]),
         \A g \in Futures : InHands(g) => InHands(g)' \/ (g = f /\ p = "over"),
         p \in {"put", "over"} => f \notin Listed' /\ \A d \in Clients : cpc[d] = "added" => reg[d].f # f
  PROVE  Base'
<1>1. /\ tpc'[f] = p /\ \A g \in Futures \ {f} : tpc'[g] = tpc[g]
      /\ tpc' \in [Futures -> {"none", "start", "run", "flag", "clean", "put", "over", "killed"}]
      /\ p \in {"run", "flag", "clean", "put", "over"} /\ tpc[f] \in Active
  BY MovesOne, Zenon
<1>2. \A d \in Clients : /\ cpc'[d] \in ExecutePlaces <=> cpc[d] \in ExecutePlaces
                         /\ \A q \in ExecutePlaces \cup CancelPlaces \cup {"idle", "added", "push"} : cpc'[d] = q <=> cpc[d] = q
  BY MovesClients, Zenon
<1>3. reg' = reg /\ UNCHANGED <<estate, handler, lock>> /\ cpc' \in [Clients -> ClientPlaces]
  BY Zenon DEF Moves
<1>4. {"push", "oldest", "kill", "oldclean", "added"} \subseteq ExecutePlaces
  BY DEF ExecutePlaces
<1>5. tpc[f] # "none" /\ p # "none"
  BY <1>1 DEF Active
<1>6. Fields'
  <2>1. ASSUME NEW d \in Clients, cpc'[d] # "idle" PROVE reg'[d].f \in Futures
    BY <1>2, <1>3, <2>1, Zenon DEF Base, Fields
  <2>2. handler' \in Handlers /\ estate' \in {"running", "shutdown"} /\ reg' \in [Clients -> Registers]
    BY <1>3, Zenon DEF Base, Fields
  <2> QED
    BY <1>1, <1>3, <2>1, <2>2, Zenon DEF Fields, FutureFields, Shrinks
<1>7. Locked'
  BY <1>2, <1>3, <1>4, Zenon DEF Base, Locked
<1>8. Handled'
  <2> SUFFICES ASSUME NEW d \in Clients
               PROVE  /\ cpc'[d] \in ExecutePlaces => ~Forks
                      /\ cpc'[d] = "push" => handler = "push"
                      /\ cpc'[d] \in {"oldest", "kill", "oldclean"} => handler = "terminate"
    BY <1>3, Zenon DEF Base, Handled, Forks
  <2> QED
    BY <1>2, <1>4, Zenon DEF Base, Handled
<1>9. Owned'
  <2>1. ASSUME NEW d \in Clients, cpc'[d] \in ExecutePlaces \ {"added"} PROVE tpc'[reg'[d].f] = "none"
    <3>1. cpc[d] \in ExecutePlaces \ {"added"}
      BY <1>2, <1>4, <2>1, Zenon
    <3>2. tpc[reg[d].f] = "none" /\ reg[d].f \in Futures
      BY <3>1, Executing, Zenon DEF Base, Owned
    <3> QED
      BY <1>1, <1>3, <1>5, <3>2, Zenon
  <2>2. ASSUME NEW a \in Clients, NEW d \in Clients, a # d, cpc'[a] \in ExecutePlaces, cpc'[d] \in ExecutePlaces
        PROVE  reg'[a].f # reg'[d].f
    <3>1. cpc[a] \in ExecutePlaces /\ cpc[d] \in ExecutePlaces
      BY <1>2, <2>2, Zenon
    <3> QED
      BY <1>3, <2>2, <3>1, Zenon DEF Base, Owned
  <2>3. ASSUME NEW id \in Ids, NEW g \in Elements(work'[id]) PROVE tpc'[g] # "none"
    <3>1. g \in Elements(work[id]) /\ g \in Futures
      <4>1. work'[id] \in Seq(Futures)
        OBVIOUS
      <4>2. g \in Futures
        BY <4>1, ElementsIn, Zenon
      <4> QED
        BY <4>2, Zenon
    <3> QED
      BY <1>1, <1>5, <3>1, Zenon DEF Base, Owned
  <2>4. ASSUME ~Forks, NEW g \in Futures, tpc'[g] \in {"start", "run", "flag", "clean", "put"} PROVE InHands(g)'
    <3>1. tpc[g] \in {"start", "run", "flag", "clean", "put"} /\ ~(g = f /\ p = "over")
      <4>1. CASE g = f
        <5>1. p \in {"start", "run", "flag", "clean", "put"}
          BY <1>1, <2>4, <4>1, Zenon
        <5>2. p # "over"
          BY <5>1
        <5> QED
          BY <1>1, <4>1, <5>2, Zenon DEF Active
      <4>2. CASE g # f
        BY <1>1, <2>4, <4>2, Zenon
      <4> QED
        BY <4>1, <4>2
    <3>2. InHands(g)
      BY <2>4, <3>1, Zenon DEF Base, Owned
    <3> QED
      BY <3>1, <3>2, Zenon
  <2> QED
    BY <1>3, <2>1, <2>2, <2>3, <2>4, Zenon DEF Owned, Forks
<1>10. Listing'
  <2>1. Listed \subseteq Futures /\ Len(ids) \in Nat /\ Len(ids') \in Nat
    BY ListedFutures, Zenon DEF Base, Fields, Shrinks
  <2>2. ASSUME NEW g \in Listed' PROVE tpc'[g] \in {"start", "run", "flag", "clean", "killed"}
    <3>1. g \in Listed /\ g \in Futures
      BY <2>1, Zenon DEF Shrinks
    <3>2. CASE g # f
      BY <1>1, <3>1, <3>2, Zenon DEF Base, Listing
    <3>3. CASE g = f
      BY <1>1, <3>3
    <3> QED
      BY <3>2, <3>3
  <2>3. handler' # "push" => Len(ids') <= N
    <3>1. Len(ids') <= Len(ids) /\ handler' = handler
      BY <1>3, Zenon DEF Shrinks
    <3> QED
      BY <2>1, <3>1, StaysShort, Zenon DEF Base, Listing
  <2>4. ASSUME NEW d \in Clients, cpc'[d] = "added"
        PROVE  /\ tpc'[reg'[d].f] \in {"start", "run", "flag", "clean"}
               /\ handler' # "push" => Len(ids') < N
    <3>1. cpc[d] = "added" /\ reg'[d] = reg[d]
      BY <1>2, <1>3, <2>4, Zenon
    <3>2. cpc[d] \in ExecutePlaces
      BY <1>4, <3>1
    <3>3. reg[d].f \in Futures /\ tpc[reg[d].f] \in {"start", "run", "flag", "clean"}
      BY <3>1, <3>2, Executing, Zenon DEF Base, Listing
    <3>4. tpc'[reg'[d].f] \in {"start", "run", "flag", "clean"}
      <4>1. CASE reg[d].f # f
        BY <1>1, <3>1, <3>3, <4>1, Zenon
      <4>2. CASE reg[d].f = f
        BY <1>1, <3>1, <4>2
      <4> QED
        BY <4>1, <4>2
    <3>5. handler # "push" => Len(ids) < N
      BY <3>1, Zenon DEF Base, Listing
    <3>6. handler' # "push" => Len(ids') < N
      <4>1. Len(ids') <= Len(ids) /\ handler' = handler
        BY <1>3, Zenon DEF Shrinks
      <4> QED
        BY <2>1, <3>5, <4>1, StaysShort, Zenon
    <3> QED
      BY <3>4, <3>6, Zenon
  <2>5. Forks => Listed' = {}
    BY Zenon DEF Base, Listing, Shrinks
  <2> QED
    BY <1>3, <2>2, <2>3, <2>4, <2>5, Zenon DEF Listing, Forks
<1> QED
  BY <1>6, <1>7, <1>8, <1>9, <1>10, Zenon DEF Base

LEMMA SurvivorsMove ==
  ASSUME Base, Survivors, NEW f \in Futures, NEW p, Moves(f, p),
         \A g \in Futures \ {f} : state'[g] = state[g], state'[f] = "created" => state[f] = "created",
         p \in {"put", "over"} => state'[f] # "created",
         p \in {"run", "flag", "clean"} => tpc[f] \in {"start", "run", "flag"} \/ state'[f] # "created",
         \A g \in Listed : g \in Listed' \/ (g = f /\ p \in {"put", "over"})
  PROVE  Survivors'
<1>1. /\ tpc'[f] = p /\ \A g \in Futures \ {f} : tpc'[g] = tpc[g]
      /\ p \in {"run", "flag", "clean", "put", "over"} /\ tpc[f] \in Active
  BY MovesOne, Zenon
<1>2. reg' = reg /\ handler' = handler
  BY Zenon DEF Moves
<1>3. ASSUME NEW d \in Clients, cpc[d] = "added" PROVE cpc'[d] = "added"
  BY <1>3, MovesClients, Zenon
<1>4. ASSUME NEW d \in Clients, NEW g, ToCancel(d, g) PROVE ToCancel(d, g)'
  <2>1. "cset" \in CancelPlaces
    BY DEF CancelPlaces
  <2>2. (cpc[d] = "cset" => cpc'[d] = "cset") /\ (cpc[d] \in CancelPlaces => cpc'[d] \in CancelPlaces)
    BY <2>1, MovesClients, Zenon
  <2> QED
    BY <1>2, <1>4, <2>2, Zenon DEF ToCancel
<1>5. Known'
  <2> SUFFICES ASSUME ~Forks, handler # "terminate", NEW g \in Futures,
                      tpc'[g] \in {"start", "run", "flag", "clean"}, state'[g] = "created"
               PROVE  g \in Listed' \/ \E d \in Clients : cpc'[d] = "added" /\ reg'[d].f = g
    BY <1>2, Zenon DEF Known, Forks
  <2>1. ~(g = f /\ p \in {"put", "over"})
    BY <1>1
  <2>2. tpc[g] \in {"start", "run", "flag", "clean"} /\ state[g] = "created"
    <3>1. CASE g = f
      BY <1>1, <2>1, <3>1
    <3>2. CASE g # f
      BY <1>1, <3>2, Zenon
    <3> QED
      BY <3>1, <3>2
  <2>3. g \in Listed \/ \E d \in Clients : cpc[d] = "added" /\ reg[d].f = g
    BY <2>2, Zenon DEF Survivors, Known
  <2> QED
    BY <1>2, <1>3, <2>1, <2>3, Zenon
<1>6. Doomed'
  <2>1. ASSUME NEW g \in Futures, tpc'[g] \in {"put", "over"} PROVE state'[g] # "created"
    <3>1. CASE g = f
      BY <1>1, <2>1, <3>1, Zenon
    <3>2. CASE g # f
      BY <1>1, <2>1, <3>2, Zenon DEF Survivors, Doomed
    <3> QED
      BY <3>1, <3>2
  <2>2. ASSUME handler # "terminate", NEW g \in Futures, tpc'[g] = "killed", state'[g] = "created"
        PROVE  \E d \in Clients : ToCancel(d, g)'
    <3>1. g # f
      BY <1>1, <2>2
    <3>2. tpc[g] = "killed" /\ state[g] = "created"
      BY <1>1, <2>2, <3>1, Zenon
    <3>3. PICK d \in Clients : ToCancel(d, g)
      BY <2>2, <3>2, Zenon DEF Survivors, Doomed
    <3> QED
      BY <1>4, <3>3, Zenon
  <2> QED
    BY <1>2, <2>1, <2>2, Zenon DEF Doomed
<1> QED
  BY <1>5, <1>6, Zenon DEF Survivors

LEMMA OutcomesMove ==
  ASSUME Base, Outcomes, NEW f \in Futures, NEW p, Moves(f, p), Flags(f)',
         \A g \in Futures \ {f} : tval'[g] = tval[g] /\ canceller'[g] = canceller[g] /\ box'[g] = box[g],
         box'[f] # Empty => Settled(f, box[f])', \A g \in Futures : state'[g] = "done" => state[g] = "done"
  PROVE  Outcomes'
<1>1. /\ tpc'[f] = p /\ \A g \in Futures \ {f} : tpc'[g] = tpc[g]
      /\ p \in {"run", "flag", "clean", "put", "over"} /\ tpc[f] \in Active
  BY MovesOne, Zenon
<1>2. reg' = reg /\ UNCHANGED <<result, estate, handler>>
  BY Zenon DEF Moves
<1>3. tpc[f] \notin {"over", "killed", "none"} /\ p # "none"
  BY <1>1 DEF Active
<1>4. Holds
  <2>1. ASSUME NEW g \in Futures, tpc[g] \in {"over", "killed"}
        PROVE  tval'[g] = tval[g] /\ tpc'[g] \in {"over", "killed"}
    <3>1. g # f
      BY <1>3, <2>1
    <3> QED
      BY <1>1, <2>1, <3>1, Zenon
  <2> QED
    BY <1>2, <2>1, Zenon DEF Holds
<1>5. Flagged'
  <2>1. ASSUME NEW g \in Futures \ {f} PROVE Flags(g)'
    <3>1. Flags(g)
      BY Zenon DEF Outcomes, Flagged
    <3>2. tpc'[g] = tpc[g] /\ tval'[g] = tval[g] /\ canceller'[g] = canceller[g] /\ handler' = handler
      BY <1>1, <1>2, Zenon
    <3> QED
      BY <3>1, <3>2, Zenon DEF Flags, Forks
  <2> QED
    BY <2>1, Zenon DEF Flagged
<1>6. Boxes'
  <2> SUFFICES ASSUME NEW g \in Futures, box'[g] # Empty PROVE Settled(g, box[g])'
    BY Zenon DEF Boxes
  <2>1. CASE g # f
    <3>1. Settled(g, box[g]) /\ box'[g] = box[g]
      BY <2>1, Zenon DEF Outcomes, Boxes
    <3> QED
      BY <1>4, <3>1, Zenon DEF Settled, Holds
  <2> QED
    BY <2>1, Zenon
<1>7. Results'
  <2> SUFFICES ASSUME NEW g \in Futures
               PROVE  /\ result[g] \notin {"not-started", "box"} => Outcome(g, result[g])'
                      /\ state'[g] = "done" => result[g] \notin {"not-started", "box"}
                      /\ tpc'[g] = "none" => \/ result[g] = "not-started"
                                             \/ /\ estate # "running"
                                                /\ \A d \in Clients : cpc'[d] = "push" => reg[d].f # g
    BY <1>2, Zenon DEF Results
  <2>1. Results
    BY Zenon DEF Outcomes
  <2>2. Outcome(g, result[g]) => Outcome(g, result[g])'
    BY <1>2, <1>4, Zenon DEF Outcome, Settled, Holds
  <2>3. \A d \in Clients : cpc'[d] = "push" => cpc[d] = "push"
    BY MovesClients, Zenon
  <2>4. tpc'[g] = "none" => tpc[g] = "none"
    BY <1>1, <1>3, Zenon
  <2> QED
    BY <2>1, <2>2, <2>3, <2>4, Zenon DEF Results
<1>8. Gets'
  <2> SUFFICES ASSUME NEW d \in Clients PROVE Got(d)'
    BY Zenon DEF Gets
  <2>1. Got(d)
    BY Zenon DEF Outcomes, Gets
  <2>2. CASE cpc'[d] = cpc[d]
    BY <1>2, <1>4, <2>1, <2>2, GotStays, Zenon
  <2>3. CASE cpc[d] = "boxwait" /\ cpc'[d] = "box"
    BY <1>2, <2>1, <2>3 DEF Got
  <2> QED
    BY <2>2, <2>3, Zenon DEF Moves
<1> QED
  BY <1>5, <1>6, <1>7, <1>8, Zenon DEF Outcomes

\* A step of a task that leaves the clients and the threads alone.
LEMMA MoveKeeps ==
  ASSUME Inv, NEW f \in Futures, NEW p \in {"run", "flag", "clean", "put"}, tpc[f] \in Active, tpc' = [tpc EXCEPT ![f] = p],
         UNCHANGED <<result, box, work, estate, handler, lock, cpc, reg>>, FutureFields, Shrinks, Flags(f)',
         \A g \in Futures \ {f} : tval'[g] = tval[g] /\ canceller'[g] = canceller[g] /\ state'[g] = state[g],
         state'[f] \in {"created", "done"} => state'[f] = state[f],
         p = "put" => state'[f] # "created" /\ f \notin Listed' /\ \A d \in Clients : cpc[d] = "added" => reg[d].f # f,
         p \in {"run", "flag", "clean"} => tpc[f] \in {"start", "run", "flag"} \/ state'[f] # "created",
         \A g \in Listed : g \in Listed' \/ (g = f /\ p = "put")
  PROVE  Inv'
<1>1. Base /\ Fields
  BY Zenon DEF Inv, Base
<1>2. Moves(f, p)
  BY <1>1, Zenon DEF Moves, Fields
<1>3. p # "over"
  OBVIOUS
<1>4. Base'
  <2>1. work' \in [Ids -> Seq(Futures)]
    BY <1>1, Zenon DEF Fields
  <2>2. \A g \in Futures : InHands(g) => InHands(g)'
    BY Zenon DEF InHands
  <2>3. \A id \in Ids : Elements(work'[id]) \subseteq Elements(work[id])
    BY Zenon
  <2> QED
    BY <1>1, <1>2, <1>3, <2>1, <2>2, <2>3, BaseMoves, Zenon
<1>5. Survivors'
  <2>1. /\ p \in {"put", "over"} => state'[f] # "created"
        /\ \A g \in Listed : g \in Listed' \/ (g = f /\ p \in {"put", "over"})
        /\ state'[f] = "created" => state[f] = "created"
    BY <1>3, Zenon
  <2>2. Survivors /\ \A g \in Futures \ {f} : state'[g] = state[g]
    BY Zenon DEF Inv
  <2> QED
    BY <1>1, <1>2, <2>1, <2>2, SurvivorsMove, Zenon
<1>6. Outcomes'
  <2>1. box'[f] # Empty => Settled(f, box[f])'
    <3>1. tpc[f] \notin {"over", "killed"}
      BY DEF Active
    <3>2. box[f] = Empty
      BY <3>1, Zenon DEF Inv, Outcomes, Boxes, Settled
    <3> QED
      BY <3>2, Zenon
  <2> QED
    BY <1>1, <1>2, <2>1, OutcomesMove, Zenon DEF Inv
<1> QED
  BY <1>4, <1>5, <1>6, Zenon DEF Inv

LEMMA TaskStartKeeps == ASSUME Inv, NEW f \in Futures, TaskStart(f) PROVE Inv'
<1>1. /\ Base /\ Fields /\ tpc[f] = "start" /\ tpc' = [tpc EXCEPT ![f] = "run"]
      /\ UNCHANGED <<state, canceller, tval, result, box, work, estate, handler, lock, cpc, reg>> /\ ids' = ids
  BY Zenon DEF Inv, Base, TaskStart, futures, executor
<1>2. tpc'[f] = "run"
  BY <1>1 DEF Fields
<1>3. FutureFields /\ Shrinks /\ Listed' = Listed
  <2>1. Shrinks /\ Listed' = Listed
    BY <1>1, ShrinksStay, Zenon DEF Listed
  <2> QED
    BY <1>1, <2>1, Zenon DEF Fields, FutureFields
<1>4. Flags(f)'
  <2>1. canceller'[f] # "flag" /\ (Forks => canceller'[f] # "procedure")
    BY <1>1, Zenon DEF Inv, Outcomes, Flagged, Flags
  <2>2. tpc'[f] \notin {"flag", "clean", "put", "over", "killed"}
    BY <1>2
  <2> QED
    BY <1>1, <2>1, <2>2, Zenon DEF Flags, Forks
<1>5. "run" \in {"run", "flag", "clean", "put"} /\ "run" # "put" /\ tpc[f] \in Active /\ tpc[f] \in {"start", "run", "flag"}
  BY <1>1 DEF Active
<1> QED
  BY <1>1, <1>3, <1>4, <1>5, MoveKeeps, Zenon

LEMMA RunKeeps == ASSUME Inv, NEW f \in Futures, Run(f) PROVE Inv'
<1>1. /\ Base /\ Fields /\ tpc[f] = "run" /\ UNCHANGED <<state, canceller, result, box, work, estate, handler, lock, cpc, reg>> /\ ids' = ids
  BY Zenon DEF Inv, Base, Run, futures, executor
<1>2. PICK v \in Values : /\ tval' = [tval EXCEPT ![f] = v]
                          /\ tpc' = [tpc EXCEPT ![f] = IF v = "error" THEN "flag" ELSE "clean"]
  BY Zenon DEF Run
<1>3. PICK p \in {"flag", "clean"} : tpc' = [tpc EXCEPT ![f] = p] /\ (p = "flag" <=> v = "error")
  BY <1>2, Zenon
<1>4. /\ tval'[f] = v /\ \A g \in Futures \ {f} : tval'[g] = tval[g]
      /\ tval' \in [Futures -> Values \cup {Empty}]
  BY <1>1, <1>2 DEF Fields
<1>5. tpc'[f] = p
  BY <1>1, <1>3 DEF Fields
<1>6. FutureFields /\ Shrinks /\ Listed' = Listed
  <2>1. Shrinks /\ Listed' = Listed
    BY <1>1, ShrinksStay, Zenon DEF Listed
  <2>2. Fields /\ UNCHANGED <<state, result, canceller, box>>
    BY <1>1, Zenon
  <2> QED
    BY <1>4, <2>1, <2>2, Zenon DEF Fields, FutureFields
<1>7. Flags(f)'
  <2>1. canceller'[f] # "flag" /\ (Forks => canceller'[f] # "procedure")
    BY <1>1, Zenon DEF Inv, Outcomes, Flagged, Flags
  <2>2. (tpc'[f] = "flag" => tval'[f] = "error") /\ tval'[f] \in Values
    BY <1>3, <1>4, <1>5
  <2>3. tpc'[f] \in {"clean", "put", "over"} => tval'[f] # "error"
    BY <1>3, <1>4, <1>5
  <2>4. tpc'[f] # "killed"
    BY <1>3, <1>5
  <2> QED
    BY <1>1, <2>1, <2>2, <2>3, <2>4, Zenon DEF Flags, Forks
<1>8. p \in {"run", "flag", "clean", "put"} /\ p # "put" /\ tpc[f] \in Active /\ tpc[f] \in {"start", "run", "flag"}
  BY <1>1, <1>3 DEF Active
<1> QED
  BY <1>1, <1>3, <1>4, <1>6, <1>7, <1>8, MoveKeeps, Zenon

LEMMA TaskFlagKeeps == ASSUME Inv, NEW f \in Futures, TaskFlag(f) PROVE Inv'
<1>1. /\ Base /\ Fields /\ tpc[f] = "flag" /\ tpc' = [tpc EXCEPT ![f] = "clean"]
      /\ canceller' = [canceller EXCEPT ![f] = "flag"]
      /\ UNCHANGED <<state, tval, result, box, work, estate, handler, lock, cpc, reg>> /\ ids' = ids
  BY Zenon DEF Inv, Base, TaskFlag, executor
<1>2. /\ canceller'[f] = "flag" /\ \A g \in Futures \ {f} : canceller'[g] = canceller[g]
      /\ canceller' \in [Futures -> {"none", "flag", "procedure"}]
  BY <1>1 DEF Fields
<1>3. tpc'[f] = "clean"
  BY <1>1 DEF Fields
<1>4. FutureFields /\ Shrinks /\ Listed' = Listed
  <2>1. Shrinks /\ Listed' = Listed
    BY <1>1, ShrinksStay, Zenon DEF Listed
  <2>2. Fields /\ UNCHANGED <<state, result, tval, box>>
    BY <1>1, Zenon
  <2> QED
    BY <1>2, <2>1, <2>2, Zenon DEF Fields, FutureFields
<1>5. Flags(f)'
  <2>1. tval[f] = "error" /\ "error" \in Values
    BY <1>1 DEF Inv, Outcomes, Flagged, Flags, Values
  <2> QED
    BY <1>1, <1>2, <1>3, <2>1, Zenon DEF Flags
<1>6. "clean" \in {"run", "flag", "clean", "put"} /\ "clean" # "put" /\ tpc[f] \in Active /\ tpc[f] \in {"start", "run", "flag"}
  BY <1>1 DEF Active
<1> QED
  BY <1>1, <1>2, <1>4, <1>5, <1>6, MoveKeeps, Zenon

\* The thread of f goes on to its next task.
LEMMA NextTask ==
  ASSUME Base, NEW f \in Futures,
         work' = [id \in Ids |-> IF work[id] # <<>> /\ Head(work[id]) = f THEN Tail(work[id]) ELSE work[id]]
  PROVE  /\ work' \in [Ids -> Seq(Futures)]
         /\ \A id \in Ids : Elements(work'[id]) \subseteq Elements(work[id])
         /\ \A g \in Futures : InHands(g) => InHands(g)' \/ g = f
<1>1. \A id \in Ids : work[id] \in Seq(Futures)
  BY DEF Base, Fields
<1>2. ASSUME NEW id \in Ids
      PROVE  /\ work'[id] \in Seq(Futures) /\ Elements(work'[id]) \subseteq Elements(work[id])
             /\ \A g \in Elements(work[id]) : g \in Elements(work'[id]) \/ g = f
  <2>1. CASE work[id] # <<>> /\ Head(work[id]) = f
    <3>1. work'[id] = Tail(work[id])
      BY <2>1, Zenon
    <3>2. Tail(work[id]) \in Seq(Futures) /\ Elements(work[id]) = {Head(work[id])} \cup Elements(Tail(work[id]))
      BY <1>1, <2>1, ElementsTail, Zenon
    <3> QED
      BY <2>1, <3>1, <3>2, Zenon
  <2>2. CASE ~(work[id] # <<>> /\ Head(work[id]) = f)
    <3>1. work'[id] = work[id]
      BY <2>2, Zenon
    <3> QED
      BY <1>1, <3>1, Zenon
  <2> QED
    BY <2>1, <2>2
<1>3. work' \in [Ids -> Seq(Futures)]
  BY <1>2, Zenon
<1>4. ASSUME NEW g \in Futures, InHands(g) PROVE InHands(g)' \/ g = f
  BY <1>2, <1>4, Zenon DEF InHands
<1> QED
  BY <1>2, <1>3, <1>4, Zenon

\* The end of a task, whether its box is filled or not.
LEMMA OverKeeps ==
  ASSUME Inv, NEW f \in Futures, tpc[f] = "put", Over(f), Moves(f, "over"),
         box' \in [Futures -> Values \cup {Empty}], box'[f] \in {Empty, tval[f]},
         \A g \in Futures \ {f} : box'[g] = box[g],
         UNCHANGED <<state, result, canceller, tval, ids, estate, handler, lock, reg>>
  PROVE  Inv'
<1>1. Base /\ Fields
  BY Zenon DEF Inv, Base
<1>2. tpc' = [tpc EXCEPT ![f] = "over"]
  BY Zenon DEF Over
<1>3. /\ work' \in [Ids -> Seq(Futures)]
      /\ \A id \in Ids : Elements(work'[id]) \subseteq Elements(work[id])
      /\ \A g \in Futures : InHands(g) => InHands(g)' \/ g = f
  BY <1>1, NextTask, Zenon DEF Over
<1>4. Flags(f) /\ tval[f] \in Values /\ state[f] # "created"
  <2>1. Flags(f)
    BY Zenon DEF Inv, Outcomes, Flagged
  <2>2. tval[f] \in Values
    BY <1>1, <2>1 DEF Flags
  <2>3. state[f] # "created"
    BY <1>1 DEF Inv, Survivors, Doomed
  <2> QED
    BY <2>1, <2>2, <2>3
<1>5. tpc'[f] = "over"
  BY <1>1, <1>2 DEF Fields
<1>6. FutureFields /\ Shrinks /\ Listed' = Listed
  <2>1. Shrinks /\ Listed' = Listed
    BY <1>1, ShrinksStay, Zenon DEF Listed
  <2>2. Fields /\ UNCHANGED <<state, result, canceller, tval>>
    BY <1>1, Zenon
  <2> QED
    BY <2>1, <2>2, Zenon DEF Fields, FutureFields
<1>7. f \notin Listed /\ \A d \in Clients : cpc[d] = "added" => reg[d].f # f
  BY <1>1, Zenon DEF Base, Listing
<1>8. Base'
  BY <1>1, <1>3, <1>2, <1>6, <1>7, BaseMoves, Zenon
<1>9. Survivors'
  <2>1. "over" \notin {"run", "flag", "clean"} /\ state'[f] # "created" /\ Survivors
    BY <1>1, <1>4, Zenon DEF Inv
  <2>2. \A g \in Futures \ {f} : state'[g] = state[g]
    BY <1>1, Zenon
  <2> QED
    BY <1>1, <1>2, <1>6, <2>1, <2>2, SurvivorsMove, Zenon
<1>10. Outcomes'
  <2>1. Flags(f)'
    BY <1>1, <1>4, <1>5, Zenon DEF Flags, Forks
  <2>2. box'[f] # Empty => Settled(f, box[f])'
    BY <1>1, <1>4, <1>5 DEF Settled
  <2>3. \A g \in Futures \ {f} : tval'[g] = tval[g] /\ canceller'[g] = canceller[g] /\ box'[g] = box[g]
    BY <1>1, Zenon
  <2>4. Outcomes /\ \A g \in Futures : state'[g] = "done" => state[g] = "done"
    BY <1>1, Zenon DEF Inv
  <2> QED
    BY <1>1, <1>2, <2>1, <2>2, <2>3, <2>4, OutcomesMove, Zenon
<1> QED
  BY <1>8, <1>9, <1>10, Zenon DEF Inv

LEMMA TaskPutKeeps == ASSUME Inv, NEW f \in Futures, TaskPut(f) PROVE Inv'
<1>1. /\ Base /\ Fields /\ tpc[f] = "put" /\ Over(f) /\ tpc' = [tpc EXCEPT ![f] = "over"]
      /\ box' = [box EXCEPT ![f] = tval[f]] /\ Broadcast(f)
      /\ UNCHANGED <<state, result, canceller, tval, ids, estate, handler, lock, reg>>
  BY Zenon DEF Inv, Base, TaskPut, Over, executor
<1>2. Moves(f, "over")
  <2>1. cpc \in [Clients -> ClientPlaces] /\ "box" \in ClientPlaces
    BY <1>1, GetPlacesOutside DEF Fields, GetPlaces
  <2>2. cpc' = [c \in Clients |-> IF cpc[c] = "boxwait" /\ reg[c].f = f THEN "box" ELSE cpc[c]]
    BY <1>1, Zenon DEF Broadcast
  <2>3. cpc' \in [Clients -> ClientPlaces]
    BY <2>1, <2>2
  <2>4. \A d \in Clients : cpc'[d] = cpc[d] \/ (cpc[d] = "boxwait" /\ cpc'[d] = "box")
    BY <2>2, Zenon
  <2>5. tpc[f] \in Active /\ "over" \in {"run", "flag", "clean", "put", "over"}
    BY <1>1 DEF Active
  <2> QED
    BY <1>1, <2>3, <2>4, <2>5, Zenon DEF Moves
<1>3. /\ box'[f] = tval[f] /\ \A g \in Futures \ {f} : box'[g] = box[g]
      /\ box' \in [Futures -> Values \cup {Empty}]
  BY <1>1 DEF Fields
<1> QED
  BY <1>1, <1>2, <1>3, OverKeeps, Zenon

LEMMA TaskPutFailsKeeps == ASSUME Inv, NEW f \in Futures, TaskPutFails(f) PROVE Inv'
<1>1. /\ Base /\ Fields /\ tpc[f] = "put" /\ tpc[f] \in Active
      /\ UNCHANGED <<state, result, canceller, box, ids, estate, handler, lock, cpc, reg>>
  BY Zenon DEF Inv, Base, TaskPutFails, futures, executor, Active
<1>2. Flags(f) /\ state[f] # "created" /\ box[f] = Empty
  <2>1. tpc[f] \in {"put", "over"} /\ tpc[f] \notin {"over", "killed"}
    BY <1>1
  <2> QED
    BY <2>1, Zenon DEF Inv, Survivors, Doomed, Outcomes, Flagged, Boxes, Settled
<1>3. CASE tval[f] = "value" /\ tval' = [tval EXCEPT ![f] = "error"] /\ tpc' = [tpc EXCEPT ![f] = "flag"] /\ UNCHANGED work
  <2>1. /\ tval'[f] = "error" /\ \A g \in Futures \ {f} : tval'[g] = tval[g]
        /\ tval' \in [Futures -> Values \cup {Empty}] /\ tpc'[f] = "flag"
    BY <1>1, <1>3 DEF Fields, Values
  <2>2. FutureFields /\ Shrinks /\ Listed' = Listed
    <3>1. Shrinks /\ Listed' = Listed
      BY <1>1, ShrinksStay, Zenon DEF Listed
    <3> QED
      BY <1>1, <2>1, <3>1, Zenon DEF Fields, FutureFields
  <2>3. Flags(f)'
    <3>1. Forks => canceller'[f] # "procedure"
      BY <1>1, <1>2, Zenon DEF Flags
    <3>2. tpc'[f] \notin {"none", "start", "run", "clean", "put", "over", "killed"}
      BY <2>1
    <3> QED
      BY <1>1, <2>1, <3>1, <3>2, Zenon DEF Flags, Forks
  <2>4. "flag" \in {"run", "flag", "clean", "put"} /\ "flag" # "put"
    OBVIOUS
  <2> QED
    BY <1>1, <1>2, <1>3, <2>1, <2>2, <2>3, <2>4, MoveKeeps, Zenon
<1>4. CASE Over(f) /\ UNCHANGED tval
  <2>1. "over" \in {"run", "flag", "clean", "put", "over"}
    OBVIOUS
  <2>2. Moves(f, "over")
    BY <1>1, <1>4, <2>1, Zenon DEF Moves, Over, Fields
  <2>3. box' \in [Futures -> Values \cup {Empty}] /\ box'[f] = Empty
    BY <1>1, <1>2, Zenon DEF Fields
  <2> QED
    BY <1>1, <1>4, <2>2, <2>3, OverKeeps, Zenon
<1> QED
  BY <1>3, <1>4, Zenon DEF TaskPutFails

(***************************************************************************)
(* The theorems.                                                           *)
(***************************************************************************)
LEMMA InvInit == Init => Inv
<1> SUFFICES ASSUME Init PROVE Inv
  OBVIOUS
<1>1. Base
  BY BaseInit
<1>2. Survivors
  BY DEF Init, Survivors, Known, Doomed
<1>3. Flagged /\ Boxes
  BY DEF Init, Flagged, Flags, Boxes
<1>4. Results /\ Gets
  BY DEF Init, Results, Gets, Got
<1> QED
  BY <1>1, <1>2, <1>3, <1>4, Zenon DEF Inv, Outcomes

LEMMA StutterKeeps == ASSUME Inv, UNCHANGED vars PROVE Inv'
<1> USE DEF vars, futures, tasks, executor
<1>1. Base'
  <2>1. Listed' = Listed
    BY Zenon DEF Listed
  <2>2. Fields'
    BY Zenon DEF Inv, Base, Fields
  <2>3. Locked' /\ Handled'
    BY Zenon DEF Inv, Base, Locked, Handled, Forks
  <2>4. Owned'
    <3>1. Owned /\ \A f \in Futures : InHands(f) <=> InHands(f)'
      BY Zenon DEF Inv, Base, InHands
    <3>2. Forks <=> Forks'
      BY Zenon DEF Forks
    <3> QED
      BY <3>1, <3>2, Zenon DEF Owned
  <2>5. Listing'
    BY <2>1, Zenon DEF Inv, Base, Listing, Forks
  <2> QED
    BY <2>2, <2>3, <2>4, <2>5, Zenon DEF Base
<1>2. Survivors'
  <2>1. Known'
    <3>1. Known /\ Listed' = Listed /\ (Forks <=> Forks')
      BY Zenon DEF Inv, Survivors, Listed, Forks
    <3> QED
      BY <3>1, Zenon DEF Known
  <2>2. \A d \in Clients, f \in Futures : ToCancel(d, f) => ToCancel(d, f)'
    BY Zenon DEF ToCancel
  <2>3. Doomed'
    BY <2>2, Zenon DEF Inv, Survivors, Doomed
  <2> QED
    BY <2>1, <2>3, Zenon DEF Survivors
<1>3. Outcomes'
  <2>1. Flagged' /\ Boxes'
    BY Zenon DEF Inv, Outcomes, Flagged, Flags, Boxes, Settled, Forks
  <2>2. Results'
    BY Zenon DEF Inv, Outcomes, Results, Outcome, Settled
  <2>3. Gets'
    <3>1. Holds
      BY Zenon DEF Holds
    <3> QED
      BY <3>1, GotStays, Zenon DEF Inv, Outcomes, Gets
  <2> QED
    BY <2>1, <2>2, <2>3, Zenon DEF Outcomes
<1> QED
  BY <1>1, <1>2, <1>3, Zenon DEF Inv


(***************************************************************************)
(* The list without a future.                                              *)
(***************************************************************************)
\* Without as a function of the list.
Keep(q, e, f) == IF e.f = f THEN q ELSE Append(q, e)

Kept(s, f) ==
  LET kept[i \in 0..Len(s)] == IF i = 0 THEN <<>> ELSE Keep(kept[i - 1], s[i], f)
  IN  kept[Len(s)]

LEMMA WithoutIsKept == ASSUME NEW f PROVE Without(f) = Kept(ids, f)
BY DEF Without, Kept, Keep

\* The recursion that Without is defined by has a solution.
LEMMA KeptEquation ==
  ASSUME NEW s \in Seq(Entries), NEW f
  PROVE  \E h : h = [i \in 0..Len(s) |-> IF i = 0 THEN <<>> ELSE Keep(h[i - 1], s[i], f)]
<1> DEFINE n == Len(s)
           T == Seq(Entries)
           g == [x \in (1..n) \X T |-> Keep(x[2], s[x[1]], f)]
<1>1. n \in Nat /\ <<>> \in T /\ \A i \in 1..n : s[i] \in Entries
  OBVIOUS
<1>2. g \in [(1..n) \X T -> T]
  <2> SUFFICES ASSUME NEW i \in 1..n, NEW q \in T PROVE Keep(q, s[i], f) \in T
    OBVIOUS
  <2> QED
    BY <1>1, Appended, Zenon DEF Keep
<1>3. \A i \in 1..n, q \in T : g[<<i, q>>] = Keep(q, s[i], f)
  OBVIOUS
<1> HIDE DEF n, T, g
<1>4. PICK h \in [0..n -> T] : Iterates(h, n, <<>>, g)
  BY <1>1, <1>2, Iteration, Zenon
<1>5. \A i \in 0..n : i # 0 => i \in 1..n /\ i - 1 \in 0..n
  BY <1>1
<1>6. ASSUME NEW i \in 0..n
      PROVE  h[i] = IF i = 0 THEN <<>> ELSE Keep(h[i - 1], s[i], f)
  BY <1>3, <1>4, <1>5, Zenon DEF Iterates
<1>7. h = [i \in 0..n |-> IF i = 0 THEN <<>> ELSE Keep(h[i - 1], s[i], f)]
  BY <1>4, <1>6, Zenon
<1> QED
  BY <1>7, Zenon DEF n

\* What Without leaves of a list.
LEMMA KeptElements ==
  ASSUME NEW s \in Seq(Entries), NEW f
  PROVE  /\ Kept(s, f) \in Seq(Entries) /\ Len(Kept(s, f)) <= Len(s)
         /\ Elements(Kept(s, f)) = {e \in Elements(s) : e.f # f}
<1> DEFINE n == Len(s)
           h[i \in 0..Len(s)] == IF i = 0 THEN <<>> ELSE Keep(h[i - 1], s[i], f)
<1>1. n \in Nat /\ Len(<<>>) = 0 /\ \A i \in 1..n : s[i] \in Entries
  OBVIOUS
<1>2. h = [i \in 0..Len(s) |-> IF i = 0 THEN <<>> ELSE Keep(h[i - 1], s[i], f)]
  BY KeptEquation, Zenon
<1>3. Kept(s, f) = h[n]
  BY Zenon DEF Kept
<1> HIDE DEF n, h
<1>4. h[0] = <<>> /\ \A i \in 0..(n - 1) : h[i + 1] = Keep(h[i], s[i + 1], f)
  <2>1. h[0] = <<>>
    BY <1>1, <1>2 DEF n
  <2>2. ASSUME NEW i \in 0..(n - 1)
        PROVE  h[i + 1] = Keep(h[i], s[i + 1], f)
    <3>1. i + 1 \in 0..n /\ i + 1 # 0 /\ (i + 1) - 1 = i
      BY <1>1
    <3> QED
      BY <1>2, <3>1, Zenon DEF n
  <2> QED
    BY <2>1, <2>2, Zenon
<1> DEFINE Upto(k) == {s[i] : i \in 1..k}
           Right(k) == h[k] \in Seq(Entries) /\ Len(h[k]) <= k /\ Elements(h[k]) = {e \in Upto(k) : e.f # f}
           K == {k \in 0..n : Right(k)}
<1>5. 0 \in K
  <2>1. Elements(<<>>) = {} /\ Upto(0) = {}
    BY DEF Elements
  <2>2. 0 \in 0..n /\ Len(h[0]) <= 0 /\ h[0] \in Seq(Entries)
    BY <1>1, <1>4
  <2> QED
    BY <1>4, <2>1, <2>2, Zenon
<1>6. ASSUME NEW k \in 0..(n - 1), k \in K PROVE k + 1 \in K
  <2>1. k + 1 \in 0..n /\ k + 1 \in 1..n /\ k \in Nat /\ s[k + 1] \in Entries
    BY <1>1
  <2>2. Upto(k + 1) = Upto(k) \cup {s[k + 1]}
    <3>1. 1..(k + 1) = 1..k \cup {k + 1}
      BY <2>1
    <3> QED
      BY <3>1, Zenon
  <2>3. h[k] \in Seq(Entries) /\ Len(h[k]) <= k /\ Elements(h[k]) = {e \in Upto(k) : e.f # f}
    BY <1>6, Zenon
  <2> HIDE DEF Upto
  <2>4. CASE s[k + 1].f = f
    <3>1. h[k + 1] = h[k]
      BY <1>4, <2>4, Zenon DEF Keep
    <3>2. Elements(h[k + 1]) = {e \in Upto(k + 1) : e.f # f}
      BY <2>2, <2>3, <2>4, <3>1, Zenon
    <3>3. Len(h[k + 1]) <= k + 1
      BY <2>1, <2>3, <3>1
    <3> QED
      BY <2>1, <2>3, <3>1, <3>2, <3>3, Zenon
  <2>5. CASE s[k + 1].f # f
    <3>1. h[k + 1] = Append(h[k], s[k + 1])
      BY <1>4, <2>5, Zenon DEF Keep
    <3>2. Elements(h[k + 1]) = Elements(h[k]) \cup {s[k + 1]}
      BY <2>1, <2>3, <3>1, ElementsAppend
    <3>3. Elements(h[k + 1]) = {e \in Upto(k + 1) : e.f # f}
      BY <2>2, <2>3, <2>5, <3>2, Zenon
    <3>4. h[k + 1] \in Seq(Entries) /\ Len(h[k + 1]) = Len(h[k]) + 1
      BY <2>1, <2>3, <3>1, Appended
    <3>5. Len(h[k + 1]) <= k + 1
      BY <2>1, <2>3, <3>4
    <3> QED
      BY <2>1, <3>3, <3>4, <3>5, Zenon
  <2> QED
    BY <2>4, <2>5
<1>7. n \in K
  <2> HIDE DEF K
  <2> QED
    BY <1>1, <1>5, <1>6, Induction
<1> QED
  BY <1>3, <1>7, Zenon DEF n, Elements

\* The list without future f.
LEMMA WithoutShrinks ==
  ASSUME ids \in Seq(Entries), NEW f, ids' = Without(f)
  PROVE  ids' \in Seq(Entries) /\ Len(ids') <= Len(ids) /\ Listed' = Listed \ {f}
<1>1. Kept(ids, f) = Without(f)
  BY WithoutIsKept, Zenon
<1>2. /\ ids' \in Seq(Entries) /\ Len(ids') <= Len(ids)
      /\ Elements(ids') = {e \in Elements(ids) : e.f # f}
  <2>1. /\ Kept(ids, f) \in Seq(Entries) /\ Len(Kept(ids, f)) <= Len(ids)
        /\ Elements(Kept(ids, f)) = {e \in Elements(ids) : e.f # f}
    BY KeptElements, Zenon
  <2>2. ids' = Kept(ids, f)
    BY <1>1, Zenon
  <2> QED
    BY <2>1, <2>2
<1>3. Listed = {e.f : e \in Elements(ids)} /\ Listed' = {e.f : e \in Elements(ids')}
  BY Zenon DEF Listed, Elements
<1>4. ASSUME NEW g PROVE g \in Listed' <=> g \in Listed /\ g # f
  BY <1>2, <1>3, Zenon
<1>5. Listed' = Listed \ {f}
  BY <1>4, Zenon
<1> QED
  BY <1>2, <1>5, Zenon

(***************************************************************************)
(* The steps that run cleanup.                                             *)
(***************************************************************************)
\* cleanup, of a future that is given the state s.
LEMMA Cleans ==
  ASSUME Base, NEW f, NEW s \in {"finished", "terminated"}, Cleanup(f, s)
  PROVE  /\ lock = NoThread /\ Shrinks /\ Listed' = Listed \ {f}
         /\ f \in Futures => state'[f] = s
         /\ \A g \in Futures \ {f} : state'[g] = state[g]
         /\ state' \in [Futures -> {"created", "finished", "done", "terminated"}]
<1>1. /\ ids \in Seq(Entries) /\ state \in [Futures -> {"created", "finished", "done", "terminated"}]
      /\ lock = NoThread /\ ids' = Without(f) /\ state' = [state EXCEPT ![f] = s]
  BY Zenon DEF Base, Fields, Cleanup
<1>2. ids' \in Seq(Entries) /\ Len(ids') <= Len(ids) /\ Listed' = Listed \ {f}
  BY <1>1, WithoutShrinks, Zenon
<1>3. Shrinks
  BY <1>2, Zenon DEF Shrinks
<1>4. /\ f \in Futures => state'[f] = s
      /\ \A g \in Futures \ {f} : state'[g] = state[g]
      /\ state' \in [Futures -> {"created", "finished", "done", "terminated"}]
  BY <1>1, Zenon
<1> QED
  BY <1>1, <1>2, <1>3, <1>4, Zenon

LEMMA CancelCleanKeeps == ASSUME Inv, NEW c \in Clients, CancelClean(c) PROVE Inv'
<1> DEFINE f == reg[c].f
<1>1. /\ Base /\ Fields /\ cpc[c] = "cclean" /\ cpc[c] \in CancelPlaces /\ Go(c, "cclear") /\ reg' = reg
      /\ Cleanup(f, "terminated") /\ UNCHANGED <<result, canceller, box, tval>>
      /\ UNCHANGED <<result, box, tasks, estate, handler, lock>>
  BY DEF Inv, Base, CancelClean, CancelPlaces, Step, tasks
<1>2. f \in Futures
  BY <1>1, Cancelling, Zenon
<1>3. /\ lock = NoThread /\ Shrinks /\ Listed' = Listed \ {f}
      /\ state'[f] = "terminated" /\ \A g \in Futures \ {f} : state'[g] = state[g]
      /\ state' \in [Futures -> {"created", "finished", "done", "terminated"}]
  BY <1>1, <1>2, Cleans
<1>4. FutureFields
  BY <1>1, <1>3, Zenon DEF FutureFields, Fields
<1>5. CancelsOn(c)
  BY <1>1, <1>3, CancelsNext, Zenon DEF CancelPlaces
<1>6. ~Forks
  BY <1>1, Zenon DEF Inv, Outcomes, Gets, Got
<1>7. "terminated" # "created"
  OBVIOUS
<1> QED
  BY <1>1, <1>3, <1>4, <1>5, <1>6, <1>7, CancelKeeps, Zenon

LEMMA CleanOldestKeeps == ASSUME Inv, NEW c \in Clients, CleanOldest(c) PROVE Inv'
<1> DEFINE f == reg[c].old
           r == [reg[c] EXCEPT !.old = NoThread, !.id = 0]
<1>1. /\ Base /\ Fields /\ cpc[c] = "oldclean" /\ cpc[c] \in ExecutePlaces \ {"added"} /\ Go(c, "execute")
      /\ Cleanup(f, "terminated") /\ UNCHANGED <<result, canceller, box, tasks, estate, handler, lock>>
  BY DEF Inv, Base, CleanOldest, ExecutePlaces, Step
<1>2. handler = "terminate"
  BY <1>1 DEF Base, Handled
<1>3. reg[c] \in Registers
  BY <1>1 DEF Fields
<1>4. r \in Registers /\ r.f = reg[c].f
  <2>1. 0 \in Ids
    BY SizeAssumption DEF Ids
  <2> QED
    BY <1>3, <2>1, Zenon DEF Registers
<1>5. reg' = [reg EXCEPT ![c] = r]
  BY <1>1, Zenon DEF Fields, CleanOldest
<1> HIDE DEF r
<1>6. "execute" \in ExecutePlaces /\ "execute" \notin {"added", "push"}
  BY DEF ExecutePlaces
<1>7. At(c, "execute", r)
  BY <1>1, <1>4, <1>5, <1>6, ExecutePlacesAre, Arrives, Zenon
<1>8. /\ Shrinks /\ (f \in Futures => state'[f] = "terminated")
      /\ \A g \in Futures \ {f} : state'[g] = state[g]
      /\ state' \in [Futures -> {"created", "finished", "done", "terminated"}]
  BY <1>1, Cleans
<1>9. \A g \in Futures : state'[g] = state[g] \/ state'[g] = "terminated"
  BY <1>8, Zenon
<1> QED
  BY <1>1, <1>2, <1>4, <1>6, <1>7, <1>8, <1>9, OldestOnKeeps, Zenon

LEMMA TaskCleanKeeps == ASSUME Inv, NEW f \in Futures, TaskClean(f) PROVE Inv'
<1>1. /\ Base /\ Fields /\ tpc[f] = "clean" /\ tpc' = [tpc EXCEPT ![f] = "put"]
      /\ UNCHANGED <<canceller, tval, result, box, work, estate, handler, lock, cpc, reg>>
  BY Zenon DEF Inv, Base, TaskClean
<1>2. /\ state'[f] = "finished" /\ \A g \in Futures \ {f} : state'[g] = state[g]
      /\ state' \in [Futures -> {"created", "finished", "done", "terminated"}]
      /\ Shrinks /\ Listed' = Listed \ {f} /\ \A d \in Clients : cpc[d] # "added"
  <2>1. CASE Cleanup(f, "finished")
    <3>1. /\ lock = NoThread /\ Shrinks /\ Listed' = Listed \ {f}
          /\ state'[f] = "finished" /\ \A g \in Futures \ {f} : state'[g] = state[g]
          /\ state' \in [Futures -> {"created", "finished", "done", "terminated"}]
      BY <1>1, <2>1, Cleans
    <3> QED
      BY <1>1, <3>1, NobodyAdds, Zenon
  <2>2. CASE Forks /\ state' = [state EXCEPT ![f] = "finished"] /\ UNCHANGED ids
    <3>1. /\ state'[f] = "finished" /\ \A g \in Futures \ {f} : state'[g] = state[g]
          /\ state' \in [Futures -> {"created", "finished", "done", "terminated"}]
      BY <1>1, <2>2 DEF Fields
    <3>2. Shrinks /\ Listed' = Listed
      BY <1>1, <2>2, ShrinksStay, Zenon DEF Listed
    <3>3. Listed = {}
      BY <1>1, <2>2, Zenon DEF Base, Listing
    <3>4. \A d \in Clients : cpc[d] # "added"
      BY <1>1, <2>2 DEF Base, Handled, ExecutePlaces
    <3> QED
      BY <3>1, <3>2, <3>3, <3>4, Zenon
  <2> QED
    BY <2>1, <2>2, Zenon DEF TaskClean
<1>3. tpc'[f] = "put"
  BY <1>1 DEF Fields
<1>4. FutureFields
  <2>1. Fields /\ UNCHANGED <<canceller, result, tval, box>>
    BY <1>1, Zenon
  <2> QED
    BY <1>2, <2>1, Zenon DEF Fields, FutureFields
<1>5. Flags(f)'
  <2>1. Flags(f)
    BY Zenon DEF Inv, Outcomes, Flagged
  <2> QED
    BY <1>1, <1>3, <2>1 DEF Flags, Forks
<1>6. "put" \in {"run", "flag", "clean", "put"} /\ "put" \notin {"flag", "clean"} /\ tpc[f] \in Active
  BY <1>1 DEF Active
<1>7. state'[f] # "created" /\ (state'[f] \in {"created", "done"} => state'[f] = state[f])
  BY <1>2
<1>8. \A g \in Listed : g \in Listed' \/ g = f
  BY <1>2, Zenon
<1> QED
  BY <1>1, <1>2, <1>4, <1>5, <1>6, <1>7, <1>8, MoveKeeps, Zenon

(***************************************************************************)
(* The theorems.                                                           *)
(***************************************************************************)
LEMMA ContinueKeeps == ASSUME Inv, NEW c \in Clients, Continue(c) PROVE Inv'
<1>1. CASE Return(c) \/ GetResult(c) \/ GetBox(c) \/ GetStore(c) \/ GetDone(c) \/ GetFlag(c)
  BY <1>1, ReturnKeeps, GetResultKeeps, GetBoxKeeps, GetStoreKeeps, GetDoneKeeps, GetFlagKeeps, Zenon
<1>2. CASE CancelSet(c) \/ CancelCall(c) \/ CancelClean(c) \/ CancelClear(c)
  BY <1>2, CancelSetKeeps, CancelCallKeeps, CancelCleanKeeps, CancelClearKeeps, Zenon
<1>3. CASE \E f \in Futures : cpc[c] = "execute" /\ Execute(c, f)
  BY <1>3, ExecuteKeeps, Zenon
<1>4. CASE Added(c) \/ Reject(c) \/ PushFuture(c) \/ Wait(c)
  BY <1>4, AddedKeeps, RejectKeeps, PushFutureKeeps, WaitKeeps, Zenon
<1>5. CASE Oldest(c) \/ KillOldest(c) \/ CleanOldest(c)
  BY <1>5, OldestKeeps, KillOldestKeeps, CleanOldestKeeps, Zenon
<1> QED
  BY <1>1, <1>2, <1>3, <1>4, <1>5, Zenon DEF Continue

LEMMA ClientKeeps == ASSUME Inv, NEW c \in Clients, Client(c) PROVE Inv'
<1>1. \A f \in Watched : f \in Futures
  BY WatchedAssumption
<1>2. CASE Continue(c) \/ GetTimeout(c)
  BY <1>2, ContinueKeeps, GetTimeoutKeeps, Zenon
<1>3. CASE \E f \in Watched : CallGet(c, f) \/ CallCancel(c, f)
  BY <1>1, <1>3, CallGetKeeps, CallCancelKeeps, Zenon
<1>4. CASE \E f \in Futures : Fork(c, f) \/ Execute(c, f)
  BY <1>4, ForkKeeps, ExecuteKeeps, Zenon
<1>5. CASE Shutdown(c)
  BY <1>5, ShutdownKeeps, Zenon
<1> QED
  BY <1>2, <1>3, <1>4, <1>5, Zenon DEF Client

LEMMA InvNext == Inv /\ [Next]_vars => Inv'
<1> SUFFICES ASSUME Inv, [Next]_vars PROVE Inv'
  OBVIOUS
<1>1. ASSUME NEW f \in Futures, Task(f) PROVE Inv'
  BY <1>1, TaskStartKeeps, RunKeeps, TaskFlagKeeps, TaskCleanKeeps, TaskPutKeeps, TaskPutFailsKeeps, Zenon DEF Task
<1>2. ASSUME NEW c \in Clients, Client(c) PROVE Inv'
  BY <1>2, ClientKeeps, Zenon
<1>3. CASE UNCHANGED vars
  BY <1>3, StutterKeeps, Zenon
<1> QED
  BY <1>1, <1>2, <1>3, Zenon DEF Next

\* The executor, its futures and their tasks stay in Inv.
LEMMA Inductive == Spec => []Inv
BY InvInit, InvNext, PTL DEF Spec

\* No finished future takes up a place in executor-pool-ids, whenever its task ends and
\* whoever cancels it or kills its thread, and unless push-future-handler is used no more
\* futures than threads are listed: cleanup and add-future, for any number of threads,
\* futures and callers and every reject handler.
THEOREM ListedAreUnfinished == Spec => []ListedIsUnfinished
<1>1. Inv => ListedIsUnfinished
  BY Zenon DEF Inv, Base, Listing, ListedIsUnfinished
<1> QED
  BY <1>1, Inductive, PTL

\* Once nobody is inside future-cancel, every future whose thread shutdown-executor!
\* terminated was taken out of the state created, whatever tasks ended, futures were
\* added and futures were cancelled meanwhile.
THEOREM ShutdownsTerminate == Spec => []ShutdownTerminates
<1>1. Inv => ShutdownTerminates
  <2> SUFFICES ASSUME Inv, handler # "terminate", \A c \in Clients : cpc[c] \notin CancelPlaces,
                      NEW f \in Futures, tpc[f] = "killed"
               PROVE  state[f] # "created"
    BY Zenon DEF ShutdownTerminates
  <2>1. \A c \in Clients : ~ToCancel(c, f)
    BY NotCancelling
  <2> QED
    BY <2>1, Zenon DEF Inv, Survivors, Doomed
<1> QED
  BY <1>1, Inductive, PTL

\* future-get makes no result up: however many calls of it race with the task, with each
\* other, with future-cancel and with shutdown-executor!, each gives what the thunk came
\* to, the timeout value, or one of the two errors of the protocol, and the error of a
\* future with its own thread is raised.
THEOREM GetsTellResults == Spec => []GetTellsResult
<1>1. Inv => GetTellsResult
  <2> SUFFICES ASSUME Inv, NEW c \in Clients, cpc[c] = "answered"
               PROVE  \/ reg[c].how = "raise" /\ reg[c].value \in {"terminated", "not-started"}
                      \/ handler \in Timed /\ reg[c].value = "timeout"
                      \/ /\ reg[c].value = tval[reg[c].f]
                         /\ reg[c].how = "raise" => reg[c].value = "error"
                         /\ Forks /\ reg[c].value = "error" => reg[c].how = "raise"
    BY Zenon DEF GetTellsResult
  <2>1. Got(c)
    BY Zenon DEF Inv, Outcomes, Gets
  <2> QED
    BY <2>1, Zenon DEF Got, Settled
<1> QED
  BY <1>1, Inductive, PTL
=============================================================================
