------------------------ MODULE AbstractPriorityQueue ------------------------
(* What a shared priority queue promises: a bag of objects, bounded when its *)
(* maximum length is positive, from which a least one is taken.              *)
EXTENDS Integers, FiniteSets, FiniteSetsExt

CONSTANT Objects

VARIABLES bag,    \* how many there are of each object
          bound

Held == {o \in Objects : bag[o] > 0}

\* The members of the bag: an object, and which one of those equal to it.
Members == UNION {{o} \X (1..bag[o]) : o \in Objects}

Put(o) ==
  /\ bound > 0 => Cardinality(Members) < bound
  /\ bag' = [bag EXCEPT ![o] = @ + 1]

RemoveOne(o) == bag[o] > 0 /\ bag' = [bag EXCEPT ![o] = @ - 1]

Get == Held # {} /\ RemoveOne(Min(Held))

Clear == bag' = [o \in Objects |-> 0]

Next ==
  /\ Get \/ Clear \/ \E o \in Objects : Put(o) \/ RemoveOne(o)
  /\ UNCHANGED bound
=============================================================================
