---------------------------- MODULE AbstractQueue ----------------------------
(* What a shared queue promises: a first-in first-out queue, bounded when its *)
(* maximum length is positive, whose operations happen atomically.            *)
EXTENDS Integers, Sequences

CONSTANTS Values, MaxLengths

VARIABLES queue,  \* the elements
          puts,   \* how many have been put: a put that stores nothing is none
          maxLength

Init == queue = <<>> /\ puts = 0 /\ maxLength \in MaxLengths

Put(v) ==
  /\ maxLength > 0 => Len(queue) < maxLength
  /\ queue' = Append(queue, v)
  /\ puts' = puts + 1
  /\ UNCHANGED maxLength

Get ==
  /\ queue # <<>>
  /\ queue' = Tail(queue)
  /\ UNCHANGED <<puts, maxLength>>

\* One element equal to v, anywhere in the queue.
RemoveOne(v) ==
  /\ \E i \in 1..Len(queue) :
        queue[i] = v /\ queue' = SubSeq(queue, 1, i - 1) \o SubSeq(queue, i + 1, Len(queue))
  /\ UNCHANGED <<puts, maxLength>>

Clear == queue' = <<>> /\ UNCHANGED <<puts, maxLength>>

Next == Get \/ Clear \/ \E v \in Values : Put(v) \/ RemoveOne(v)

Spec == Init /\ [][Next]_<<queue, puts, maxLength>>
=============================================================================
