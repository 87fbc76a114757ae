---------------------------- MODULE BoundedFifo ----------------------------
(***************************************************************************)
(* The queue of slot indices as the channel uses it: first in, first out,  *)
(* at most Room elements, a refusal when it is full.                       *)
(***************************************************************************)
EXTENDS Naturals, Sequences

CONSTANTS Values, Room, MaxDrain

VARIABLES
  q,     \* the elements, oldest first
  out    \* what the last operation returned: a flag and the elements it gave

vars == <<q, out>>

Nothing == [ok |-> FALSE, got |-> << >>]
Gave(s) == [ok |-> TRUE, got |-> s]

Init == q = << >> /\ out = Nothing

Enqueue(x) ==
  IF Len(q) < Room
  THEN q' = Append(q, x) /\ out' = Gave(<< >>)
  ELSE q' = q /\ out' = Nothing

Dequeue ==
  IF q = << >>
  THEN q' = q /\ out' = Nothing
  ELSE q' = Tail(q) /\ out' = Gave(<<Head(q)>>)

Drain(max) ==
  LET n == IF Len(q) < max THEN Len(q) ELSE max
  IN  q' = SubSeq(q, n + 1, Len(q)) /\ out' = Gave(SubSeq(q, 1, n))

Peek(i) ==
  /\ q' = q
  /\ out' = IF i < Len(q) THEN Gave(<<q[i + 1]>>) ELSE Nothing

Next ==
  \/ \E x \in Values : Enqueue(x)
  \/ Dequeue
  \/ \E max \in 0 .. MaxDrain : Drain(max)
  \/ \E i \in 0 .. Room : Peek(i)

Spec == Init /\ [][Next]_vars
=============================================================================
