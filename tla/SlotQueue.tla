----------------------------- MODULE SlotQueue -----------------------------
(***************************************************************************)
(* The ring buffer of channel_slot.h.  head and tail are unsigned counters *)
(* that run freely and wrap at their width; an element is found by masking *)
(* them.  The callers hold queue_lock, so every operation is one step.     *)
(***************************************************************************)
EXTENDS Integers, Sequences

CONSTANTS
  Values,     \* the slot indices that are queued
  Capacity,   \* the length of values[], a power of two
  Modulus,    \* the counters' range: 2^16 in the code
  MaxDrain    \* bound: the largest max_count of a drain

ASSUME CapacityAssumption == Capacity \in Nat \ {0}
ASSUME ModulusAssumption == Modulus \in Nat \ {0} /\ Modulus % Capacity = 0
ASSUME ValuesAssumption == 0 \in Values
ASSUME MaxDrainAssumption == MaxDrain \in Nat

VARIABLES head, tail, values, out

vars == <<head, tail, values, out>>

mask == Capacity - 1

\* x & mask, for an int x of either sign: mask + 1 is a power of two.
Masked(x) == x % (mask + 1)

\* counter++ of a uint16_t
Incremented(x) == (x + 1) % Modulus

Nothing == [ok |-> FALSE, got |-> << >>]
Gave(s) == [ok |-> TRUE, got |-> s]

\* queue_init; the shared memory it lies in starts zeroed.
Init ==
  /\ head = 0
  /\ tail = 0
  /\ values = [i \in 0 .. mask |-> 0]
  /\ out = Nothing

queue_size == Masked(head - tail)
queue_is_empty == head = tail

\* Mutant: full only when every element of the array is taken.
queue_is_full_mutant == queue_size = mask + 1

queue_is_full == queue_size = mask

queue_enqueue(x) ==
  IF queue_is_full
  THEN out' = Nothing /\ UNCHANGED <<head, tail, values>>
  ELSE /\ values' = [values EXCEPT ![Masked(head)] = x]
       /\ head' = Incremented(head)
       /\ out' = Gave(<< >>)
       /\ UNCHANGED tail

queue_dequeue ==
  IF queue_is_empty
  THEN out' = Nothing /\ UNCHANGED <<head, tail, values>>
  ELSE /\ out' = Gave(<<values[Masked(tail)]>>)
       /\ tail' = Incremented(tail)
       /\ UNCHANGED <<head, values>>

\* The loop runs until max_count elements are out or the counters, compared
\* unmasked, are equal.
queue_drain(max) ==
  LET left == (head - tail) % Modulus
      n == IF left < max THEN left ELSE max
  IN  /\ out' = Gave([i \in 1 .. n |-> values[Masked((tail + i - 1) % Modulus)]])
      /\ tail' = (tail + n) % Modulus
      /\ UNCHANGED <<head, values>>

queue_peek(i) ==
  /\ out' = IF i >= queue_size THEN Nothing
            ELSE Gave(<<values[Masked(tail + i)]>>)
  /\ UNCHANGED <<head, tail, values>>

Next ==
  \/ \E x \in Values : queue_enqueue(x)
  \/ queue_dequeue
  \/ \E max \in 0 .. MaxDrain : queue_drain(max)
  \/ \E i \in 0 .. mask : queue_peek(i)

Spec == Init /\ [][Next]_vars

----------------------------------------------------------------------------
\* The elements between the counters, oldest first.
contents ==
  [i \in 1 .. ((head - tail) % Modulus) |-> values[Masked(tail + i - 1)]]

Fifo == INSTANCE BoundedFifo WITH q <- contents, Room <- Capacity - 1

\* Through every wrap of the counters the ring is a first-in-first-out queue
\* that takes capacity - 1 elements and returns each of them once, in order.
ImplementsFifo == Fifo!Spec
=============================================================================
