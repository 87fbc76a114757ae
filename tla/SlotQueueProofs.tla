-------------------------- MODULE SlotQueueProofs --------------------------
(***************************************************************************)
(* The ring buffer is a bounded first-in-first-out queue, for every length *)
(* of the ring, every width of the counters and every number of wraps; and *)
(* the ring that is built has room for every slot, for every setting of    *)
(* max_connections.                                                        *)
(***************************************************************************)
EXTENDS SlotQueue, ChannelShmem, SequenceTheorems, TLAPS

(***************************************************************************)
(* Remainders                                                              *)
(***************************************************************************)

\* A number is what its quotient and its remainder say.
LEMMA DivMod ==
  ASSUME NEW x \in Int, NEW c \in Nat \ {0}
  PROVE  /\ x \div c \in Int
         /\ x % c \in 0 .. (c - 1)
         /\ x = (c * (x \div c)) + (x % c)
OBVIOUS

\* A number below the divisor is the remainder, its own too.
LEMMA Remainder ==
  ASSUME NEW c \in Nat \ {0}, NEW k \in Int, NEW r \in 0 .. (c - 1)
  PROVE  ((c * k) + r) % c = r
OBVIOUS

LEMMA Small ==
  ASSUME NEW c \in Nat \ {0}, NEW r \in 0 .. (c - 1)
  PROVE  r % c = r
OBVIOUS

\* A multiple of the divisor does not matter.
LEMMA PlusMultiple ==
  ASSUME NEW c \in Nat \ {0}, NEW z \in Int, NEW k \in Int
  PROVE  (z + (c * k)) % c = z % c
<1> DEFINE l == z \div c
           r == z % c
<1>1. l \in Int /\ r \in 0 .. (c - 1) /\ z = (c * l) + r
  BY DivMod
<1> HIDE DEF l, r
<1>2. z + (c * k) = (c * (l + k)) + r
  BY <1>1
<1>3. l + k \in Int
  BY <1>1
<1>4. ((c * (l + k)) + r) % c = r
  BY <1>1, <1>3, Remainder
<1>5. QED
  BY <1>2, <1>4 DEF r

LEMMA OneTurn ==
  ASSUME NEW c \in Nat \ {0}, NEW z \in Int
  PROVE  (z + c) % c = z % c
<1> DEFINE k == 1
<1>1. k \in Int /\ c * k = c
  OBVIOUS
<1> HIDE DEF k
<1>2. (z + (c * k)) % c = z % c
  BY <1>1, PlusMultiple
<1>3. QED
  BY <1>1, <1>2

\* Cutting a counter to its width first does not change what the mask selects,
\* because the width is a multiple of the ring's length.
LEMMA CutFirst ==
  ASSUME NEW c \in Nat \ {0}, NEW m \in Nat \ {0}, m % c = 0,
         NEW x \in Int, NEW y \in Int
  PROVE  /\ ((x % m) + y) % c = (x + y) % c
         /\ (y - (x % m)) % c = (y - x) % c
<1> DEFINE k == m \div c
           j == x \div m
           r == x % m
<1>1. k \in Int /\ m = c * k
  BY DivMod
<1>2. j \in Int /\ r \in Int /\ x = (m * j) + r
  BY DivMod
<1> HIDE DEF k, j, r
<1> DEFINE w == k * j
<1>3. w \in Int /\ -w \in Int /\ m * j = c * w
  BY <1>1, <1>2
<1> HIDE DEF w
<1> DEFINE u == r + y
           v == y - r
<1>4. u \in Int /\ v \in Int
  BY <1>2
<1>5. x + y = u + (c * w)
  BY <1>2, <1>3
<1>6. y - x = v + (c * (-w))
  BY <1>2, <1>3
<1> HIDE DEF u, v
<1>7. (u + (c * w)) % c = u % c /\ (v + (c * (-w))) % c = v % c
  BY <1>3, <1>4, PlusMultiple
<1>8. (x + y) % c = u % c
  BY <1>5, <1>7
<1>9. (y - x) % c = v % c
  BY <1>6, <1>7
<1>10. QED
  BY <1>8, <1>9 DEF r, u, v

LEMMA CutOnce ==
  ASSUME NEW c \in Nat \ {0}, NEW m \in Nat \ {0}, m % c = 0, NEW x \in Int
  PROVE  (x % m) % c = x % c
<1> DEFINE y == 0
<1>1. y \in Int /\ x % m \in Int
  BY DivMod
<1>2. (x % m) + y = x % m /\ x + y = x
  BY <1>1
<1> HIDE DEF y
<1>3. ((x % m) + y) % c = (x + y) % c
  BY <1>1, CutFirst
<1>4. QED
  BY <1>2, <1>3

\* Two counters less than the ring's length apart select different elements.
LEMMA Apart ==
  ASSUME NEW c \in Nat \ {0}, NEW a \in Int, NEW b \in Int, a < b, b < a + c
  PROVE  a % c # b % c
<1> SUFFICES ASSUME a % c = b % c PROVE FALSE
  OBVIOUS
<1> DEFINE p == a \div c
           q == b \div c
<1>1. /\ p \in Int /\ q \in Int
      /\ a = (c * p) + (a % c) /\ b = (c * q) + (b % c)
      /\ a % c \in 0 .. (c - 1)
  BY DivMod
<1> HIDE DEF p, q
<1>2. b - a = c * (q - p)
  BY <1>1
<1>3. 0 < c * (q - p) /\ c * (q - p) < c
  BY <1>2
<1>4. q - p \in Int /\ q - p > 0 /\ q - p < 1
  BY <1>1, <1>3
<1>5. QED
  BY <1>4

----------------------------------------------------------------------------
(***************************************************************************)
(* The counters                                                            *)
(***************************************************************************)

\* How many elements there are.
Held == (head - tail) % Modulus

\* The counters never get further apart than the ring can tell: with a whole
\* turn between them a full ring would look empty.
RingInv ==
  /\ head \in 0 .. (Modulus - 1)
  /\ tail \in 0 .. (Modulus - 1)
  /\ values \in [0 .. mask -> Values]
  /\ Held <= mask

\* Capacity and Modulus, the shape every lemma about remainders wants.
LEMMA Sizes ==
  /\ Capacity \in Nat \ {0} /\ Modulus \in Nat \ {0}
  /\ Modulus % Capacity = 0 /\ Capacity % Capacity = 0 /\ Modulus % Modulus = 0
  /\ mask \in Nat /\ mask + 1 = Capacity /\ mask < Modulus
<1>1. Capacity \in Nat \ {0} /\ Modulus \in Nat \ {0} /\ Modulus % Capacity = 0
  BY CapacityAssumption, ModulusAssumption
<1>2. Capacity % Capacity = 0 /\ Modulus % Modulus = 0
  BY <1>1
<1>3. mask \in Nat /\ mask + 1 = Capacity
  BY <1>1 DEF mask
<1>4. Capacity <= Modulus
  <2> DEFINE k == Modulus \div Capacity
  <2>1. k \in Int /\ Modulus = (Capacity * k)
    BY <1>1, DivMod
  <2> HIDE DEF k
  <2>2. k >= 1
    BY <1>1, <2>1
  <2>3. QED
    BY <1>1, <2>1, <2>2
<1>5. QED
  BY <1>1, <1>2, <1>3, <1>4

\* A counter may be cut to its width before or after a sum, for the counters
\* and for the mask.
LEMMA CutCounter ==
  ASSUME NEW x \in Int, NEW y \in Int
  PROVE  /\ ((x % Modulus) + y) % Modulus = (x + y) % Modulus
         /\ (y - (x % Modulus)) % Modulus = (y - x) % Modulus
<1>1. Modulus \in Nat \ {0} /\ Modulus % Modulus = 0
  BY Sizes
<1>2. QED
  BY <1>1, CutFirst

LEMMA CutMask ==
  ASSUME NEW x \in Int, NEW y \in Int
  PROVE  ((x % Modulus) + y) % Capacity = (x + y) % Capacity
<1>1. Modulus \in Nat \ {0} /\ Capacity \in Nat \ {0} /\ Modulus % Capacity = 0
  BY Sizes
<1>2. QED
  BY <1>1, CutFirst

\* The mask selects an element of the array, and by remainders.
LEMMA MaskType ==
  ASSUME NEW x \in Int
  PROVE  Masked(x) = x % Capacity /\ Masked(x) \in 0 .. mask
<1>1. x % Capacity \in 0 .. (Capacity - 1)
  BY Sizes, DivMod
<1>2. QED
  BY <1>1, Sizes DEF Masked, mask

\* The elements are counted by the counters, and between them.
LEMMA HeldFacts ==
  ASSUME RingInv
  PROVE  /\ Held \in 0 .. mask
         /\ queue_size = Held
         /\ queue_is_empty <=> Held = 0
         /\ Masked(head) = Masked(tail + Held)
<1> DEFINE d == head - tail
<1>1. d \in Int /\ tail \in Int /\ head \in Int /\ -Modulus < d /\ d < Modulus
  BY Sizes DEF RingInv
<1>2. Held \in 0 .. (Modulus - 1) /\ Held <= mask
  BY <1>1, Sizes, DivMod DEF Held, RingInv
<1>3. Held \in 0 .. mask
  BY <1>2, Sizes
<1>4. queue_size = Held
  <2>1. queue_size = d % Capacity
    BY <1>1, MaskType DEF queue_size
  <2>2. (d % Modulus) % Capacity = d % Capacity
    BY <1>1, Sizes, CutOnce
  <2>3. Held % Capacity = Held
    BY <1>3, Sizes, Small DEF mask
  <2>4. QED
    BY <2>1, <2>2, <2>3 DEF Held
<1>5. queue_is_empty <=> Held = 0
  <2>1. ASSUME Held = 0 PROVE d = 0
    <3>1. CASE d > 0
      <4>0. d \in 0 .. (Modulus - 1)
        BY <1>1, <3>1, Sizes
      <4>1. d % Modulus = d
        BY <4>0, Sizes, Small
      <4>2. QED
        BY <2>1, <3>1, <4>1 DEF Held
    <3>2. CASE d < 0
      <4>2. d + Modulus \in 0 .. (Modulus - 1) /\ d + Modulus > 0
        BY <1>1, <3>2, Sizes
      <4>3. (d + Modulus) % Modulus = d + Modulus
        BY <4>2, Sizes, Small
      <4>4. (d + Modulus) % Modulus = d % Modulus
        BY <1>1, Sizes, OneTurn
      <4>5. QED
        BY <2>1, <4>2, <4>3, <4>4 DEF Held
    <3>3. QED
      BY <1>1, <3>1, <3>2
  <2>2. ASSUME d = 0 PROVE Held = 0
    BY <2>2, Sizes DEF Held
  <2>3. QED
    BY <1>1, <2>1, <2>2 DEF queue_is_empty
<1>6. Masked(head) = Masked(tail + Held)
  <2>1. ((d % Modulus) + tail) % Capacity = (d + tail) % Capacity
    BY <1>1, CutMask
  <2>2. d + tail = head
    BY <1>1
  <2>3. (d % Modulus) + tail = tail + Held
    BY <1>1, <1>2, Sizes DEF Held
  <2>4. tail + Held \in Int
    BY <1>1, <1>2
  <2>5. QED
    BY <1>1, <2>1, <2>2, <2>3, <2>4, MaskType
<1>7. QED
  BY <1>3, <1>4, <1>5, <1>6

\* The n elements of v from the counter t on: a sequence.
Window(n, t, v) == [i \in 1 .. n |-> v[Masked(t + i - 1)]]

LEMMA WindowType ==
  ASSUME NEW n \in Nat, NEW t \in Int, NEW v \in [0 .. mask -> Values]
  PROVE  /\ Window(n, t, v) \in Seq(Values)
         /\ Len(Window(n, t, v)) = n
         /\ \A i \in 1 .. n : Window(n, t, v)[i] = v[Masked(t + i - 1)]
<1>1. \A i \in 1 .. n : v[Masked(t + i - 1)] \in Values
  <2> SUFFICES ASSUME NEW i \in 1 .. n PROVE v[Masked(t + i - 1)] \in Values
    OBVIOUS
  <2>1. t + i - 1 \in Int
    OBVIOUS
  <2>2. Masked(t + i - 1) \in 0 .. mask
    BY <2>1, MaskType
  <2>3. QED
    BY <2>2
<1>2. Window(n, t, v) \in [1 .. n -> Values]
  BY <1>1 DEF Window
<1>3. Window(n, t, v) \in Seq(Values)
  BY <1>2
<1>4. Len(Window(n, t, v)) = n
  BY <1>2, <1>3
<1>5. QED
  BY <1>3, <1>4 DEF Window

LEMMA ContentsType ==
  ASSUME RingInv
  PROVE  /\ contents = Window(Held, tail, values)
         /\ contents \in Seq(Values)
         /\ Len(contents) = Held
         /\ \A i \in 1 .. Held : contents[i] = values[Masked(tail + i - 1)]
<1>1. Held \in Nat /\ tail \in Int /\ values \in [0 .. mask -> Values]
  BY HeldFacts, Sizes DEF RingInv
<1>2. contents = Window(Held, tail, values)
  BY DEF contents, Held, Window
<1>3. QED
  BY <1>1, <1>2, WindowType

----------------------------------------------------------------------------
(***************************************************************************)
(* The operations                                                          *)
(***************************************************************************)

\* Taking n elements off: what dequeue and drain do to the counters.
LEMMA Advance ==
  ASSUME RingInv, NEW n \in 0 .. Held, tail' = (tail + n) % Modulus,
         UNCHANGED <<head, values>>
  PROVE  RingInv' /\ contents' = SubSeq(contents, n + 1, Len(contents))
<1> DEFINE d == head - tail
<1>1. d \in Int /\ tail \in Int /\ head \in Int /\ n \in Nat /\ Held \in Nat
      /\ n <= Held /\ Held <= mask
  BY HeldFacts, Sizes DEF RingInv
<1>2. tail + n \in Int
  BY <1>1
<1>3. Held' = Held - n
  <2> DEFINE t == tail + n
             e == -n
  <2>0. t \in Int /\ e \in Int /\ d + e = head - t
    BY <1>1
  <2>1. Held' = (head - (t % Modulus)) % Modulus /\ Held = d % Modulus
    BY DEF Held
  <2>2. Held + e \in 0 .. (Modulus - 1) /\ Held + e = Held - n
    BY <1>1, Sizes
  <2> HIDE DEF d, e, t
  <2>3. (head - (t % Modulus)) % Modulus = (head - t) % Modulus
    BY <1>1, <2>0, CutCounter
  <2>4. ((d % Modulus) + e) % Modulus = (d + e) % Modulus
    BY <1>1, <2>0, CutCounter
  <2>5. (Held + e) % Modulus = Held + e
    BY <2>2, Sizes, Small
  <2>6. QED
    BY <2>0, <2>1, <2>2, <2>3, <2>4, <2>5
<1>4. tail' \in 0 .. (Modulus - 1)
  BY <1>2, Sizes, DivMod
<1>5. RingInv'
  <2>1. Held' <= mask
    BY <1>1, <1>3, Sizes
  <2>2. mask' = mask /\ Modulus' = Modulus
    BY DEF mask
  <2>3. QED
    BY <1>4, <2>1, <2>2 DEF RingInv
<1>6. /\ contents' = Window(Held - n, tail', values)
      /\ tail' \in Int /\ values \in [0 .. mask -> Values] /\ Held - n \in Nat
  <2>1. contents' = Window(Held', tail', values')
    BY DEF contents, Held, Window, Masked, mask
  <2>2. QED
    BY <1>1, <1>3, <1>4, <2>1, Sizes DEF RingInv
<1>7. /\ contents' \in Seq(Values) /\ Len(contents') = Held - n
      /\ \A i \in 1 .. Held - n : contents'[i] = values[Masked(tail' + i - 1)]
  BY <1>6, WindowType
<1> DEFINE s == SubSeq(contents, n + 1, Len(contents))
<1>8. /\ s \in Seq(Values) /\ Len(s) = Held - n
      /\ \A i \in 1 .. Held - n : s[i] = contents[n + i]
  <2>1. contents \in Seq(Values) /\ Len(contents) = Held
    BY ContentsType
  <2>2. \A i \in n + 1 .. Held : contents[i] \in Values
    BY <1>1, <2>1, ElementOfSeq
  <2>3. n + 1 \in Int /\ Held \in Int
    BY <1>1
  <2>4. /\ SubSeq(contents, n + 1, Held) \in Seq(Values)
        /\ Len(SubSeq(contents, n + 1, Held)) =
             IF n + 1 <= Held THEN Held - (n + 1) + 1 ELSE 0
        /\ \A i \in 1 .. Held - (n + 1) + 1 :
             SubSeq(contents, n + 1, Held)[i] = contents[(n + 1) + i - 1]
    BY <2>2, <2>3, SubSeqProperties
  <2>5. Held - (n + 1) + 1 = Held - n
    BY <1>1
  <2>6. Len(SubSeq(contents, n + 1, Held)) = Held - n
    BY <1>1, <2>4, <2>5
  <2>7. \A i \in 1 .. Held - n : (n + 1) + i - 1 = n + i
    BY <1>1
  <2>8. QED
    BY <2>1, <2>4, <2>5, <2>6, <2>7
<1>9. ASSUME NEW i \in 1 .. Held - n PROVE contents'[i] = s[i]
  <2>1. i \in Nat /\ i >= 1 /\ n + i \in 1 .. Held /\ i - 1 \in Int /\ tail' + i - 1 \in Int
    BY <1>1, <1>6
  <2>2. (((tail + n) % Modulus) + (i - 1)) % Capacity = ((tail + n) + (i - 1)) % Capacity
    BY <1>2, <2>1, CutMask
  <2>3. tail' + i - 1 = tail' + (i - 1) /\ tail + (n + i) - 1 = (tail + n) + (i - 1)
    BY <1>1, <1>6, <2>1
  <2>4. Masked(tail' + i - 1) = Masked(tail + (n + i) - 1)
    BY <1>1, <2>1, <2>2, <2>3, MaskType
  <2>5. contents[n + i] = values[Masked(tail + (n + i) - 1)]
    BY <2>1, ContentsType
  <2>6. QED
    BY <1>7, <1>8, <2>4, <2>5
<1> HIDE DEF s
<1>10. contents' = s
  BY <1>7, <1>8, <1>9, SeqEqual
<1>11. QED
  BY <1>5, <1>10 DEF s

\* Putting an element in: it lands behind the others and over none of them.
LEMMA Put ==
  ASSUME RingInv, Held < mask, NEW x \in Values,
         values' = [values EXCEPT ![Masked(head)] = x],
         head' = (head + 1) % Modulus, UNCHANGED tail
  PROVE  RingInv' /\ contents' = Append(contents, x)
<1> DEFINE d == head - tail
<1>1. d \in Int /\ tail \in Int /\ head \in Int /\ Held \in Nat /\ mask \in Nat
      /\ values \in [0 .. mask -> Values]
  BY HeldFacts, Sizes DEF RingInv
<1>2. Held' = Held + 1
  <2> DEFINE h == head + 1
             e == -tail
             f == 1
  <2>0. h \in Int /\ e \in Int /\ f \in Int /\ h + e = d + f
    BY <1>1
  <2>1. Held' = ((h % Modulus) + e) % Modulus /\ Held = d % Modulus
    <3>1. h % Modulus \in Int
      BY <2>0, Sizes, DivMod
    <3>2. (h % Modulus) - tail = (h % Modulus) + e
      BY <1>1, <3>1
    <3>3. QED
      BY <3>2 DEF Held
  <2>2. Held + f \in 0 .. (Modulus - 1) /\ Held + f = Held + 1
    BY <1>1, Sizes
  <2> HIDE DEF d, e, f, h
  <2>3. ((h % Modulus) + e) % Modulus = (h + e) % Modulus
    BY <2>0, CutCounter
  <2>4. ((d % Modulus) + f) % Modulus = (d + f) % Modulus
    BY <1>1, <2>0, CutCounter
  <2>5. (Held + f) % Modulus = Held + f
    BY <2>2, Sizes, Small
  <2>6. QED
    BY <2>0, <2>1, <2>2, <2>3, <2>4, <2>5
<1>3. head' \in 0 .. (Modulus - 1)
  <2>1. head + 1 \in Int
    BY <1>1
  <2>2. QED
    BY <2>1, Sizes, DivMod
<1>4. values' \in [0 .. mask -> Values] /\ Masked(head) \in 0 .. mask
  BY <1>1, MaskType
<1>5. RingInv'
  <2>1. Held' <= mask
    BY <1>1, <1>2
  <2>2. mask' = mask
    BY DEF mask
  <2>3. QED
    BY <1>3, <1>4, <2>1, <2>2 DEF RingInv
<1>6. contents' = Window(Held + 1, tail, values') /\ Held + 1 \in Nat
  <2>1. contents' = Window(Held', tail', values')
    BY DEF contents, Held, Window, Masked, mask
  <2>2. QED
    BY <1>1, <1>2, <2>1
<1>7. /\ contents' \in Seq(Values) /\ Len(contents') = Held + 1
      /\ \A i \in 1 .. Held + 1 : contents'[i] = values'[Masked(tail + i - 1)]
  <2>1. tail \in Int /\ Held + 1 \in Nat /\ values' \in [0 .. mask -> Values]
    BY <1>1, <1>4, <1>6
  <2>2. QED
    BY <1>6, <2>1, WindowType
<1>8. /\ contents \in Seq(Values) /\ Len(contents) = Held
      /\ \A i \in 1 .. Held : contents[i] = values[Masked(tail + i - 1)]
  BY ContentsType
<1>9. /\ Append(contents, x) \in Seq(Values) /\ Len(Append(contents, x)) = Held + 1
      /\ \A i \in 1 .. Held : Append(contents, x)[i] = contents[i]
      /\ Append(contents, x)[Held + 1] = x
  BY <1>8, AppendProperties
<1>10. ASSUME NEW i \in 1 .. Held + 1 PROVE contents'[i] = Append(contents, x)[i]
  <2>1. CASE i = Held + 1
    <3>1. tail + i - 1 = tail + Held
      BY <1>1, <2>1
    <3>2. Masked(tail + i - 1) = Masked(head)
      BY <3>1, HeldFacts
    <3>3. QED
      BY <1>1, <1>4, <1>7, <1>9, <2>1, <3>2
  <2>2. CASE i # Held + 1
    <3>1. i \in 1 .. Held
      BY <1>1, <2>2
    <3>2. /\ tail + i - 1 \in Int /\ tail + Held \in Int
          /\ tail + i - 1 < tail + Held /\ tail + Held < (tail + i - 1) + Capacity
      BY <1>1, <3>1, Sizes
    <3>3. (tail + i - 1) % Capacity # (tail + Held) % Capacity
      BY <3>2, Sizes, Apart
    <3>4. Masked(tail + i - 1) # Masked(head)
      BY <3>2, <3>3, MaskType, HeldFacts
    <3>5. Masked(tail + i - 1) \in 0 .. mask
      BY <3>2, MaskType
    <3>6. values'[Masked(tail + i - 1)] = values[Masked(tail + i - 1)]
      BY <1>1, <3>4, <3>5
    <3>7. QED
      BY <1>7, <1>8, <1>9, <3>1, <3>6
  <2>3. QED
    BY <2>1, <2>2
<1>11. contents' = Append(contents, x)
  BY <1>7, <1>9, <1>10, SeqEqual
<1>12. QED
  BY <1>5, <1>11

\* The first n elements, read one after the other as drain does.
LEMMA Prefix ==
  ASSUME RingInv, NEW n \in 0 .. Held
  PROVE  [i \in 1 .. n |-> values[Masked((tail + i - 1) % Modulus)]] = SubSeq(contents, 1, n)
<1> DEFINE w == [i \in 1 .. n |-> values[Masked((tail + i - 1) % Modulus)]]
           s == SubSeq(contents, 1, n)
<1>1. tail \in Int /\ Held \in Nat /\ n \in Nat /\ n <= Held
  BY HeldFacts, Sizes DEF RingInv
<1>2. /\ contents \in Seq(Values) /\ Len(contents) = Held
      /\ \A i \in 1 .. Held : contents[i] = values[Masked(tail + i - 1)]
  BY ContentsType
<1>3. ASSUME NEW i \in 1 .. n
      PROVE  values[Masked((tail + i - 1) % Modulus)] = contents[i] /\ contents[i] \in Values
  <2> DEFINE x == tail + i - 1
  <2>1. i \in 1 .. Held /\ x \in Int
    BY <1>1
  <2>2. contents[i] = values[Masked(x)] /\ contents[i] \in Values
    BY <1>2, <2>1, ElementOfSeq
  <2> HIDE DEF x
  <2>3. x % Modulus \in Int /\ (x % Modulus) % Capacity = x % Capacity
    <3>1. Modulus \in Nat \ {0} /\ Capacity \in Nat \ {0} /\ Modulus % Capacity = 0
      BY Sizes
    <3>2. x % Modulus \in Int
      BY <2>1, <3>1, DivMod
    <3>3. QED
      BY <2>1, <3>1, <3>2, CutOnce
  <2>4. Masked(x % Modulus) = Masked(x)
    BY <2>1, <2>3, MaskType
  <2>5. QED
    BY <2>2, <2>4 DEF x
<1>4. w = [i \in 1 .. n |-> contents[i]]
  BY <1>3
<1>5. w \in [1 .. n -> Values]
  BY <1>3
<1>a. DOMAIN w = 1 .. n
  OBVIOUS
<1>6. w \in Seq(Values) /\ Len(w) = n
  <2> HIDE DEF w
  <2>1. w \in Seq(Values)
    BY <1>1, <1>5
  <2>2. DOMAIN w = 1 .. Len(w) /\ Len(w) \in Nat
    BY <2>1, LenProperties
  <2>3. QED
    BY <1>1, <1>a, <2>1, <2>2
<1>7. /\ s \in Seq(Values) /\ Len(s) = n
      /\ \A i \in 1 .. n : s[i] = contents[i]
  <2>1. \A i \in 1 .. n : contents[i] \in Values
    BY <1>3
  <2>2. /\ SubSeq(contents, 1, n) \in Seq(Values)
        /\ Len(SubSeq(contents, 1, n)) = IF 1 <= n THEN n - 1 + 1 ELSE 0
        /\ \A i \in 1 .. n - 1 + 1 : SubSeq(contents, 1, n)[i] = contents[1 + i - 1]
    BY <1>1, <2>1, SubSeqProperties
  <2>3. n - 1 + 1 = n /\ \A i \in 1 .. n : 1 + i - 1 = i
    BY <1>1
  <2>4. Len(s) = n
    BY <1>1, <2>2, <2>3
  <2>5. \A i \in 1 .. n : s[i] = contents[i]
    BY <2>2, <2>3
  <2>6. QED
    BY <2>2, <2>4, <2>5
<1>8. \A i \in 1 .. n : w[i] = s[i]
  BY <1>4, <1>7
<1> HIDE DEF w, s
<1>9. w = s
  BY <1>6, <1>7, <1>8, SeqEqual
<1>10. QED
  BY <1>9 DEF w, s

\* Every operation of the ring is the same operation of the abstract queue.
LEMMA RingStep ==
  RingInv /\ [Next]_vars => RingInv' /\ [Fifo!Next]_(Fifo!vars)
<1> SUFFICES ASSUME RingInv, [Next]_vars
             PROVE  RingInv' /\ (Fifo!Next \/ UNCHANGED Fifo!vars)
  OBVIOUS
<1>0. /\ Held \in Nat /\ Held <= mask /\ mask \in Nat /\ tail \in Int /\ head \in Int
      /\ Capacity - 1 = mask
  BY HeldFacts, Sizes DEF RingInv, mask
<1>1. /\ contents \in Seq(Values) /\ Len(contents) = Held
      /\ \A i \in 1 .. Held : contents[i] = values[Masked(tail + i - 1)]
  BY ContentsType
<1>2. queue_size = Held /\ (queue_is_empty <=> Held = 0)
  BY HeldFacts
<1>3. contents = << >> <=> Held = 0
  BY <1>0, <1>1, EmptySeq
<1>4. ASSUME UNCHANGED <<head, tail, values>> PROVE RingInv' /\ contents' = contents
  BY <1>4 DEF RingInv, Held, contents, mask, Masked
<1>5. ASSUME NEW x \in Values, queue_enqueue(x) PROVE RingInv' /\ Fifo!Enqueue(x)
  <2>1. CASE queue_is_full
    <3>1. out' = Nothing /\ UNCHANGED <<head, tail, values>>
      BY <1>5, <2>1 DEF queue_enqueue
    <3>2. ~(Len(contents) < Capacity - 1)
      BY <1>0, <1>1, <1>2, <2>1 DEF queue_is_full
    <3>3. QED
      BY <1>4, <3>1, <3>2 DEF Fifo!Enqueue, Nothing, Fifo!Nothing
  <2>2. CASE ~queue_is_full
    <3>1. /\ values' = [values EXCEPT ![Masked(head)] = x]
          /\ head' = (head + 1) % Modulus
          /\ out' = Gave(<< >>)
          /\ UNCHANGED tail
      BY <1>5, <2>2 DEF queue_enqueue, Incremented
    <3>2. Held < mask
      BY <1>0, <1>2, <2>2 DEF queue_is_full
    <3>3. RingInv' /\ contents' = Append(contents, x)
      BY <3>1, <3>2, Put
    <3>4. Len(contents) < Capacity - 1
      BY <1>0, <1>1, <3>2
    <3>5. QED
      BY <3>1, <3>3, <3>4 DEF Fifo!Enqueue, Gave, Fifo!Gave
  <2>3. QED
    BY <2>1, <2>2
<1>6. ASSUME queue_dequeue PROVE RingInv' /\ Fifo!Dequeue
  <2>1. CASE queue_is_empty
    <3>1. out' = Nothing /\ UNCHANGED <<head, tail, values>>
      BY <1>6, <2>1 DEF queue_dequeue
    <3>2. contents = << >>
      BY <1>2, <1>3, <2>1
    <3>3. QED
      BY <1>4, <3>1, <3>2 DEF Fifo!Dequeue, Nothing, Fifo!Nothing
  <2>2. CASE ~queue_is_empty
    <3>1. /\ out' = Gave(<<values[Masked(tail)]>>)
          /\ tail' = (tail + 1) % Modulus
          /\ UNCHANGED <<head, values>>
      BY <1>6, <2>2 DEF queue_dequeue, Incremented
    <3>2. contents # << >> /\ 1 \in 0 .. Held /\ 1 \in 1 .. Held
      BY <1>0, <1>2, <1>3, <2>2
    <3>3. RingInv' /\ contents' = SubSeq(contents, 1 + 1, Len(contents))
      BY <3>1, <3>2, Advance
    <3>4. Tail(contents) = SubSeq(contents, 2, Len(contents))
      BY <1>1, <3>2, TailIsSubSeq
    <3>5. Head(contents) = values[Masked(tail)]
      <4>1. contents[1] = values[Masked(tail + 1 - 1)]
        BY <1>1, <3>2
      <4>2. tail + 1 - 1 = tail
        BY <1>0
      <4>3. Head(contents) = contents[1]
        BY <1>1, <3>2
      <4>4. QED
        BY <4>1, <4>2, <4>3
    <3>6. contents' = Tail(contents)
      <4>1. 1 + 1 = 2
        OBVIOUS
      <4>2. QED
        BY <3>3, <3>4, <4>1
    <3>7. out' = Fifo!Gave(<<Head(contents)>>)
      BY <3>1, <3>5 DEF Gave, Fifo!Gave
    <3>8. QED
      BY <3>2, <3>3, <3>6, <3>7 DEF Fifo!Dequeue
  <2>3. QED
    BY <2>1, <2>2
<1>7. ASSUME NEW max \in 0 .. MaxDrain, queue_drain(max) PROVE RingInv' /\ Fifo!Drain(max)
  <2> DEFINE n == IF Held < max THEN Held ELSE max
  <2>1. /\ out' = Gave([i \in 1 .. n |-> values[Masked((tail + i - 1) % Modulus)]])
        /\ tail' = (tail + n) % Modulus
        /\ UNCHANGED <<head, values>>
    BY <1>7 DEF queue_drain, Held
  <2>2. n \in 0 .. Held /\ n = IF Len(contents) < max THEN Len(contents) ELSE max
    BY <1>0, <1>1, MaxDrainAssumption
  <2> HIDE DEF n
  <2>3. RingInv' /\ contents' = SubSeq(contents, n + 1, Len(contents))
    BY <2>1, <2>2, Advance
  <2>4. out' = Gave(SubSeq(contents, 1, n))
    BY <2>1, <2>2, Prefix
  <2>5. QED
    BY <2>2, <2>3, <2>4 DEF Fifo!Drain, Gave, Fifo!Gave
<1>8. ASSUME NEW i \in 0 .. mask, queue_peek(i) PROVE RingInv' /\ Fifo!Peek(i)
  <2>1. /\ out' = IF i >= Held THEN Nothing ELSE Gave(<<values[Masked(tail + i)]>>)
        /\ UNCHANGED <<head, tail, values>>
    BY <1>2, <1>8 DEF queue_peek
  <2>2. ASSUME i < Held PROVE contents[i + 1] = values[Masked(tail + i)]
    <3>1. i + 1 \in 1 .. Held /\ tail + (i + 1) - 1 = tail + i
      BY <1>0, <2>2
    <3>2. QED
      BY <1>1, <3>1
  <2>3. i >= Held <=> ~(i < Len(contents))
    BY <1>0, <1>1
  <2>4. QED
    BY <1>1, <1>4, <2>1, <2>2, <2>3 DEF Fifo!Peek, Nothing, Fifo!Nothing, Gave, Fifo!Gave
<1>9. CASE UNCHANGED vars
  BY <1>4, <1>9 DEF vars, Fifo!vars
<1>10. 0 .. mask = 0 .. (Capacity - 1)
  BY <1>0
<1>11. QED
  BY <1>5, <1>6, <1>7, <1>8, <1>9, <1>10 DEF Next, Fifo!Next

\* The ring implements the abstract queue: through every wrap of its counters
\* it takes capacity - 1 elements, refuses the next one, and gives each element
\* back once, in the order they came, whether by dequeue or by drain.
THEOREM RingImplementsFifo == Spec => ImplementsFifo
<1>1. Init => RingInv /\ Fifo!Init
  <2> SUFFICES ASSUME Init PROVE RingInv /\ Fifo!Init
    OBVIOUS
  <2>1. Held = 0
    BY Sizes DEF Init, Held
  <2>2. RingInv
    BY <2>1, Sizes, ValuesAssumption DEF Init, RingInv
  <2>3. contents = << >>
    BY <2>1, <2>2, ContentsType, EmptySeq
  <2>4. QED
    BY <2>2, <2>3 DEF Init, Fifo!Init, Nothing, Fifo!Nothing
<1>2. QED
  BY <1>1, RingStep, PTL DEF Spec, ImplementsFifo, Fifo!Spec

(***************************************************************************)
(* The size of the ring                                                    *)
(***************************************************************************)

\* x |= x >> m doubles the length m of a run of ones at the top.
LEMMA FillStep ==
  ASSUME NEW k \in 0 .. 15, NEW m \in Nat, NEW B \in SUBSET (0 .. k),
         \A i \in 0 .. k : i > k - m => i \in B
  PROVE  /\ OrShifted(B, m) \in SUBSET (0 .. k)
         /\ \A i \in 0 .. k : i > k - (2 * m) => i \in OrShifted(B, m)
<1>1. ASSUME NEW i \in OrShifted(B, m) PROVE i \in 0 .. k
  <2>1. i \in B \/ (i \in 0 .. 15 /\ i + m \in B)
    BY DEF OrShifted
  <2>2. CASE i \in B
    BY <2>2
  <2>3. CASE i \in 0 .. 15 /\ i + m \in B
    <3>1. i \in Nat /\ i + m \in 0 .. k
      BY <2>3
    <3>2. QED
      BY <3>1
  <2>4. QED
    BY <2>1, <2>2, <2>3
<1>2. ASSUME NEW i \in 0 .. k, i > k - (2 * m) PROVE i \in OrShifted(B, m)
  <2>1. CASE i > k - m
    BY <2>1 DEF OrShifted
  <2>2. CASE ~(i > k - m)
    <3>1. i + m \in 0 .. k /\ i + m > k - m /\ i \in 0 .. 15
      BY <1>2, <2>2
    <3>2. QED
      BY <3>1 DEF OrShifted
  <2>3. QED
    BY <2>1, <2>2
<1>3. QED
  BY <1>1, <1>2

\* The steps of pow2_ceil copy the highest bit to all lower ones.
LEMMA FillBelow ==
  ASSUME NEW k \in 0 .. 15, NEW B \in SUBSET (0 .. k), k \in B
  PROVE  OrShifted(OrShifted(OrShifted(OrShifted(OrShifted(B, 1), 2), 4), 8), 16) = 0 .. k
<1> DEFINE b == OrShifted(B, 1)
           c == OrShifted(b, 2)
           d == OrShifted(c, 4)
           e == OrShifted(d, 8)
           f == OrShifted(e, 16)
<1>0. \A i \in 0 .. k : i > k - 1 => i \in B
  <2>1. \A i \in 0 .. k : i > k - 1 => i = k
    OBVIOUS
  <2>2. QED
    BY <2>1
<1>1. b \in SUBSET (0 .. k) /\ \A i \in 0 .. k : i > k - 2 => i \in b
  BY <1>0, FillStep
<1> HIDE DEF b
<1>2. c \in SUBSET (0 .. k) /\ \A i \in 0 .. k : i > k - 4 => i \in c
  BY <1>1, FillStep
<1> HIDE DEF c
<1>3. d \in SUBSET (0 .. k) /\ \A i \in 0 .. k : i > k - 8 => i \in d
  BY <1>2, FillStep
<1> HIDE DEF d
<1>4. e \in SUBSET (0 .. k) /\ \A i \in 0 .. k : i > k - 16 => i \in e
  BY <1>3, FillStep
<1> HIDE DEF e
<1>5. f \in SUBSET (0 .. k) /\ \A i \in 0 .. k : i > k - 32 => i \in f
  BY <1>4, FillStep
<1> HIDE DEF f
<1>6. \A i \in 0 .. k : i > k - 32
  OBVIOUS
<1>7. f = 0 .. k
  BY <1>5, <1>6
<1>8. QED
  BY <1>7 DEF b, c, d, e, f

\* The powers of two, as numbers.
LEMMA Powers ==
  /\ 2^0 = 1 /\ 2^1 = 2 /\ 2^2 = 4 /\ 2^3 = 8 /\ 2^4 = 16 /\ 2^5 = 32 /\ 2^6 = 64
  /\ 2^7 = 128 /\ 2^8 = 256 /\ 2^9 = 512 /\ 2^10 = 1024 /\ 2^11 = 2048
  /\ 2^12 = 4096 /\ 2^13 = 8192 /\ 2^14 = 16384 /\ 2^15 = 32768 /\ 2^16 = 65536
OBVIOUS

\* A word whose bits up to the highest are all ones is one less than a power of two.
LEMMA AllOnes ==
  /\ Number(0 .. 9) = 1023 /\ Number(0 .. 10) = 2047 /\ Number(0 .. 11) = 4095
  /\ Number(0 .. 12) = 8191 /\ Number(0 .. 13) = 16383
<1>1. /\ \A i \in 0 .. 9 : i \in 0 .. 9
  OBVIOUS
<1>2. QED
  BY Powers DEF Number

\* The quotients that decide the highest bit.
LEMMA Quotient ==
  ASSUME NEW a \in Nat, NEW p \in Nat \ {0}
  PROVE  /\ a < p => a \div p = 0
         /\ p <= a /\ a < 2 * p => a \div p = 1
OBVIOUS

\* The powers of two a word of 16 bits has room for, from 2^9 on.
LEMMA Doubling ==
  ASSUME NEW k \in 9 .. 13, NEW i \in 0 .. 15, i > k
  PROVE  2^k \in Nat \ {0} /\ 2^i \in Nat \ {0} /\ 2 * (2^k) <= 2^i
<1> DEFINE p == 2^k
           q == 2^i
<1>1. \/ k = 9 /\ p = 512
      \/ k = 10 /\ p = 1024
      \/ k = 11 /\ p = 2048
      \/ k = 12 /\ p = 4096
      \/ k = 13 /\ p = 8192
  <2>1. CASE k = 9
    BY <2>1, Powers
  <2>2. CASE k = 10
    BY <2>2, Powers
  <2>3. CASE k = 11
    BY <2>3, Powers
  <2>4. CASE k = 12
    BY <2>4, Powers
  <2>5. CASE k = 13
    BY <2>5, Powers
  <2>6. QED
    BY <2>1, <2>2, <2>3, <2>4, <2>5
<1>2. \/ i = 10 /\ q = 1024
      \/ i = 11 /\ q = 2048
      \/ i = 12 /\ q = 4096
      \/ i = 13 /\ q = 8192
      \/ i = 14 /\ q = 16384
      \/ i = 15 /\ q = 32768
  <2>1. CASE i = 10
    BY <2>1, Powers
  <2>2. CASE i = 11
    BY <2>2, Powers
  <2>3. CASE i = 12
    BY <2>3, Powers
  <2>4. CASE i = 13
    BY <2>4, Powers
  <2>5. CASE i = 14
    BY <2>5, Powers
  <2>6. CASE i = 15
    BY <2>6, Powers
  <2>7. QED
    BY <2>1, <2>2, <2>3, <2>4, <2>5, <2>6
<1> HIDE DEF p, q
<1>3. p \in Nat \ {0} /\ q \in Nat \ {0} /\ 2 * p <= q
  BY <1>1, <1>2
<1>4. QED
  BY <1>3 DEF p, q

\* The highest bit of the words that occur.
LEMMA TopBit ==
  ASSUME NEW a \in Nat, NEW k \in 9 .. 13, 2^k <= a, a < 2 * (2^k)
  PROVE  Bits(a) \in SUBSET (0 .. k) /\ k \in Bits(a)
<1>1. k \in 0 .. 15 /\ 2^k \in Nat \ {0}
  <2>1. k \in 0 .. 15 /\ 15 \in 0 .. 15 /\ 15 > k
    OBVIOUS
  <2>2. QED
    BY <2>1, Doubling
<1>2. k \in Bits(a)
  <2>1. a \div (2^k) = 1
    BY <1>1, Quotient
  <2>2. (a \div (2^k)) % 2 = 1
    BY <2>1
  <2>3. QED
    BY <1>1, <2>2 DEF Bits
<1>3. ASSUME NEW i \in Bits(a), ~(i <= k) PROVE FALSE
  <2>1. i \in 0 .. 15 /\ (a \div (2^i)) % 2 = 1
    BY DEF Bits
  <2>2. i > k
    BY <1>1, <1>3, <2>1
  <2>3. 2^i \in Nat \ {0} /\ 2 * (2^k) <= 2^i
    BY <2>1, <2>2, Doubling
  <2>4. a \div (2^i) = 0
    <3>1. a < 2^i
      BY <1>1, <2>3
    <3>2. QED
      BY <2>3, <3>1, Quotient
  <2>5. 0 % 2 # 1
    OBVIOUS
  <2>6. QED
    BY <2>1, <2>4, <2>5
<1>4. \A i \in Bits(a) : i \in 0 .. k
  <2> SUFFICES ASSUME NEW i \in Bits(a) PROVE i \in 0 .. k
    OBVIOUS
  <2>1. i \in 0 .. 15
    BY DEF Bits
  <2>2. i <= k
    BY <1>3
  <2>3. QED
    BY <2>1, <2>2
<1>5. QED
  BY <1>2, <1>4

\* So pow2_ceil rounds up to the number of ones.
LEMMA FillAbove ==
  ASSUME NEW x \in Nat, NEW k \in 9 .. 13, 2^k < x, x <= 2 * (2^k)
  PROVE  pow2_ceil(x) = Number(0 .. k) + 1
<1>1. k \in 0 .. 15 /\ 2^k \in Nat
  <2>1. k \in 0 .. 15 /\ 15 \in 0 .. 15 /\ 15 > k
    OBVIOUS
  <2>2. QED
    BY <2>1, Doubling
<1>2. x # 0 /\ x - 1 \in Nat /\ 2^k <= x - 1 /\ x - 1 < 2 * (2^k)
  BY <1>1
<1> DEFINE B == Bits(x - 1)
<1>3. B \in SUBSET (0 .. k) /\ k \in B
  BY <1>2, TopBit
<1> HIDE DEF B
<1>4. OrShifted(OrShifted(OrShifted(OrShifted(OrShifted(B, 1), 2), 4), 8), 16) = 0 .. k
  BY <1>1, <1>3, FillBelow
<1>5. QED
  BY <1>2, <1>4 DEF pow2_ceil, B

\* The lengths that rounding up gives over the range of the clamp.
LEMMA LeastPower ==
  ASSUME NEW n \in Nat, 1024 <= n, n <= 16384
  PROVE  \/ pow2_ceil(n) = 1024 /\ n = 1024
         \/ pow2_ceil(n) = 2048 /\ 1024 < n /\ n <= 2048
         \/ pow2_ceil(n) = 4096 /\ 2048 < n /\ n <= 4096
         \/ pow2_ceil(n) = 8192 /\ 4096 < n /\ n <= 8192
         \/ pow2_ceil(n) = 16384 /\ 8192 < n /\ n <= 16384
<1>1. CASE n = 1024
  <2>1. 9 \in 9 .. 13 /\ 2^9 < n /\ n <= 2 * (2^9)
    BY <1>1, Powers
  <2>2. pow2_ceil(n) = Number(0 .. 9) + 1
    BY <2>1, FillAbove
  <2>3. QED
    BY <1>1, <2>2, AllOnes
<1>2. CASE 1024 < n /\ n <= 2048
  <2>1. 10 \in 9 .. 13 /\ 2^10 < n /\ n <= 2 * (2^10)
    BY <1>2, Powers
  <2>2. pow2_ceil(n) = Number(0 .. 10) + 1
    BY <2>1, FillAbove
  <2>3. QED
    BY <1>2, <2>2, AllOnes
<1>3. CASE 2048 < n /\ n <= 4096
  <2>1. 11 \in 9 .. 13 /\ 2^11 < n /\ n <= 2 * (2^11)
    BY <1>3, Powers
  <2>2. pow2_ceil(n) = Number(0 .. 11) + 1
    BY <2>1, FillAbove
  <2>3. QED
    BY <1>3, <2>2, AllOnes
<1>4. CASE 4096 < n /\ n <= 8192
  <2>1. 12 \in 9 .. 13 /\ 2^12 < n /\ n <= 2 * (2^12)
    BY <1>4, Powers
  <2>2. pow2_ceil(n) = Number(0 .. 12) + 1
    BY <2>1, FillAbove
  <2>3. QED
    BY <1>4, <2>2, AllOnes
<1>5. CASE 8192 < n /\ n <= 16384
  <2>1. 13 \in 9 .. 13 /\ 2^13 < n /\ n <= 2 * (2^13)
    BY <1>5, Powers
  <2>2. pow2_ceil(n) = Number(0 .. 13) + 1
    BY <2>1, FillAbove
  <2>3. QED
    BY <1>5, <2>2, AllOnes
<1>6. QED
  BY <1>1, <1>2, <1>3, <1>4, <1>5

\* The number of slots keeps to the clamp.
LEMMA SlotCount ==
  ASSUME max_connections \in Nat \ {0}
  PROVE  /\ compute_slot_size \in Nat /\ 1024 <= compute_slot_size /\ compute_slot_size <= 16384
         /\ max_connections < 16384 => max_connections <= compute_slot_size
         /\ max_connections < 16384 =>
              max_connections < compute_slot_size \/ compute_slot_size = 16384
BY DEF compute_slot_size

\* What the two hooks compute, and that the cut to 16 bits loses nothing.
LEMMA ShmemSizes ==
  ASSUME max_connections \in Nat \ {0}
  PROVE  /\ fga_channel_shmem_size =
              [slots |-> compute_slot_size, ring |-> pow2_ceil(compute_slot_size)]
         /\ fga_channel_shmem_init =
              [slots |-> compute_slot_size, ring |-> pow2_ceil(compute_slot_size),
               mask |-> pow2_ceil(compute_slot_size) - 1]
<1> DEFINE p == pow2_ceil(compute_slot_size)
<1>1. p \in {1024, 2048, 4096, 8192, 16384}
  <2> DEFINE n == compute_slot_size
  <2>1. n \in Nat /\ 1024 <= n /\ n <= 16384
    BY SlotCount
  <2> HIDE DEF n
  <2>2. pow2_ceil(n) \in {1024, 2048, 4096, 8192, 16384}
    BY <2>1, LeastPower
  <2>3. QED
    BY <2>2 DEF n
<1> HIDE DEF p
<1>2. U16(p) = p /\ U16(p - 1) = p - 1
  <2>1. p \in Nat /\ 0 < p /\ p < 65536
    BY <1>1
  <2>2. p % 65536 = p /\ (p - 1) % 65536 = p - 1
    BY <2>1
  <2>3. \A x : U16(x) = x % 65536
    BY Powers DEF U16
  <2>4. QED
    BY <2>2, <2>3
<1>3. QED
  BY <1>2 DEF fga_channel_shmem_init, fga_channel_shmem_size, p

\* Whatever max_connections is set to, the ring that shmem_startup builds is the
\* one shmem_request asked memory for, a power of two with room for every slot
\* and no more than twice that, and its mask survived the cut to uint16_t.
THEOREM RingAlwaysFits == max_connections \in Nat \ {0} => RingFits
<1> SUFFICES ASSUME max_connections \in Nat \ {0} PROVE RingFits
  OBVIOUS
<1> DEFINE n == compute_slot_size
           p == pow2_ceil(n)
<1>1. n \in Nat /\ 1024 <= n /\ n <= 16384
  BY SlotCount
<1> HIDE DEF n
<1>2. \/ p = 1024 /\ n = 1024
      \/ p = 2048 /\ 1024 < n /\ n <= 2048
      \/ p = 4096 /\ 2048 < n /\ n <= 4096
      \/ p = 8192 /\ 4096 < n /\ n <= 8192
      \/ p = 16384 /\ 8192 < n /\ n <= 16384
  BY <1>1, LeastPower
<1> HIDE DEF p
<1>3. n <= p /\ p < 2 * n /\ (p - 1) + 1 = p
  BY <1>1, <1>2
<1>4. \E j \in 0 .. 15 : p = 2^j
  <2>1. p = 2^10 \/ p = 2^11 \/ p = 2^12 \/ p = 2^13 \/ p = 2^14
    BY <1>2, Powers
  <2>2. 10 \in 0 .. 15 /\ 11 \in 0 .. 15 /\ 12 \in 0 .. 15 /\ 13 \in 0 .. 15 /\ 14 \in 0 .. 15
    OBVIOUS
  <2>3. QED
    BY <2>1, <2>2, Zenon
<1>5. /\ fga_channel_shmem_size = [slots |-> n, ring |-> p]
      /\ fga_channel_shmem_init = [slots |-> n, ring |-> p, mask |-> p - 1]
  BY ShmemSizes DEF n, p
<1>6. QED
  BY <1>3, <1>4, <1>5 DEF RingFits

\* Up to 16383 connections every backend has a slot, and all of their requests
\* fit in the queue at once.
THEOREM RoomAlways == max_connections \in Nat \ {0} => RoomForAll
<1> SUFFICES ASSUME max_connections \in Nat \ {0}, max_connections < 16384
             PROVE  /\ max_connections <= fga_channel_shmem_init.slots
                    /\ max_connections < fga_channel_shmem_init.ring
  BY DEF RoomForAll
<1> DEFINE n == compute_slot_size
           p == pow2_ceil(n)
<1>1. /\ n \in Nat /\ 1024 <= n /\ n <= 16384
      /\ max_connections <= n /\ (max_connections < n \/ n = 16384)
  BY SlotCount
<1> HIDE DEF n
<1>2. n <= p /\ p \in Nat
  BY <1>1, LeastPower
<1> HIDE DEF p
<1>3. fga_channel_shmem_init = [slots |-> n, ring |-> p, mask |-> p - 1]
  BY ShmemSizes DEF n, p
<1>4. max_connections < p
  BY <1>1, <1>2
<1>5. QED
  BY <1>1, <1>3, <1>4

\* The length that is computed for the ring is one RingImplementsFifo covers:
\* it meets what SlotQueue assumes of Capacity, with counters of 16 bits.
THEOREM RingIsAdmissible ==
  max_connections \in Nat \ {0} =>
    /\ fga_channel_shmem_init.ring \in Nat \ {0}
    /\ 2^16 % fga_channel_shmem_init.ring = 0
<1> SUFFICES ASSUME max_connections \in Nat \ {0}
             PROVE  /\ fga_channel_shmem_init.ring \in Nat \ {0}
                    /\ 2^16 % fga_channel_shmem_init.ring = 0
  OBVIOUS
<1> DEFINE n == compute_slot_size
           p == pow2_ceil(n)
<1>1. n \in Nat /\ 1024 <= n /\ n <= 16384
  BY SlotCount
<1> HIDE DEF n
<1>2. p = 1024 \/ p = 2048 \/ p = 4096 \/ p = 8192 \/ p = 16384
  BY <1>1, LeastPower
<1> HIDE DEF p
<1>3. p \in Nat \ {0} /\ 65536 % p = 0
  <2>1. p \in Nat \ {0}
    BY <1>2
  <2>2. /\ 65536 % 1024 = 0 /\ 65536 % 2048 = 0 /\ 65536 % 4096 = 0
        /\ 65536 % 8192 = 0 /\ 65536 % 16384 = 0
    OBVIOUS
  <2>3. QED
    BY <1>2, <2>1, <2>2
<1>4. 2^16 % p = 0
  BY <1>3, Powers
<1>5. fga_channel_shmem_init = [slots |-> n, ring |-> p, mask |-> p - 1]
  BY ShmemSizes DEF n, p
<1>6. QED
  BY <1>3, <1>4, <1>5
=============================================================================
