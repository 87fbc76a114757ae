--------------------------- MODULE ChannelSafety ---------------------------
(***************************************************************************)
(* The safety properties of the channel, for any number of backends and    *)
(* slots, any batch size and any queue, when no call is interrupted: the   *)
(* invariant IInv of ChannelInv is inductive and implies them.             *)
(***************************************************************************)
EXTENDS ChannelProofs, FiniteSetTheorems

----------------------------------------------------------------------------
(***************************************************************************)
(* Lemmas on the elements of a sequence.                                   *)
(***************************************************************************)

\* An empty queue has no elements.
LEMMA ElemsEmpty == Elems(<< >>) = {} /\ Distinct(<< >>)
BY DEF Elems, Distinct

\* The elements of a sequence of slots are slots.
LEMMA ElemsType ==
  ASSUME NEW S, NEW q \in Seq(S)
  PROVE  /\ Elems(q) \subseteq S
         /\ q # << >> <=> Elems(q) # {}
<1>1. Elems(q) \subseteq S
  BY DEF Elems
<1>2. ASSUME q # << >> PROVE Elems(q) # {}
  <2>1. Len(q) \in Nat /\ Len(q) # 0
    BY <1>2
  <2>2. q[1] \in Elems(q)
    BY <2>1 DEF Elems
  <2>3. QED
    BY <2>2
<1>3. QED
  BY <1>1, <1>2 DEF Elems

\* Appending adds one element, and repeats none if it is new.
LEMMA ElemsAppend ==
  ASSUME NEW S, NEW q \in Seq(S), NEW s \in S
  PROVE  /\ Elems(Append(q, s)) = Elems(q) \cup {s}
         /\ Distinct(q) /\ s \notin Elems(q) => Distinct(Append(q, s))
<1> DEFINE a == Append(q, s)
<1>1. /\ Len(a) = Len(q) + 1 /\ Len(q) \in Nat
      /\ \A i \in 1 .. Len(q) : a[i] = q[i]
      /\ a[Len(q) + 1] = s
  OBVIOUS
<1> HIDE DEF a
<1>2. Elems(a) = Elems(q) \cup {s}
  BY <1>1 DEF Elems
<1>3. Distinct(q) /\ s \notin Elems(q) => Distinct(a)
  BY <1>1 DEF Elems, Distinct
<1>4. QED
  BY <1>2, <1>3 DEF a

\* Taking the head off removes that element and no other.
LEMMA ElemsTail ==
  ASSUME NEW S, NEW q \in Seq(S), q # << >>
  PROVE  /\ Head(q) \in S /\ Head(q) \in Elems(q)
         /\ Elems(q) = Elems(Tail(q)) \cup {Head(q)}
         /\ Distinct(q) => Distinct(Tail(q)) /\ Head(q) \notin Elems(Tail(q))
<1> DEFINE t == Tail(q)
           h == Head(q)
<1>1. /\ Len(q) \in Nat /\ Len(q) > 0 /\ Len(t) = Len(q) - 1
      /\ \A i \in 1 .. Len(t) : t[i] = q[i + 1]
      /\ h = q[1] /\ q[1] \in S
  OBVIOUS
<1> HIDE DEF t, h
<1>2. h \in Elems(q)
  BY <1>1 DEF Elems
<1>3. Elems(t) \subseteq Elems(q)
  BY <1>1 DEF Elems
<1>4. Elems(q) \subseteq Elems(t) \cup {h}
  <2> SUFFICES ASSUME NEW i \in 1 .. Len(q) PROVE q[i] \in Elems(t) \cup {h}
    BY DEF Elems
  <2>1. CASE i = 1
    BY <1>1, <2>1
  <2>2. CASE i # 1
    <3>1. i - 1 \in 1 .. Len(t) /\ t[i - 1] = q[i]
      BY <1>1, <2>2
    <3>2. QED
      BY <3>1 DEF Elems
  <2>3. QED
    BY <2>1, <2>2
<1>5. Distinct(q) => Distinct(t) /\ h \notin Elems(t)
  <2> SUFFICES ASSUME Distinct(q) PROVE Distinct(t) /\ h \notin Elems(t)
    OBVIOUS
  <2>1. Distinct(t)
    BY <1>1 DEF Distinct
  <2>2. ASSUME NEW i \in 1 .. Len(t), t[i] = h PROVE FALSE
    <3>1. q[i + 1] = q[1] /\ i + 1 \in 1 .. Len(q) /\ 1 \in 1 .. Len(q)
      BY <1>1, <2>2
    <3>2. i + 1 = 1
      BY <3>1 DEF Distinct
    <3>3. QED
      BY <3>2
  <2>3. QED
    BY <2>1, <2>2 DEF Elems
<1>6. QED
  BY <1>1, <1>2, <1>3, <1>4, <1>5 DEF t, h

\* Draining n elements splits the queue in two disjoint parts.
LEMMA ElemsSplit ==
  ASSUME NEW S, NEW q \in Seq(S), NEW n \in 0 .. Len(q)
  PROVE  /\ Elems(q) = Elems(SubSeq(q, 1, n)) \cup Elems(SubSeq(q, n + 1, Len(q)))
         /\ Distinct(q) =>
              /\ Distinct(SubSeq(q, 1, n))
              /\ Distinct(SubSeq(q, n + 1, Len(q)))
              /\ Elems(SubSeq(q, 1, n)) \cap Elems(SubSeq(q, n + 1, Len(q))) = {}
<1> DEFINE f == SubSeq(q, 1, n)
           l == SubSeq(q, n + 1, Len(q))
<1>1. /\ Len(q) \in Nat /\ n \in Nat /\ n <= Len(q)
      /\ Len(f) = n /\ Len(l) = Len(q) - n
  OBVIOUS
<1>2. \A i \in 1 .. Len(f) : f[i] = q[i] /\ i \in 1 .. Len(q)
  BY <1>1
<1>3. \A i \in 1 .. Len(l) : l[i] = q[n + i] /\ n + i \in 1 .. Len(q)
  <2> SUFFICES ASSUME NEW i \in 1 .. Len(l)
               PROVE  l[i] = q[n + i] /\ n + i \in 1 .. Len(q)
    OBVIOUS
  <2>1. i \in 1 .. Len(q) - n /\ (n + 1) + i - 1 = n + i
    BY <1>1
  <2>2. l[i] = q[(n + 1) + i - 1]
    BY <1>1, <2>1
  <2>3. QED
    BY <1>1, <2>1, <2>2
<1> HIDE DEF f, l
<1>4. Elems(f) \subseteq Elems(q) /\ Elems(l) \subseteq Elems(q)
  BY <1>2, <1>3 DEF Elems
<1>5. Elems(q) \subseteq Elems(f) \cup Elems(l)
  <2> SUFFICES ASSUME NEW i \in 1 .. Len(q) PROVE q[i] \in Elems(f) \cup Elems(l)
    BY DEF Elems
  <2>1. CASE i <= n
    BY <1>1, <1>2, <2>1 DEF Elems
  <2>2. CASE i > n
    <3>1. i - n \in 1 .. Len(l) /\ l[i - n] = q[i]
      BY <1>1, <1>3, <2>2
    <3>2. QED
      BY <3>1 DEF Elems
  <2>3. QED
    BY <1>1, <2>1, <2>2
<1>6. ASSUME Distinct(q) PROVE Distinct(f) /\ Distinct(l)
  <2>1. Distinct(f)
    BY <1>2, <1>6 DEF Distinct
  <2>2. ASSUME NEW i \in 1 .. Len(l), NEW j \in 1 .. Len(l), l[i] = l[j]
        PROVE  i = j
    <3>1. /\ q[n + i] = q[n + j]
          /\ n + i \in 1 .. Len(q) /\ n + j \in 1 .. Len(q)
      BY <1>3, <2>2
    <3>2. n + i = n + j
      BY <1>6, <3>1 DEF Distinct
    <3>3. QED
      BY <1>1, <3>2
  <2>3. QED
    BY <2>1, <2>2 DEF Distinct
<1>7. ASSUME Distinct(q) PROVE Elems(f) \cap Elems(l) = {}
  <2> SUFFICES ASSUME NEW i \in 1 .. Len(f), NEW j \in 1 .. Len(l), f[i] = l[j]
               PROVE  FALSE
    BY DEF Elems
  <2>1. q[i] = q[n + j] /\ i \in 1 .. Len(q) /\ n + j \in 1 .. Len(q)
    BY <1>2, <1>3
  <2>2. i = n + j
    BY <1>7, <2>1 DEF Distinct
  <2>3. QED
    BY <1>1, <2>2
<1>8. QED
  BY <1>4, <1>5, <1>6, <1>7 DEF f, l

----------------------------------------------------------------------------
(***************************************************************************)
(* Consequences of the invariant that the steps below rest on.             *)
(***************************************************************************)

\* What a backend holds the BGW refers to only while the backend waits.
LEMMA HeldNotReferenced ==
  ASSUME IInv, NEW b \in Backends, slot[b] # NULL, pc[b] \notin Outstanding
  PROVE  slot[b] \in Slots /\ slot[b] \notin Refs
BY DEF IInv, TypeOK, SlotExclusive, NoOrphan

\* Everything the BGW refers to is a slot that some waiting backend holds.
LEMMA Owner ==
  ASSUME IInv, NEW s \in Refs
  PROVE  /\ s \in Slots
         /\ \E b \in Backends : slot[b] = s /\ pc[b] \in Outstanding
<1>1. PICK b \in Backends : slot[b] = s /\ pc[b] \in Outstanding
  BY DEF IInv, NoOrphan
<1>2. slot[b] # NULL
  BY <1>1 DEF IInv, Holding, Outstanding
<1>3. QED
  BY <1>1, <1>2 DEF IInv, TypeOK

\* The sets of slots the BGW refers to, when it does not move.
LEMMA BgwFrame ==
  ASSUME UNCHANGED <<bgwVars, grpcVars>>
  PROVE  /\ Elems(batch)' = Elems(batch) /\ Distinct(batch)' = Distinct(batch)
         /\ Elems(items)' = Elems(items) /\ Distinct(items)' = Distinct(items)
         /\ Elems(local)' = Elems(local) /\ Distinct(local)' = Distinct(local)
         /\ Elems(completed)' = Elems(completed)
         /\ Distinct(completed)' = Distinct(completed)
         /\ InFlight' = InFlight /\ InFlightSlots' = InFlightSlots
         /\ Closing' = Closing /\ Working' = Working
<1>1. /\ batch' = batch /\ items' = items /\ local' = local
      /\ completed' = completed /\ inflight' = inflight
      /\ bpc' = bpc /\ bslot' = bslot
  BY DEF bgwVars, grpcVars
<1>2. /\ Elems(batch)' = Elems(batch) /\ Elems(items)' = Elems(items)
      /\ Elems(local)' = Elems(local)
      /\ Elems(completed)' = Elems(completed)
  BY <1>1 DEF Elems
<1>3. /\ Distinct(batch)' = Distinct(batch) /\ Distinct(items)' = Distinct(items)
      /\ Distinct(local)' = Distinct(local)
      /\ Distinct(completed)' = Distinct(completed)
  BY <1>1 DEF Distinct
<1>4. InFlight' = InFlight /\ InFlightSlots' = InFlightSlots
  BY <1>1 DEF InFlight, InFlightSlots
<1>5. Closing' = Closing
  BY <1>1 DEF Closing
<1>6. QED
  BY <1>2, <1>3, <1>4, <1>5 DEF Working

\* Steps of a backend that leave the state words, the free list and the queue
\* alone and begin no wait, nor end one the BGW knows of: they may drop a slot.
LEMMA QuietStep ==
  ASSUME IInv, TypeOK',
         UNCHANGED <<state, head, next, queue, bgwVars, grpcVars>>,
         \A c \in Backends : slot'[c] = slot[c] \/ slot'[c] = NULL,
         \A c \in Backends :
           pc'[c] \in Outstanding => pc[c] \in Outstanding /\ slot'[c] = slot[c],
         \A c \in Backends :
           pc[c] \in Outstanding /\ slot[c] \in Refs
             => pc'[c] \in Outstanding /\ slot'[c] = slot[c]
  PROVE  /\ Waiting' = Waiting /\ Refs' = Refs
         /\ SlotExclusive' /\ FreeList' /\ StateOfRefs'
         /\ RequestInOnePlace' /\ NoOrphan'
<1>1. /\ Elems(queue)' = Elems(queue) /\ Distinct(queue)' = Distinct(queue)
      /\ Waiting' = Waiting /\ Refs' = Refs
  <2>1. Elems(queue)' = Elems(queue)
    BY DEF Elems
  <2>2. Distinct(queue)' = Distinct(queue)
    BY DEF Distinct
  <2>3. QED
    BY <2>1, <2>2, BgwFrame DEF Waiting, Refs
<1> USE DEF IInv
<1>2. SlotExclusive'
  BY DEF SlotExclusive
<1>3. FreeList'
  BY DEF FreeList
<1>4. StateOfRefs'
  BY <1>1, BgwFrame DEF StateOfRefs
<1>5. RequestInOnePlace'
  BY <1>1, BgwFrame DEF RequestInOnePlace, grpcVars
<1>6. NoOrphan'
  BY <1>1 DEF NoOrphan
<1>7. QED
  BY <1>1, <1>2, <1>3, <1>4, <1>5, <1>6

\* A slot that only one backend uses: no other backend holds it, no RPC and no
\* list of the BGW refers to it.
LEMMA OthersElsewhere ==
  ASSUME IInv, NEW b \in Backends, slot[b] # NULL, pc[b] \notin Outstanding
  PROVE  /\ \A c \in Backends \ {b} : slot[c] \in Slots \ {slot[b]} \/ slot[c] = NULL
         /\ \A r \in InFlight : r.slot \in Slots \ {slot[b]}
         /\ \A u \in Elems(completed) \cup Elems(local) \cup Closing :
              u \in Slots \ {slot[b]}
<1>1. slot[b] \notin Refs
  BY HeldNotReferenced
<1>2. \A c \in Backends \ {b} : slot[c] \in Slots \ {slot[b]} \/ slot[c] = NULL
  BY DEF IInv, TypeOK, SlotExclusive
<1>3. \A r \in InFlight : r.slot \in Slots \ {slot[b]}
  BY <1>1 DEF InFlightSlots, InFlight, Refs, Working, Rpc
<1>4. \A u \in Elems(completed) \cup Elems(local) \cup Closing :
        u \in Slots \ {slot[b]}
  BY <1>1, Owner DEF Refs, Working
<1>5. QED
  BY <1>2, <1>3, <1>4

\* Storing pid, zeroed payload and id disturbs no other request.
LEMMA PrepareInv ==
  ASSUME IInv, TypeOK', NEW b \in Backends, Prepare(b)
  PROVE  IInv'
<1> DEFINE s == slot[b]
<1>1. /\ pc[b] = "prepare"
      /\ UNCHANGED <<state, head, next, queue, latch, bgw_latch, op, slot,
                     rid, bgwVars, grpcVars>>
  BY DEF Prepare, Goto
<1>2. s \in Slots /\ s \notin Refs
  BY <1>1, HeldNotReferenced DEF IInv, Holding, Outstanding
<1>3. /\ pc'[b] = "fill" /\ \A c \in Backends \ {b} : pc'[c] = pc[c]
      /\ backend_pid'[s] = b /\ request'[s].id = rid[b]
      /\ \A u \in Slots \ {s} : /\ backend_pid'[u] = backend_pid[u]
                                /\ request'[u] = request[u]
                                /\ response'[u] = response[u]
  BY <1>2 DEF Prepare, Goto, IInv, TypeOK
<1> HIDE DEF s
<1>4. \A c \in Backends : pc'[c] \in Outstanding <=> pc[c] \in Outstanding
  BY <1>1, <1>3 DEF Outstanding
<1>5. /\ SlotExclusive' /\ FreeList' /\ StateOfRefs'
      /\ RequestInOnePlace' /\ NoOrphan'
  BY <1>1, <1>4, QuietStep
<1> USE DEF IInv
<1>6. Holding'
  BY <1>1, <1>3 DEF Holding, Prepared
<1>7. StateOfHeld'
  BY <1>1, <1>3 DEF StateOfHeld
<1>8. BgwLoops'
  BY <1>1, <1>2, <1>3 DEF BgwLoops, bgwVars
<1>9. Identity'
  BY <1>1, <1>2, <1>3, OthersElsewhere, BgwFrame
     DEF Identity, Outstanding, Prepared, Holding, s
<1>10. NoLostWakeup'
  BY <1>1, <1>3 DEF NoLostWakeup, bgwVars
<1>11. Served'
  BY <1>1, <1>3, BgwFrame DEF Served, bgwVars, grpcVars
<1>12. QED
  BY <1>5, <1>6, <1>7, <1>8, <1>9, <1>10, <1>11

\* Filling the request, or failing to, keeps the invariant.
LEMMA FillInv ==
  ASSUME IInv, TypeOK', NEW b \in Backends, Fill(b) \/ FillError(b)
  PROVE  IInv'
<1> DEFINE s == slot[b]
<1>1. /\ pc[b] = "fill"
      /\ request' = [request EXCEPT ![s].type = op[b]]
      /\ UNCHANGED <<state, backend_pid, response, head, next, queue, latch,
                     bgw_latch, rid, bgwVars, grpcVars>>
  <2>1. CASE Fill(b)
    BY <2>1 DEF Fill, Goto
  <2>2. CASE FillError(b)
    BY <2>2 DEF FillError, Raise, End
  <2>3. QED
    BY <2>1, <2>2
<1>2. /\ \A c \in Backends \ {b} :
           pc'[c] = pc[c] /\ slot'[c] = slot[c] /\ op'[c] = op[c]
      /\ \/ pc'[b] = "enqueue" /\ slot'[b] = s /\ op'[b] = op[b]
         \/ pc'[b] = "catchRelease" /\ slot'[b] = s /\ op'[b] = op[b]
         \/ pc'[b] = "idle" /\ slot'[b] = NULL
  <2>1. CASE Fill(b)
    BY <2>1 DEF Fill, Goto, IInv, TypeOK
  <2>2. CASE FillError(b)
    BY <2>2 DEF FillError, Raise, End, IInv, TypeOK
  <2>3. QED
    BY <2>1, <2>2
<1>3. s \in Slots /\ s \notin Refs
  BY <1>1, HeldNotReferenced DEF IInv, Holding, Outstanding
<1>4. /\ request'[s].id = request[s].id /\ request'[s].type = op[b]
      /\ \A u \in Slots \ {s} : request'[u] = request[u]
  BY <1>1, <1>3 DEF IInv, TypeOK, Request
<1> HIDE DEF s
<1>5. \A c \in Backends :
        /\ slot'[c] = slot[c] \/ slot'[c] = NULL
        /\ pc'[c] \in Outstanding <=> pc[c] \in Outstanding
        /\ pc[c] \in Outstanding => slot'[c] = slot[c]
  BY <1>1, <1>2 DEF Outstanding, s
<1>6. /\ SlotExclusive' /\ FreeList' /\ StateOfRefs'
      /\ RequestInOnePlace' /\ NoOrphan'
  BY <1>1, <1>5, QuietStep
<1> USE DEF IInv
<1>7. Holding'
  BY <1>1, <1>2, <1>3, NullAssumption DEF Holding, Prepared, s
<1>8. StateOfHeld'
  BY <1>1, <1>2 DEF StateOfHeld, s
<1>9. BgwLoops'
  BY <1>1 DEF BgwLoops, bgwVars
<1>10. Identity'
  BY <1>1, <1>2, <1>3, <1>4, OthersElsewhere, BgwFrame
     DEF Identity, Outstanding, Prepared, Holding, s
<1>11. NoLostWakeup'
  BY <1>1, <1>2 DEF NoLostWakeup, bgwVars
<1>12. Served'
  BY <1>1, <1>2, BgwFrame DEF Served, bgwVars, grpcVars
<1>13. QED
  BY <1>6, <1>7, <1>8, <1>9, <1>10, <1>11, <1>12

\* Only fga_check finds the queue full: with a queue for every backend there
\* is, besides the one that enqueues, a distinct waiting owner per index.
LEMMA FullOnlyForCheck ==
  ASSUME IInv, Room, NEW b \in Backends, pc[b] = "enqueue",
         Len(queue) >= QueueCapacity - 1
  PROVE  ~HasCatch(op[b])
<1>1. CASE Ops \subseteq {"check"}
  BY <1>1 DEF IInv, Holding, HasCatch
<1>2. CASE IsFiniteSet(Backends) /\ Cardinality(Backends) < QueueCapacity
  <2> DEFINE Q == 1 .. Len(queue)
             T == Backends \ {b}
             f == [i \in Q |-> CHOOSE c \in Backends :
                                 slot[c] = queue[i] /\ pc[c] \in Outstanding]
  <2>1. Len(queue) \in Nat /\ queue \in Seq(Slots)
    BY DEF IInv, TypeOK
  <2>2. \A i \in Q : queue[i] \in Refs
    BY DEF Elems, Waiting, Refs
  <2>3. \A i \in Q : \E c \in Backends :
          slot[c] = queue[i] /\ pc[c] \in Outstanding
    BY <2>2, Owner
  <2>4. \A i \in Q : /\ f[i] \in Backends /\ slot[f[i]] = queue[i]
                     /\ pc[f[i]] \in Outstanding
    BY <2>3
  <2>5. f \in [Q -> T]
    BY <2>4 DEF Outstanding
  <2>6. IsFiniteSet(T) /\ Cardinality(T) = Cardinality(Backends) - 1
    BY <1>2, FS_RemoveElement
  <2>7. IsFiniteSet(Q) /\ Cardinality(Q) = Len(queue)
    BY <2>1, FS_Interval
  <2>8. Cardinality(Backends) \in Nat
    BY <1>2, FS_CardinalityType
  <2>9. Cardinality(T) < Cardinality(Q)
    BY <1>2, <2>1, <2>6, <2>7, <2>8, QueueCapacityAssumption
  <2> HIDE DEF f, T, Q
  <2>10. PICK x, y \in Q : x # y /\ f[x] = f[y]
    BY <2>5, <2>6, <2>7, <2>9, FS_PigeonHole
  <2>11. queue[x] = queue[y]
    BY <2>4, <2>10
  <2>12. QED
    BY <2>10, <2>11 DEF IInv, RequestInOnePlace, Distinct, Q
<1>3. QED
  BY <1>1, <1>2 DEF Room

\* AcquireFail, EnqueueFull, WakeBgw, Check, Wake and OtherSignal write no slot
\* and no queue.
LEMMA MoveInv ==
  ASSUME IInv, TypeOK', Room, NEW b \in Backends,
         AcquireFail(b) \/ EnqueueFull(b) \/ WakeBgw(b) \/ Check(b) \/ Wake(b)
           \/ OtherSignal(b)
  PROVE  IInv'
<1> DEFINE s == slot[b]
<1>1. /\ UNCHANGED <<slotVars, queue, rid, slot, bgwVars, grpcVars>>
      /\ \A c \in Backends \ {b} :
           pc'[c] = pc[c] /\ op'[c] = op[c] /\ latch'[c] = latch[c]
      /\ bgw_latch' = bgw_latch \/ bgw_latch' = TRUE
      /\ \/ pc[b] = "idle" /\ pc'[b] = "idle"
         \/ /\ pc[b] = "enqueue" /\ pc'[b] = "rollback" /\ op'[b] = op[b]
            /\ Len(queue) >= QueueCapacity - 1
         \/ /\ pc[b] = "wakebgw" /\ pc'[b] = "check" /\ op'[b] = op[b]
            /\ bgw_latch'
         \/ /\ pc[b] = "check" /\ pc'[b] = "sleep" /\ op'[b] = op[b]
            /\ state[s] # "DONE"
         \/ /\ pc[b] = "check" /\ pc'[b] = "respond" /\ op'[b] = op[b]
            /\ state[s] = "DONE"
         \/ pc[b] = "sleep" /\ pc'[b] = "check" /\ op'[b] = op[b]
         \/ pc[b] = "sleep" /\ pc'[b] = "sleep" /\ op'[b] = op[b] /\ latch'[b]
  <2>1. CASE AcquireFail(b)
    <3>1. slot[b] = NULL
      BY <2>1 DEF AcquireFail, IInv, Holding
    <3>2. slot' = slot
      BY <2>1, <3>1 DEF AcquireFail, End, IInv, TypeOK
    <3>3. QED
      BY <2>1, <3>2 DEF AcquireFail, End, IInv, TypeOK
  <2>2. CASE EnqueueFull(b)
    BY <2>2 DEF EnqueueFull, Goto, IInv, TypeOK
  <2>3. CASE WakeBgw(b)
    BY <2>3 DEF WakeBgw, Goto, IInv, TypeOK
  <2>4. CASE Check(b)
    <3>1. s \in Slots
      BY <2>4 DEF Check, Goto, IInv, TypeOK, Holding
    <3>2. state[s] # "CANCELED"
      BY <3>1 DEF IInv, StateOfRefs
    <3>3. QED
      BY <2>4, <3>2 DEF Check, Goto, IInv, TypeOK
  <2>5. CASE Wake(b)
    BY <2>5 DEF Wake, Goto, IInv, TypeOK
  <2>6. CASE OtherSignal(b)
    BY <2>6 DEF OtherSignal, IInv, TypeOK, backendVars
  <2>7. QED
    BY <2>1, <2>2, <2>3, <2>4, <2>5, <2>6
<1>2. UNCHANGED <<state, backend_pid, request, response, head, next, queue>>
  BY <1>1 DEF slotVars
<1>3. s \in Refs => state[s] # "DONE"
  BY DEF IInv, StateOfRefs, Refs
<1> HIDE DEF s
<1>4. /\ \A c \in Backends : pc'[c] \in Outstanding => pc[c] \in Outstanding
      /\ \A c \in Backends : pc[c] \in Outstanding /\ slot[c] \in Refs
                               => pc'[c] \in Outstanding
  BY <1>1, <1>3 DEF Outstanding, s
<1>5. /\ SlotExclusive' /\ FreeList' /\ StateOfRefs'
      /\ RequestInOnePlace' /\ NoOrphan'
  BY <1>1, <1>2, <1>4, QuietStep
<1> USE DEF IInv
<1>6. Holding'
  <2>1. pc'[b] = "rollback" => pc[b] = "enqueue" /\ ~HasCatch(op[b])
    BY <1>1, FullOnlyForCheck
  <2>2. QED
    BY <1>1, <2>1 DEF Holding, Prepared
<1>7. StateOfHeld'
  BY <1>1, <1>2 DEF StateOfHeld, s
<1>8. BgwLoops'
  BY <1>1, <1>2 DEF BgwLoops, bgwVars
<1>9. Identity'
  BY <1>1, <1>2, BgwFrame DEF Identity, Outstanding, Prepared, s
<1>10. NoLostWakeup'
  BY <1>1, <1>2 DEF NoLostWakeup, bgwVars, s
<1>11. Served'
  BY <1>1, <1>2, BgwFrame DEF Served, bgwVars, grpcVars
<1>12. QED
  BY <1>5, <1>6, <1>7, <1>8, <1>9, <1>10, <1>11

\* The sets of slots the BGW refers to, when the queue does not move either.
LEMMA RefsFrame ==
  ASSUME UNCHANGED <<queue, bgwVars, grpcVars>>
  PROVE  /\ Elems(queue)' = Elems(queue) /\ Distinct(queue)' = Distinct(queue)
         /\ Waiting' = Waiting /\ Refs' = Refs
<1>1. Elems(queue)' = Elems(queue)
  BY DEF Elems
<1>2. Distinct(queue)' = Distinct(queue)
  BY DEF Distinct
<1>3. QED
  BY <1>1, <1>2, BgwFrame DEF Waiting, Refs

\* The steps with which a call gives its slot back and ends.
LEMMA ReleaseInv ==
  ASSUME IInv, TypeOK', NEW b \in Backends,
         Rollback(b) \/ Respond(b) \/ CatchRelease(b)
  PROVE  IInv'
<1> DEFINE s == slot[b]
<1>1. /\ pc[b] \in {"rollback", "respond", "catchRelease"}
      /\ Release(s)
      /\ \E r \in {"true", "false", "error"} : End(b, r)
      /\ UNCHANGED <<queue, latch, bgw_latch, bgwVars, grpcVars>>
  <2>1. CASE Rollback(b)
    <3>1. ~HasCatch(op[b])
      BY <2>1 DEF Rollback, IInv, Holding
    <3>2. QED
      BY <2>1, <3>1 DEF Rollback, Raise
  <2>2. CASE Respond(b)
    <3>1. \A r \in Returned(b) : r \in {"true", "false", "error"}
      BY DEF Returned
    <3>2. QED
      BY <2>2, <3>1 DEF Respond
  <2>3. CASE CatchRelease(b)
    BY <2>3 DEF CatchRelease
  <2>4. QED
    BY <2>1, <2>2, <2>3
<1>2. s \in Slots /\ s \notin Refs /\ state[s] # "EMPTY"
  BY <1>1, HeldNotReferenced DEF IInv, Holding, Outstanding, SlotExclusive
<1>3. /\ pc'[b] = "idle" /\ slot'[b] = NULL /\ rid' = rid
      /\ \A c \in Backends \ {b} :
           pc'[c] = pc[c] /\ slot'[c] = slot[c] /\ op'[c] = op[c]
  BY <1>1 DEF End, IInv, TypeOK
<1>4. /\ state'[s] = "EMPTY" /\ next'[s] = head /\ head' = s
      /\ \A u \in Slots \ {s} : state'[u] = state[u] /\ next'[u] = next[u]
      /\ UNCHANGED <<backend_pid, request, response>>
  BY <1>1, <1>2 DEF Release, IInv, TypeOK
<1>5. \A c \in Backends \ {b} : slot[c] \in Slots \ {s} \/ slot[c] = NULL
  BY <1>1, OthersElsewhere DEF IInv, Holding, Outstanding
<1>6. \A u \in Refs : u \in Slots \ {s}
  BY <1>2, Owner
<1> HIDE DEF s
<1> USE DEF IInv
<1>7. Holding'
  BY <1>3 DEF Holding
<1>8. SlotExclusive'
  BY <1>3, <1>4, <1>5 DEF SlotExclusive
<1>9. FreeList'
  <2> DEFINE free == {u \in Slots : state[u] = "EMPTY"}
  <2>1. free' = free \cup {s} /\ s \notin free
    BY <1>2, <1>4
  <2>2. QED
    BY <1>2, <1>4, <2>1 DEF FreeList
<1>10. StateOfHeld'
  BY <1>3, <1>4, <1>5 DEF StateOfHeld, Holding
<1>11. StateOfRefs'
  BY <1>1, <1>2, <1>4, <1>6, RefsFrame, BgwFrame DEF StateOfRefs, Refs
<1>12. RequestInOnePlace'
  BY <1>1, RefsFrame, BgwFrame DEF RequestInOnePlace, grpcVars
<1>13. NoOrphan'
  <2>1. \A c \in Backends : pc'[c] \in Outstanding => c # b
    BY <1>3 DEF Outstanding
  <2>2. \A c \in Backends : pc[c] \in Outstanding => c # b
    BY <1>1 DEF Outstanding
  <2>3. \A c \in Backends \ {b} : pc[c] \in Outstanding => slot[c] \in Slots \ {s}
    BY <1>5 DEF Holding, Outstanding
  <2>4. QED
    BY <1>1, <1>3, <1>4, <2>1, <2>2, <2>3, RefsFrame DEF NoOrphan
<1>14. BgwLoops'
  BY <1>1, <1>4 DEF BgwLoops, bgwVars
<1>15. Identity'
  BY <1>1, <1>3, <1>4, <1>5, BgwFrame
     DEF Identity, Holding, Outstanding, Prepared
<1>16. NoLostWakeup'
  BY <1>1, <1>3, <1>4, <1>5 DEF NoLostWakeup, Holding, bgwVars
<1>17. Served'
  BY <1>1, <1>3, BgwFrame DEF Served, bgwVars, grpcVars
<1>18. QED
  BY <1>7, <1>8, <1>9, <1>10, <1>11, <1>12, <1>13, <1>14, <1>15, <1>16, <1>17

\* Popping the head of the free list takes a slot nobody refers to.
LEMMA AcquireInv ==
  ASSUME IInv, TypeOK', NEW b \in Backends, NEW o \in Ops, Acquire(b, o)
  PROVE  IInv'
<1> DEFINE s == head
<1>1. /\ pc[b] = "idle" /\ s # NULL
      /\ UNCHANGED <<backend_pid, request, response, next, queue, latch,
                     bgw_latch, bgwVars, grpcVars>>
  BY DEF Acquire, Goto
<1>2. s \in Slots /\ state[s] = "EMPTY"
  BY <1>1 DEF IInv, FreeList
<1>3. /\ pc'[b] = "prepare" /\ slot'[b] = s /\ op'[b] = o
      /\ \A c \in Backends \ {b} :
           /\ pc'[c] = pc[c] /\ slot'[c] = slot[c] /\ op'[c] = op[c]
           /\ rid'[c] = rid[c]
  BY DEF Acquire, Goto, IInv, TypeOK
<1>4. /\ state'[s] = "PENDING" /\ head' = next[s]
      /\ \A u \in Slots \ {s} : state'[u] = state[u]
  BY <1>2 DEF Acquire, IInv, TypeOK
<1>5. \A c \in Backends \ {b} : slot[c] \in Slots \ {s} \/ slot[c] = NULL
  BY <1>2 DEF IInv, SlotExclusive, TypeOK
<1>6. \A u \in Refs : u \in Slots \ {s}
  BY <1>2, Owner DEF IInv, StateOfRefs, Refs
<1> HIDE DEF s
<1> USE DEF IInv
<1>7. Holding'
  BY <1>2, <1>3, NullAssumption DEF Holding
<1>8. SlotExclusive'
  BY <1>3, <1>4, <1>5 DEF SlotExclusive
<1>9. FreeList'
  <2> DEFINE free == {u \in Slots : state[u] = "EMPTY"}
  <2>1. free' = free \ {s} /\ s \in free
    BY <1>2, <1>4
  <2>2. QED
    BY <1>1, <1>2, <1>4, <2>1 DEF FreeList, s
<1>10. StateOfHeld'
  BY <1>3, <1>4, <1>5 DEF StateOfHeld, Holding
<1>11. StateOfRefs'
  BY <1>1, <1>2, <1>4, <1>6, RefsFrame, BgwFrame DEF StateOfRefs, Refs
<1>12. RequestInOnePlace'
  BY <1>1, RefsFrame, BgwFrame DEF RequestInOnePlace, grpcVars
<1>13. NoOrphan'
  <2>1. \A c \in Backends : pc'[c] \in Outstanding => c # b
    BY <1>3 DEF Outstanding
  <2>2. \A c \in Backends : pc[c] \in Outstanding => c # b
    BY <1>1 DEF Outstanding
  <2>3. \A c \in Backends \ {b} : pc[c] \in Outstanding => slot[c] \in Slots \ {s}
    BY <1>5 DEF Holding, Outstanding
  <2>4. QED
    BY <1>1, <1>3, <1>4, <2>1, <2>2, <2>3, RefsFrame DEF NoOrphan
<1>14. BgwLoops'
  BY <1>1 DEF BgwLoops, bgwVars
<1>15. Identity'
  BY <1>1, <1>3, <1>4, <1>5, BgwFrame
     DEF Identity, Holding, Outstanding, Prepared
<1>16. NoLostWakeup'
  BY <1>1, <1>3, <1>4, <1>5 DEF NoLostWakeup, Holding, bgwVars
<1>17. Served'
  BY <1>1, <1>3, BgwFrame DEF Served, bgwVars, grpcVars
<1>18. QED
  BY <1>7, <1>8, <1>9, <1>10, <1>11, <1>12, <1>13, <1>14, <1>15, <1>16, <1>17

\* Enqueueing turns a held slot into one the BGW refers to.
LEMMA EnqueueInv ==
  ASSUME IInv, TypeOK', NEW b \in Backends, Enqueue(b)
  PROVE  IInv'
<1> DEFINE s == slot[b]
<1>1. /\ pc[b] = "enqueue" /\ queue' = Append(queue, s)
      /\ UNCHANGED <<slotVars, latch, bgw_latch, op, slot, rid, bgwVars,
                     grpcVars>>
      /\ pc'[b] = "wakebgw" /\ \A c \in Backends \ {b} : pc'[c] = pc[c]
  BY DEF Enqueue, Goto, IInv, TypeOK
<1>2. s \in Slots /\ s \notin Refs /\ state[s] = "PENDING"
  BY <1>1, HeldNotReferenced DEF IInv, Holding, Outstanding, StateOfHeld
<1>3. UNCHANGED <<state, backend_pid, request, response, head, next>>
  BY <1>1 DEF slotVars
<1>4. /\ Elems(queue)' = Elems(queue) \cup {s}
      /\ Distinct(queue)'
  <2>1. /\ Elems(Append(queue, s)) = Elems(queue) \cup {s}
        /\ Distinct(queue) /\ s \notin Elems(queue) => Distinct(Append(queue, s))
    BY <1>2, ElemsAppend DEF IInv, TypeOK
  <2>2. QED
    BY <1>1, <1>2, <2>1 DEF IInv, RequestInOnePlace, Refs, Waiting
<1>5. Waiting' = Waiting \cup {s} /\ Refs' = Refs \cup {s}
  BY <1>1, <1>4, BgwFrame DEF Waiting, Refs
<1> HIDE DEF s
<1> USE DEF IInv
<1>6. Holding'
  BY <1>1 DEF Holding, Prepared
<1>7. SlotExclusive'
  BY <1>1, <1>3 DEF SlotExclusive
<1>8. FreeList'
  BY <1>3 DEF FreeList
<1>9. StateOfHeld'
  BY <1>1, <1>3 DEF StateOfHeld
<1>10. StateOfRefs'
  BY <1>1, <1>2, <1>3, <1>5, BgwFrame DEF StateOfRefs
<1>11. RequestInOnePlace'
  BY <1>1, <1>2, <1>4, <1>5, BgwFrame
     DEF RequestInOnePlace, grpcVars, Refs, Waiting
<1>12. NoOrphan'
  BY <1>1, <1>3, <1>5 DEF NoOrphan, Outstanding, s
<1>13. BgwLoops'
  BY <1>1, <1>3 DEF BgwLoops, bgwVars
<1>14. Identity'
  BY <1>1, <1>2, <1>3, BgwFrame DEF Identity, Outstanding, Prepared, s
<1>15. NoLostWakeup'
  BY <1>1, <1>3 DEF NoLostWakeup, bgwVars
<1>16. Served'
  BY <1>1 DEF Served
<1>17. QED
  BY <1>6, <1>7, <1>8, <1>9, <1>10, <1>11, <1>12, <1>13, <1>14, <1>15, <1>16

----------------------------------------------------------------------------
(***************************************************************************)
(* The steps of the BGW and of the gRPC callbacks.                         *)
(***************************************************************************)

\* The BGW may move a request from list to list: as long as it refers to the
\* same slots, what the backends and the pool rely on stays.
LEMMA RearrangeStep ==
  ASSUME IInv, UNCHANGED <<state, head, next, backendVars>>,
         Waiting' = Waiting, Working' = Working
  PROVE  /\ Holding' /\ SlotExclusive' /\ FreeList' /\ StateOfHeld'
         /\ StateOfRefs' /\ NoOrphan'
<1>1. UNCHANGED <<pc, op, slot, rid>> /\ Refs' = Refs
  BY DEF backendVars, Refs
<1> USE DEF IInv
<1>2. Holding'
  BY <1>1 DEF Holding
<1>3. SlotExclusive'
  BY <1>1 DEF SlotExclusive
<1>4. FreeList'
  BY DEF FreeList
<1>5. StateOfHeld'
  BY <1>1 DEF StateOfHeld
<1>6. StateOfRefs'
  BY DEF StateOfRefs
<1>7. NoOrphan'
  BY <1>1 DEF NoOrphan
<1>8. QED
  BY <1>2, <1>3, <1>4, <1>5, <1>6, <1>7

\* BgwWake, BeginEnd, IssueEnd and HandleEnd only turn to the next loop.
LEMMA TurnInv ==
  ASSUME IInv, TypeOK', BgwWake \/ BeginEnd \/ IssueEnd \/ HandleEnd
  PROVE  IInv'
<1>1. /\ UNCHANGED <<slotVars, queue, latch, backendVars, batch, items, local,
                     bslot, grpcVars>>
      /\ \/ bpc = "wait" /\ bpc' = "drain"
         \/ /\ bpc = "begin" /\ bpc' = "issue" /\ batch = << >>
            /\ bgw_latch' = bgw_latch
         \/ /\ bpc = "issue" /\ bpc' = "swap" /\ items = << >>
            /\ bgw_latch' = bgw_latch
         \/ /\ bpc = "handle" /\ bpc' = "wait" /\ local = << >>
            /\ bgw_latch' = bgw_latch
  BY DEF BgwWake, BeginEnd, IssueEnd, HandleEnd
<1>2. /\ UNCHANGED <<state, backend_pid, request, response, head, next>>
      /\ UNCHANGED <<pc, op, slot, rid>>
      /\ UNCHANGED <<completed, signals, inflight>>
  BY <1>1 DEF slotVars, backendVars, grpcVars
<1>3. Closing = {} /\ Closing' = {}
  BY <1>1 DEF Closing
<1>4. InFlight' = InFlight /\ InFlightSlots' = InFlightSlots
  BY <1>2 DEF InFlight, InFlightSlots
<1>5. Waiting' = Waiting /\ Working' = Working
  BY <1>1, <1>2, <1>3, <1>4 DEF Waiting, Working
<1>6. /\ Holding' /\ SlotExclusive' /\ FreeList' /\ StateOfHeld'
      /\ StateOfRefs' /\ NoOrphan'
  BY <1>1, <1>2, <1>5, RearrangeStep
<1> USE DEF IInv
<1>7. RequestInOnePlace'
  BY <1>1, <1>2, <1>3, <1>4, <1>5 DEF RequestInOnePlace
<1>8. BgwLoops'
  BY <1>1, <1>2 DEF BgwLoops
<1>9. Identity'
  BY <1>1, <1>2, <1>3, <1>4 DEF Identity
<1>10. NoLostWakeup'
  BY <1>1, <1>2 DEF NoLostWakeup
<1>11. Served'
  BY <1>1, <1>2, <1>4 DEF Served
<1>12. QED
  BY <1>6, <1>7, <1>8, <1>9, <1>10, <1>11

\* Draining moves indices from the queue to the batch.
LEMMA DrainInv ==
  ASSUME IInv, TypeOK', Drain
  PROVE  IInv'
<1> DEFINE n == IF Len(queue) < MaxBatch THEN Len(queue) ELSE MaxBatch
<1>1. /\ bpc = "drain"
      /\ batch' = SubSeq(queue, 1, n)
      /\ queue' = SubSeq(queue, n + 1, Len(queue))
      /\ bpc' = IF n = 0 THEN "swap" ELSE "begin"
      /\ UNCHANGED <<slotVars, latch, bgw_latch, backendVars, items, local,
                     bslot, grpcVars>>
  BY DEF Drain
<1>2. /\ UNCHANGED <<state, backend_pid, request, response, head, next>>
      /\ UNCHANGED <<pc, op, slot, rid>>
      /\ UNCHANGED <<completed, signals, inflight>>
  BY <1>1 DEF slotVars, backendVars, grpcVars
<1>3. n \in 0 .. Len(queue) /\ queue \in Seq(Slots) /\ Len(queue) \in Nat
  BY MaxBatchAssumption DEF IInv, TypeOK
<1>4. n = 0 => queue = << >>
  BY <1>3, MaxBatchAssumption
<1>5. n # 0 => batch' # << >>
  <2>1. Len(batch') = n
    BY <1>1, <1>3
  <2>2. QED
    BY <2>1
<1>6. Distinct(queue) /\ batch = << >> /\ items = << >> /\ local = << >>
  BY <1>1 DEF IInv, RequestInOnePlace, BgwLoops
<1>7. /\ Elems(queue) = Elems(batch') \cup Elems(queue')
      /\ Distinct(batch') /\ Distinct(queue')
      /\ Elems(batch') \cap Elems(queue') = {}
  <2> HIDE DEF n
  <2>1. /\ Elems(queue) = Elems(SubSeq(queue, 1, n))
                            \cup Elems(SubSeq(queue, n + 1, Len(queue)))
        /\ Distinct(SubSeq(queue, 1, n))
        /\ Distinct(SubSeq(queue, n + 1, Len(queue)))
        /\ Elems(SubSeq(queue, 1, n))
             \cap Elems(SubSeq(queue, n + 1, Len(queue))) = {}
    BY <1>3, <1>6, ElemsSplit
  <2>2. QED
    BY <1>1, <2>1
<1>8. n = 0 => queue' = << >>
  <2>1. n = 0 => Elems(queue') = {}
    BY <1>4, <1>7, ElemsEmpty
  <2>2. QED
    BY <2>1, ElemsType DEF TypeOK
<1> HIDE DEF n
<1>9. Closing = {} /\ Closing' = {}
  BY <1>1 DEF Closing
<1>10. InFlight' = InFlight /\ InFlightSlots' = InFlightSlots
  BY <1>2 DEF InFlight, InFlightSlots
<1>11. Waiting' = Waiting /\ Working' = Working
  BY <1>1, <1>2, <1>6, <1>7, <1>9, <1>10, ElemsEmpty DEF Waiting, Working
<1>12. /\ Holding' /\ SlotExclusive' /\ FreeList' /\ StateOfHeld'
       /\ StateOfRefs' /\ NoOrphan'
  BY <1>1, <1>2, <1>11, RearrangeStep
<1> USE DEF IInv
<1>13. RequestInOnePlace'
  BY <1>1, <1>2, <1>7, <1>9, <1>10, <1>11 DEF RequestInOnePlace
<1>14. BgwLoops'
  <2>1. batch' # << >> => bpc' = "begin"
    <3>1. n = 0 => batch' = << >>
      <4>1. n = 0 => Elems(batch') = {}
        BY <1>4, <1>7, ElemsEmpty
      <4>2. QED
        BY <4>1, ElemsType DEF TypeOK
    <3>2. QED
      BY <1>1, <3>1
  <2>2. QED
    BY <1>1, <1>2, <1>6, <2>1 DEF BgwLoops
<1>15. Identity'
  BY <1>1, <1>2, <1>9, <1>10 DEF Identity
<1>16. NoLostWakeup'
  BY <1>1, <1>2 DEF NoLostWakeup
<1>17. Served'
  BY <1>1, <1>5, <1>8 DEF Served
<1>18. QED
  BY <1>12, <1>13, <1>14, <1>15, <1>16, <1>17

\* The compare-and-swap succeeds on every drained slot.
LEMMA BeginProcessingInv ==
  ASSUME IInv, TypeOK', BeginProcessing
  PROVE  IInv'
<1> DEFINE s == Head(batch)
<1>1. /\ bpc = "begin" /\ batch # << >> /\ batch' = Tail(batch)
      /\ UNCHANGED <<queue, latch, bgw_latch, backendVars, local, grpcVars>>
  BY DEF BeginProcessing
<1>2. /\ s \in Elems(batch) /\ Elems(batch) = Elems(batch') \cup {s}
      /\ Distinct(batch') /\ s \notin Elems(batch')
  BY <1>1, ElemsTail DEF IInv, TypeOK, RequestInOnePlace
<1>3. s \in Slots /\ state[s] = "PENDING" /\ s \in Waiting /\ s \in Refs
  BY <1>2, Owner DEF Waiting, Refs, IInv, StateOfRefs
<1> HIDE DEF s
<1>4. /\ WriteState(s, "PROCESSING") /\ items' = Append(items, s)
      /\ UNCHANGED <<bpc, bslot>>
  BY <1>3 DEF BeginProcessing, s
<1>5. /\ state'[s] = "PROCESSING"
      /\ \A u \in Slots \ {s} : state'[u] = state[u]
      /\ UNCHANGED <<backend_pid, request, response, head, next>>
  BY <1>3, <1>4 DEF WriteState, IInv, TypeOK
<1>6. /\ UNCHANGED <<pc, op, slot, rid>>
      /\ UNCHANGED <<completed, signals, inflight>>
  BY <1>1 DEF backendVars, grpcVars
<1>7. s \notin Working /\ s \notin Elems(queue)
  BY <1>2, <1>3 DEF IInv, RequestInOnePlace
<1>8. Elems(items') = Elems(items) \cup {s} /\ Distinct(items')
  <2>1. /\ Elems(Append(items, s)) = Elems(items) \cup {s}
        /\ Distinct(items) /\ s \notin Elems(items) => Distinct(Append(items, s))
    BY <1>3, ElemsAppend DEF IInv, TypeOK
  <2>2. QED
    BY <1>4, <1>7, <2>1 DEF IInv, RequestInOnePlace, Working
<1>9. Closing' = {} /\ Closing = {}
  BY <1>1, <1>4 DEF Closing
<1>10. InFlight' = InFlight /\ InFlightSlots' = InFlightSlots
  BY <1>6 DEF InFlight, InFlightSlots
<1>11. Waiting' = Waiting \ {s} /\ Working' = Working \cup {s}
  <2>1. Waiting' = Waiting \ {s}
    BY <1>1, <1>2, <1>7 DEF Waiting
  <2>2. Working' = Working \cup {s}
    BY <1>1, <1>6, <1>8, <1>9, <1>10 DEF Working
  <2>3. QED
    BY <2>1, <2>2
<1>12. Refs' = Refs
  BY <1>3, <1>11 DEF Refs
<1>13. \A c \in Backends : slot[c] = s => pc[c] \in Outstanding
  <2>1. PICK b \in Backends : slot[b] = s /\ pc[b] \in Outstanding
    BY <1>3, Owner
  <2>2. s # NULL
    BY <1>3, NullAssumption
  <2>3. QED
    BY <2>1, <2>2 DEF IInv, SlotExclusive
<1>14. \A c \in Backends : slot[c] \in Slots \/ (slot[c] = NULL /\ pc[c] = "idle")
  BY DEF IInv, TypeOK, Holding
<1> USE DEF IInv
<1>15. Holding'
  BY <1>6 DEF Holding
<1>16. SlotExclusive'
  BY <1>5, <1>6, <1>14 DEF SlotExclusive
<1>17. FreeList'
  <2>1. \A u \in Slots : state'[u] = "EMPTY" <=> state[u] = "EMPTY"
    BY <1>3, <1>5
  <2>2. QED
    BY <1>5, <2>1 DEF FreeList
<1>18. StateOfHeld'
  BY <1>5, <1>6, <1>13, <1>14 DEF StateOfHeld, Outstanding
<1>19. StateOfRefs'
  <2>1. \A u \in Refs : u \in Slots
    BY Owner
  <2>2. QED
    BY <1>5, <1>7, <1>11, <2>1 DEF StateOfRefs, Refs
<1>20. RequestInOnePlace'
  <2>1. /\ Distinct(queue') /\ Distinct(completed') /\ Distinct(local')
        /\ Elems(queue') \cap Elems(batch') = {}
    BY <1>1, <1>2, <1>6 DEF RequestInOnePlace
  <2>2. Waiting' \cap Working' = {}
    BY <1>7, <1>11 DEF RequestInOnePlace
  <2>3. Elems(items') \cap (InFlightSlots' \cup Elems(completed')) = {}
    BY <1>6, <1>7, <1>8, <1>10 DEF RequestInOnePlace, Working
  <2>4. QED
    BY <1>1, <1>2, <1>6, <1>8, <1>9, <1>10, <2>1, <2>2, <2>3
       DEF RequestInOnePlace
<1>21. NoOrphan'
  <2>1. \A c \in Backends : pc[c] \in Outstanding => slot[c] \in Slots
    BY <1>14 DEF Outstanding
  <2>2. QED
    BY <1>3, <1>5, <1>6, <1>12, <2>1 DEF NoOrphan
<1>22. BgwLoops'
  BY <1>1, <1>4, <1>5 DEF BgwLoops
<1>23. Identity'
  <2>1. \A c \in Backends : pc[c] # "idle" /\ state'[slot[c]] = "DONE"
                              => state[slot[c]] = "DONE"
    BY <1>5, <1>14
  <2>2. QED
    BY <1>1, <1>5, <1>6, <1>9, <1>10, <2>1 DEF Identity, Outstanding
<1>24. NoLostWakeup'
  BY <1>1, <1>4, <1>5, <1>6, <1>14 DEF NoLostWakeup
<1>25. Served'
  <2>1. items' # << >>
    BY <1>8, ElemsEmpty
  <2>2. QED
    BY <2>1 DEF Served
<1>26. QED
  BY <1>15, <1>16, <1>17, <1>18, <1>19, <1>20, <1>21, <1>22, <1>23, <1>24,
     <1>25

\* Each item becomes one RPC that carries its id.
LEMMA IssueInv ==
  ASSUME IInv, TypeOK', Issue
  PROVE  IInv'
<1> DEFINE s == Head(items)
           k == IF batched /\ request[s].type = "check" THEN "batchCheck"
                ELSE request[s].type
           r == [slot |-> s, id |-> request[s].id, kind |-> k]
<1>1. /\ bpc = "issue" /\ items # << >> /\ items' = Tail(items)
      /\ UNCHANGED <<slotVars, queue, latch, bgw_latch, backendVars, bpc,
                     batch, local, bslot, completed, signals>>
  BY DEF Issue
<1>2. /\ s \in Elems(items) /\ Elems(items) = Elems(items') \cup {s}
      /\ Distinct(items') /\ s \notin Elems(items')
  BY <1>1, ElemsTail DEF IInv, TypeOK, RequestInOnePlace
<1>3. PICK b \in Backends : slot[b] = s /\ pc[b] \in Outstanding
  BY <1>2, Owner DEF Refs, Working
<1>4. s \in Slots /\ s \in Working
  BY <1>2, Owner DEF Refs, Working
<1>5. request[s].type \in Ops /\ request[s].type # "none"
  <2>1. request[s].type = op[b] /\ op[b] \in Ops
    BY <1>3 DEF IInv, Holding, Identity, Outstanding
  <2>2. QED
    BY <2>1, OpsAssumption DEF AllOps
<1>6. r \in Rpc
  <2>1. request[s].id \in Ids
    BY <1>4 DEF IInv, TypeOK, Request
  <2>2. k \in Kinds
    BY <1>5 DEF Kinds
  <2>3. QED
    BY <1>4, <2>1, <2>2 DEF Rpc
<1>7. inflight' = [inflight EXCEPT ![r] = @ + 1]
  BY <1>5 DEF Issue
<1>8. r.slot = s /\ r.id = request[s].id
  OBVIOUS
<1> HIDE DEF r, k, s
<1>9. /\ UNCHANGED <<state, backend_pid, request, response, head, next>>
      /\ UNCHANGED <<pc, op, slot, rid>>
  BY <1>1 DEF slotVars, backendVars
<1>10. s \notin InFlightSlots /\ s \notin Elems(completed) /\ local = << >>
  BY <1>1, <1>2 DEF IInv, RequestInOnePlace, BgwLoops
<1>11. inflight \in [Rpc -> Nat] /\ inflight[r] = 0
  BY <1>6, <1>8, <1>10 DEF IInv, TypeOK, InFlightSlots, InFlight
<1>12. inflight'[r] = 1 /\ \A q \in Rpc \ {r} : inflight'[q] = inflight[q]
  BY <1>6, <1>7, <1>11
<1>13. InFlight' = InFlight \cup {r}
  BY <1>6, <1>12 DEF InFlight
<1>14. InFlightSlots' = InFlightSlots \cup {s}
  BY <1>8, <1>13 DEF InFlightSlots
<1>15. Closing = {} /\ Closing' = {}
  BY <1>1 DEF Closing
<1>16. Waiting' = Waiting /\ Working' = Working
  BY <1>1, <1>2, <1>14, <1>15 DEF Waiting, Working
<1>17. /\ Holding' /\ SlotExclusive' /\ FreeList' /\ StateOfHeld'
       /\ StateOfRefs' /\ NoOrphan'
  BY <1>1, <1>9, <1>16, RearrangeStep
<1> USE DEF IInv
<1>18. RequestInOnePlace'
  <2>1. \A q \in InFlight : q.slot # s
    BY <1>10 DEF InFlightSlots
  <2>2. /\ \A p, q \in InFlight' : p.slot = q.slot => p = q
        /\ \A q \in InFlight' : inflight'[q] = 1
    BY <1>8, <1>12, <1>13, <2>1 DEF RequestInOnePlace, InFlight
  <2>3. QED
    BY <1>1, <1>2, <1>10, <1>14, <1>15, <1>16, <2>2, ElemsEmpty
       DEF RequestInOnePlace
<1>19. BgwLoops'
  BY <1>1, <1>9, <1>10 DEF BgwLoops
<1>20. Identity'
  <2>1. \A q \in InFlight' : q.id = request[q.slot].id
    BY <1>8, <1>13 DEF Identity
  <2>2. QED
    BY <1>1, <1>9, <1>15, <2>1 DEF Identity
<1>21. NoLostWakeup'
  BY <1>1, <1>9 DEF NoLostWakeup
<1>22. Served'
  BY <1>13 DEF Served
<1>23. QED
  BY <1>17, <1>18, <1>19, <1>20, <1>21, <1>22

\* The worker takes over all completed slots at once.
LEMMA SwapCompletedInv ==
  ASSUME IInv, TypeOK', SwapCompleted
  PROVE  IInv'
<1>1. /\ bpc = "swap" /\ bpc' = "handle" /\ local' = completed
      /\ completed' = << >>
      /\ UNCHANGED <<slotVars, queue, latch, bgw_latch, backendVars, batch,
                     items, bslot, signals, inflight>>
  BY DEF SwapCompleted
<1>2. /\ UNCHANGED <<state, backend_pid, request, response, head, next>>
      /\ UNCHANGED <<pc, op, slot, rid>>
  BY <1>1 DEF slotVars, backendVars
<1>3. batch = << >> /\ items = << >> /\ local = << >>
  BY <1>1 DEF IInv, BgwLoops
<1>4. Closing = {} /\ Closing' = {}
  BY <1>1 DEF Closing
<1>5. InFlight' = InFlight /\ InFlightSlots' = InFlightSlots
  BY <1>1 DEF InFlight, InFlightSlots
<1>6. Waiting' = Waiting /\ Working' = Working
  BY <1>1, <1>3, <1>4, <1>5, ElemsEmpty DEF Waiting, Working
<1>7. /\ Holding' /\ SlotExclusive' /\ FreeList' /\ StateOfHeld'
      /\ StateOfRefs' /\ NoOrphan'
  BY <1>1, <1>2, <1>6, RearrangeStep
<1> USE DEF IInv
<1>8. RequestInOnePlace'
  BY <1>1, <1>3, <1>4, <1>5, <1>6, ElemsEmpty DEF RequestInOnePlace
<1>9. BgwLoops'
  BY <1>1, <1>2, <1>3 DEF BgwLoops
<1>10. Identity'
  BY <1>1, <1>2, <1>4, <1>5, ElemsEmpty DEF Identity
<1>11. NoLostWakeup'
  BY <1>1, <1>2 DEF NoLostWakeup
<1>12. Served'
  BY <1>1, <1>2, <1>5 DEF Served
<1>13. QED
  BY <1>7, <1>8, <1>9, <1>10, <1>11, <1>12

\* The next completed slot is PROCESSING, and is to become DONE.
LEMMA HandleResponseInv ==
  ASSUME IInv, TypeOK', HandleResponse
  PROVE  IInv'
<1> DEFINE s == Head(local)
<1>1. /\ bpc = "handle" /\ local # << >> /\ local' = Tail(local) /\ bslot' = s
      /\ UNCHANGED <<slotVars, queue, latch, bgw_latch, backendVars, batch,
                     items, grpcVars>>
  BY DEF HandleResponse
<1>2. /\ s \in Elems(local) /\ Elems(local) = Elems(local') \cup {s}
      /\ Distinct(local') /\ s \notin Elems(local')
  BY <1>1, ElemsTail DEF IInv, TypeOK, RequestInOnePlace
<1>3. s \in Slots /\ s \in Working /\ state[s] = "PROCESSING"
  BY <1>2, Owner DEF Refs, Working, IInv, StateOfRefs
<1>4. backend_pid[s] \in Backends
  <2>1. PICK b \in Backends : slot[b] = s /\ pc[b] \in Outstanding
    BY <1>3, Owner DEF Refs
  <2>2. backend_pid[s] = b
    BY <2>1 DEF IInv, Identity, Outstanding, Prepared
  <2>3. QED
    BY <2>2
<1>5. bpc' = "done"
  BY <1>3 DEF HandleResponse
<1> HIDE DEF s
<1>6. /\ UNCHANGED <<state, backend_pid, request, response, head, next>>
      /\ UNCHANGED <<pc, op, slot, rid>>
      /\ UNCHANGED <<completed, signals, inflight>>
  BY <1>1 DEF slotVars, backendVars, grpcVars
<1>7. batch = << >> /\ items = << >>
  BY <1>1 DEF IInv, BgwLoops
<1>8. Closing = {} /\ Closing' = {s}
  BY <1>1, <1>5 DEF Closing
<1>9. InFlight' = InFlight /\ InFlightSlots' = InFlightSlots
  BY <1>6 DEF InFlight, InFlightSlots
<1>10. Waiting' = Waiting /\ Working' = Working
  BY <1>1, <1>2, <1>6, <1>8, <1>9 DEF Waiting, Working
<1>11. /\ Holding' /\ SlotExclusive' /\ FreeList' /\ StateOfHeld'
       /\ StateOfRefs' /\ NoOrphan'
  BY <1>1, <1>6, <1>10, RearrangeStep
<1> USE DEF IInv
<1>12. RequestInOnePlace'
  BY <1>1, <1>2, <1>6, <1>8, <1>9, <1>10 DEF RequestInOnePlace
<1>13. BgwLoops'
  BY <1>1, <1>3, <1>4, <1>5, <1>6, <1>7 DEF BgwLoops
<1>14. Identity'
  BY <1>2, <1>6, <1>8, <1>9 DEF Identity
<1>15. NoLostWakeup'
  BY <1>1, <1>6 DEF NoLostWakeup
<1>16. Served'
  BY <1>1, <1>6, <1>9 DEF Served
<1>17. QED
  BY <1>11, <1>12, <1>13, <1>14, <1>15, <1>16

\* Writing DONE hands the slot back; its owner is yet to be woken.
LEMMA WriteDoneInv ==
  ASSUME IInv, TypeOK', WriteDone
  PROVE  IInv'
<1> DEFINE s == bslot
<1>1. /\ bpc = "done" /\ bpc' = "wake" /\ WriteState(s, "DONE") /\ bslot' = s
      /\ UNCHANGED <<queue, latch, bgw_latch, backendVars, batch, items,
                     local, grpcVars>>
  BY DEF WriteDone
<1>2. /\ s \in Slots /\ backend_pid[s] \in Backends
      /\ batch = << >> /\ items = << >>
  BY <1>1 DEF IInv, BgwLoops
<1>3. Closing = {s} /\ Closing' = {}
  BY <1>1 DEF Closing
<1>4. PICK b \in Backends : slot[b] = s /\ pc[b] \in Outstanding
  BY <1>3, Owner DEF Refs, Working
<1>5. /\ state'[s] = "DONE" /\ \A u \in Slots \ {s} : state'[u] = state[u]
      /\ UNCHANGED <<backend_pid, request, response, head, next>>
  BY <1>1, <1>2 DEF WriteState, IInv, TypeOK
<1>6. /\ UNCHANGED <<pc, op, slot, rid>>
      /\ UNCHANGED <<completed, signals, inflight>>
  BY <1>1 DEF backendVars, grpcVars
<1> HIDE DEF s
<1>7. InFlight' = InFlight /\ InFlightSlots' = InFlightSlots
  BY <1>6 DEF InFlight, InFlightSlots
<1>8. /\ s \notin Waiting /\ s \notin InFlightSlots
      /\ s \notin Elems(completed) /\ s \notin Elems(local)
  BY <1>3 DEF IInv, RequestInOnePlace, Working
<1>9. Waiting' = Waiting /\ Working' = Working \ {s}
  <2>1. Waiting' = Waiting
    BY <1>1 DEF Waiting
  <2>2. Working' = Working \ {s}
    BY <1>1, <1>2, <1>3, <1>6, <1>7, <1>8, ElemsEmpty DEF Working
  <2>3. QED
    BY <2>1, <2>2
<1>10. Refs' = Refs \ {s}
  BY <1>8, <1>9 DEF Refs
<1>11. \A c \in Backends \ {b} :
         slot[c] \in Slots \ {s} \/ (slot[c] = NULL /\ pc[c] = "idle")
  <2>1. s # NULL
    BY <1>2, NullAssumption
  <2>2. QED
    BY <1>4, <2>1 DEF IInv, TypeOK, SlotExclusive, Holding
<1>12. state[s] = "PROCESSING"
  BY <1>3 DEF IInv, StateOfRefs, Working
<1> USE DEF IInv
<1>13. Holding'
  BY <1>6 DEF Holding
<1>14. SlotExclusive'
  BY <1>4, <1>5, <1>6, <1>11 DEF SlotExclusive
<1>15. FreeList'
  <2>1. \A u \in Slots : state'[u] = "EMPTY" <=> state[u] = "EMPTY"
    BY <1>2, <1>5, <1>12
  <2>2. QED
    BY <1>5, <2>1 DEF FreeList
<1>16. StateOfHeld'
  BY <1>4, <1>5, <1>6, <1>11 DEF StateOfHeld, Outstanding
<1>17. StateOfRefs'
  <2>1. \A u \in Refs : u \in Slots
    BY Owner
  <2>2. QED
    BY <1>5, <1>8, <1>9, <2>1 DEF StateOfRefs, Refs
<1>18. RequestInOnePlace'
  BY <1>1, <1>3, <1>6, <1>7, <1>9 DEF RequestInOnePlace
<1>19. NoOrphan'
  <2>1. \A c \in Backends \ {b} : pc[c] \in Outstanding => slot[c] \in Slots \ {s}
    BY <1>11 DEF Outstanding
  <2>2. QED
    BY <1>4, <1>5, <1>6, <1>10, <2>1 DEF NoOrphan
<1>20. BgwLoops'
  BY <1>1, <1>2, <1>5 DEF BgwLoops
<1>21. Identity'
  <2>1. response[s].of = rid[b]
    BY <1>3, <1>4 DEF Identity, Outstanding, Prepared
  <2>2. \A c \in Backends \ {b} : pc[c] # "idle" => state'[slot[c]] = state[slot[c]]
    BY <1>5, <1>11
  <2>3. \A c \in Backends :
          pc[c] \in Outstanding \cup {"respond"} /\ state'[slot[c]] = "DONE"
            => response[slot[c]].of = rid[c]
    BY <1>4, <2>1, <2>2 DEF Identity, Outstanding
  <2>4. QED
    BY <1>1, <1>3, <1>5, <1>6, <1>7, <2>3 DEF Identity
<1>22. NoLostWakeup'
  BY <1>1, <1>4, <1>5, <1>6, <1>11 DEF NoLostWakeup
<1>23. Served'
  BY <1>1, <1>6, <1>7 DEF Served
<1>24. QED
  BY <1>13, <1>14, <1>15, <1>16, <1>17, <1>18, <1>19, <1>20, <1>21, <1>22,
     <1>23

\* The pid in the slot is a live backend, so its latch is set.
LEMMA WakeBackendInv ==
  ASSUME IInv, TypeOK', WakeBackend
  PROVE  IInv'
<1> DEFINE p == backend_pid[bslot]
<1>1. /\ bpc = "wake"
      /\ UNCHANGED <<slotVars, queue, bgw_latch, backendVars, batch, items,
                     local, grpcVars>>
  BY DEF WakeBackend
<1>2. p \in Backends /\ bslot \in Slots /\ batch = << >> /\ items = << >>
  BY <1>1 DEF IInv, BgwLoops
<1>3. Alive(p)
  BY <1>2 DEF Alive, IInv, Holding, Prepared
<1>4. bpc' = "handle" /\ latch' = [latch EXCEPT ![p] = TRUE]
  BY <1>3 DEF WakeBackend
<1>5. latch'[p] /\ \A c \in Backends \ {p} : latch'[c] = latch[c]
  BY <1>2, <1>4 DEF IInv, TypeOK
<1>6. /\ UNCHANGED <<state, backend_pid, request, response, head, next>>
      /\ UNCHANGED <<pc, op, slot, rid>>
      /\ UNCHANGED <<completed, signals, inflight>>
  BY <1>1 DEF slotVars, backendVars, grpcVars
<1>7. Closing = {} /\ Closing' = {}
  BY <1>1, <1>4 DEF Closing
<1>8. InFlight' = InFlight /\ InFlightSlots' = InFlightSlots
  BY <1>6 DEF InFlight, InFlightSlots
<1>9. Waiting' = Waiting /\ Working' = Working
  BY <1>1, <1>6, <1>7, <1>8 DEF Waiting, Working
<1>10. /\ Holding' /\ SlotExclusive' /\ FreeList' /\ StateOfHeld'
       /\ StateOfRefs' /\ NoOrphan'
  BY <1>1, <1>6, <1>9, RearrangeStep
<1> USE DEF IInv
<1>11. RequestInOnePlace'
  BY <1>1, <1>6, <1>7, <1>8, <1>9 DEF RequestInOnePlace
<1>12. BgwLoops'
  BY <1>1, <1>2, <1>4 DEF BgwLoops
<1>13. Identity'
  BY <1>1, <1>6, <1>7, <1>8 DEF Identity
<1>14. NoLostWakeup'
  <2> SUFFICES ASSUME NEW c \in Backends, pc[c] = "sleep",
                      state[slot[c]] = "DONE"
               PROVE  latch'[c]
    BY <1>6 DEF NoLostWakeup
  <2>1. CASE bslot = slot[c]
    <3>1. p = c
      BY <2>1 DEF Identity, Prepared
    <3>2. QED
      BY <1>5, <3>1
  <2>2. CASE bslot # slot[c]
    <3>1. latch[c]
      BY <2>2 DEF NoLostWakeup
    <3>2. QED
      BY <1>5, <3>1
  <2>3. QED
    BY <2>1, <2>2
<1>15. Served'
  BY <1>1, <1>6, <1>8 DEF Served
<1>16. QED
  BY <1>10, <1>11, <1>12, <1>13, <1>14, <1>15

\* A callback writes the answer into the slot that carries its request.
LEMMA RpcCompleteInv ==
  ASSUME IInv, TypeOK', NEW r \in Rpc, NEW v, RpcComplete(r, v)
  PROVE  IInv'
<1> DEFINE s == r.slot
<1>1. /\ inflight[r] > 0 /\ inflight' = [inflight EXCEPT ![r] = @ - 1]
      /\ response' = [response EXCEPT ![s] = Reply(r, v)]
      /\ completed' = Append(completed, s) /\ signals' = signals + 1
      /\ UNCHANGED <<state, backend_pid, request, head, next, queue, latch,
                     bgw_latch, backendVars, bgwVars>>
  BY DEF RpcComplete
<1>2. r \in InFlight /\ s \in InFlightSlots /\ s \in Slots
  BY <1>1 DEF InFlight, InFlightSlots, Rpc
<1>3. inflight[r] = 1 /\ \A q \in InFlight \ {r} : q.slot # s
  BY <1>2 DEF IInv, RequestInOnePlace
<1>4. inflight'[r] = 0 /\ \A q \in Rpc \ {r} : inflight'[q] = inflight[q]
  BY <1>1, <1>3 DEF IInv, TypeOK
<1>5. request[s].id = r.id /\ state[s] = "PROCESSING"
  BY <1>2 DEF IInv, Identity, StateOfRefs, Working
<1>6. Reply(r, v).of = r.id
  <2>1. Correlated(r)
    BY <1>5 DEF Correlated
  <2>2. QED
    BY <2>1 DEF Reply
<1>7. /\ response'[s].of = r.id
      /\ \A u \in Slots \ {s} : response'[u] = response[u]
  BY <1>1, <1>2, <1>6 DEF IInv, TypeOK
<1> HIDE DEF s
<1>8. /\ UNCHANGED <<pc, op, slot, rid>>
      /\ UNCHANGED <<bpc, batch, items, local, bslot>>
  BY <1>1 DEF backendVars, bgwVars
<1>9. InFlight' = InFlight \ {r}
  BY <1>2, <1>4 DEF InFlight
<1>10. InFlightSlots' = InFlightSlots \ {s}
  BY <1>2, <1>3, <1>9 DEF InFlightSlots, s
<1>11. /\ s \notin Elems(completed) /\ s \notin Elems(local)
       /\ s \notin Closing /\ s \notin Elems(items) /\ s \notin Waiting
  BY <1>2 DEF IInv, RequestInOnePlace, Working
<1>12. Elems(completed') = Elems(completed) \cup {s} /\ Distinct(completed')
  <2>1. /\ Elems(Append(completed, s)) = Elems(completed) \cup {s}
        /\ Distinct(completed) /\ s \notin Elems(completed)
             => Distinct(Append(completed, s))
    BY <1>2, ElemsAppend DEF IInv, TypeOK
  <2>2. QED
    BY <1>1, <1>11, <2>1 DEF IInv, RequestInOnePlace
<1>13. Closing' = Closing
  BY <1>8 DEF Closing
<1>14. Waiting' = Waiting /\ Working' = Working
  BY <1>1, <1>2, <1>8, <1>10, <1>12, <1>13 DEF Waiting, Working
<1>15. /\ Holding' /\ SlotExclusive' /\ FreeList' /\ StateOfHeld'
       /\ StateOfRefs' /\ NoOrphan'
  BY <1>1, <1>14, RearrangeStep
<1> USE DEF IInv
<1>16. RequestInOnePlace'
  <2>1. /\ \A p, q \in InFlight' : p.slot = q.slot => p = q
        /\ \A q \in InFlight' : inflight'[q] = 1
    BY <1>4, <1>9 DEF RequestInOnePlace, InFlight
  <2>2. QED
    BY <1>1, <1>8, <1>10, <1>11, <1>12, <1>13, <1>14, <2>1
       DEF RequestInOnePlace
<1>17. BgwLoops'
  BY <1>1, <1>8 DEF BgwLoops
<1>18. Identity'
  <2>1. \A c \in Backends :
          /\ pc[c] \in Outstanding \cup {"respond"} => slot[c] \in Slots
          /\ state[slot[c]] = "DONE" => slot[c] # s
    BY <1>5 DEF TypeOK, Holding, Outstanding
  <2>2. \A c \in Backends :
          pc[c] \in Outstanding \cup {"respond"} /\ state[slot[c]] = "DONE"
            => response'[slot[c]].of = rid[c]
    BY <1>7, <2>1 DEF Identity
  <2>3. \A u \in Elems(completed) \cup Elems(local) \cup Closing :
          u \in Slots \ {s}
    BY <1>11, Owner DEF Refs, Working
  <2>4. \A u \in Elems(completed') \cup Elems(local) \cup Closing :
          response'[u].of = request[u].id
    BY <1>5, <1>7, <1>12, <2>3 DEF Identity
  <2>5. QED
    BY <1>1, <1>8, <1>9, <1>13, <2>2, <2>4 DEF Identity
<1>19. NoLostWakeup'
  BY <1>1, <1>8 DEF NoLostWakeup
<1>20. Served'
  BY <1>1 DEF Served, TypeOK
<1>21. QED
  BY <1>15, <1>16, <1>17, <1>18, <1>19, <1>20

\* Setting the latch of the worker only adds a reason to wake.
LEMMA RpcSignalInv ==
  ASSUME IInv, TypeOK', RpcSignal
  PROVE  IInv'
<1>1. /\ bgw_latch' = TRUE
      /\ UNCHANGED <<slotVars, queue, latch, backendVars, bgwVars, completed,
                     inflight>>
  BY DEF RpcSignal
<1>2. /\ UNCHANGED <<state, backend_pid, request, response, head, next>>
      /\ UNCHANGED <<pc, op, slot, rid>>
      /\ UNCHANGED <<bpc, batch, items, local, bslot>>
  BY <1>1 DEF slotVars, backendVars, bgwVars
<1>3. /\ InFlight' = InFlight /\ InFlightSlots' = InFlightSlots
      /\ Closing' = Closing
  BY <1>1, <1>2 DEF InFlight, InFlightSlots, Closing
<1>4. Waiting' = Waiting /\ Working' = Working
  BY <1>1, <1>2, <1>3 DEF Waiting, Working
<1>5. /\ Holding' /\ SlotExclusive' /\ FreeList' /\ StateOfHeld'
      /\ StateOfRefs' /\ NoOrphan'
  BY <1>1, <1>2, <1>4, RearrangeStep
<1> USE DEF IInv
<1>6. RequestInOnePlace'
  BY <1>1, <1>2, <1>3, <1>4 DEF RequestInOnePlace
<1>7. BgwLoops'
  BY <1>2 DEF BgwLoops
<1>8. Identity'
  BY <1>1, <1>2, <1>3 DEF Identity
<1>9. NoLostWakeup'
  BY <1>1, <1>2 DEF NoLostWakeup
<1>10. Served'
  BY <1>1 DEF Served
<1>11. QED
  BY <1>5, <1>6, <1>7, <1>8, <1>9, <1>10

----------------------------------------------------------------------------
(***************************************************************************)
(* The invariant is inductive.                                             *)
(***************************************************************************)

\* The invariant holds when the pool has been initialised.
LEMMA IInvInit == Init => IInv
<1> SUFFICES ASSUME Init PROVE IInv
  OBVIOUS
<1>1. TypeOK
  BY TypeInit DEF TypeInv
<1>2. /\ queue = << >> /\ batch = << >> /\ items = << >>
      /\ completed = << >> /\ local = << >> /\ bpc = "wait"
      /\ \A b \in Backends : pc[b] = "idle" /\ slot[b] = NULL
      /\ \A s \in Slots : state[s] = "EMPTY"
  BY DEF Init
<1>3. InFlight = {} /\ InFlightSlots = {} /\ Closing = {}
  <2>1. InFlight = {}
    BY DEF Init, InFlight
  <2>2. QED
    BY <1>2, <2>1 DEF InFlightSlots, Closing
<1>4. Waiting = {} /\ Working = {} /\ Refs = {}
  BY <1>2, <1>3, ElemsEmpty DEF Waiting, Working, Refs
<1>5. Holding
  BY <1>2 DEF Holding
<1>6. SlotExclusive
  BY <1>2 DEF SlotExclusive
<1>7. FreeList
  <2>1. /\ head = SlotCount - 1
        /\ \A s \in Slots : next[s] = IF s = 0 THEN NULL ELSE s - 1
    BY DEF Init, PoolLinks
  <2>2. \A s \in Slots : s \in Nat /\ s <= SlotCount - 1
    BY SlotCountAssumption DEF Slots
  <2>3. head \in Slots
    BY <2>1, SlotCountAssumption DEF Slots
  <2>4. \A s \in Slots : next[s] # NULL =>
          /\ s # 0 /\ next[s] = s - 1
          /\ next[s] \in Slots /\ next[s] # SlotCount - 1
    BY <2>1, <2>2, SlotCountAssumption DEF Slots
  <2>5. \A s, t \in Slots : next[s] = next[t] /\ next[s] # NULL => s = t
    BY <2>2, <2>4
  <2>6. QED
    BY <1>2, <2>1, <2>3, <2>4, <2>5 DEF FreeList
<1>8. StateOfHeld /\ StateOfRefs
  BY <1>2, <1>4 DEF StateOfHeld, StateOfRefs
<1>9. RequestInOnePlace
  BY <1>2, <1>3, <1>4, ElemsEmpty DEF RequestInOnePlace
<1>10. NoOrphan
  BY <1>2, <1>4 DEF NoOrphan, Outstanding
<1>11. BgwLoops
  BY <1>2 DEF BgwLoops
<1>12. Identity
  BY <1>2, <1>3, ElemsEmpty DEF Identity, Outstanding, Prepared
<1>13. NoLostWakeup
  BY <1>2 DEF NoLostWakeup
<1>14. Served
  BY <1>2 DEF Served
<1>15. QED
  BY <1>1, <1>5, <1>6, <1>7, <1>8, <1>9, <1>10, <1>11, <1>12, <1>13, <1>14
     DEF IInv

\* No step leaves the invariant; the interrupt handlers and the branches for
\* canceled requests are never reached.
LEMMA IInvStep ==
  ASSUME Calm, Room, IInv, [Next]_vars
  PROVE  IInv'
<1>1. TypeOK'
  <2>1. TypeInv
    BY DEF IInv, Holding, TypeInv
  <2>2. QED
    BY <2>1, TypeStep DEF TypeInv
<1>2. ASSUME NEW b \in Backends, BackendStep(b) PROVE IInv'
  <2>1. CASE Prepare(b)
    BY <1>1, <2>1, PrepareInv
  <2>2. CASE Fill(b)
    BY <1>1, <2>2, FillInv
  <2>3. CASE Enqueue(b)
    BY <1>1, <2>3, EnqueueInv
  <2>4. CASE EnqueueFull(b) \/ WakeBgw(b) \/ Check(b) \/ Wake(b)
    BY <1>1, <2>4, MoveInv
  <2>5. CASE Rollback(b) \/ Respond(b) \/ CatchRelease(b)
    BY <1>1, <2>5, ReleaseInv
  <2>6. CASE CanceledRelease(b) \/ CatchRead(b) \/ CatchCancel(b)
               \/ CatchDone(b) \/ CatchPid(b)
    <3>1. pc[b] \in {"canceledRelease", "catchRead", "catchCancel",
                     "catchDone", "catchPid"}
      BY <2>6 DEF CanceledRelease, CatchRead, CatchCancel, CatchDone, CatchPid,
                  Goto
    <3>2. QED
      BY <3>1 DEF IInv, Holding, Prepared
  <2>7. QED
    BY <1>2, <2>1, <2>2, <2>3, <2>4, <2>5, <2>6 DEF BackendStep
<1>3. ASSUME NEW b \in Backends, EnvStep(b) PROVE IInv'
  <2>1. CASE \E o \in Ops : Acquire(b, o)
    BY <1>1, <2>1, AcquireInv
  <2>2. CASE AcquireFail(b) \/ OtherSignal(b)
    BY <1>1, <2>2, MoveInv
  <2>3. CASE FillError(b)
    BY <1>1, <2>3, FillInv
  <2>4. CASE Cancel(b) \/ CancelReport(b) \/ Die(b) \/ Exit(b)
    BY <2>4 DEF Calm, Cancel, CancelReport, Die, Exit
  <2>5. QED
    BY <1>3, <2>1, <2>2, <2>3, <2>4 DEF EnvStep
<1>4. ASSUME BgwStep PROVE IInv'
  <2>1. CASE BgwWake \/ BeginEnd \/ IssueEnd \/ HandleEnd
    BY <1>1, <2>1, TurnInv
  <2>2. CASE Drain
    BY <1>1, <2>2, DrainInv
  <2>3. CASE BeginProcessing
    BY <1>1, <2>3, BeginProcessingInv
  <2>4. CASE Issue
    BY <1>1, <2>4, IssueInv
  <2>5. CASE SwapCompleted
    BY <1>1, <2>5, SwapCompletedInv
  <2>6. CASE HandleResponse
    BY <1>1, <2>6, HandleResponseInv
  <2>7. CASE WriteDone
    BY <1>1, <2>7, WriteDoneInv
  <2>8. CASE WakeBackend
    BY <1>1, <2>8, WakeBackendInv
  <2>9. CASE BeginRelease \/ HandleRelease
    BY <2>9 DEF BeginRelease, HandleRelease, IInv, BgwLoops
  <2>10. QED
    BY <1>4, <2>1, <2>2, <2>3, <2>4, <2>5, <2>6, <2>7, <2>8, <2>9 DEF BgwStep
<1>5. ASSUME GrpcStep PROVE IInv'
  BY <1>1, <1>5, RpcCompleteInv, RpcSignalInv DEF GrpcStep
<1>6. ASSUME UNCHANGED vars PROVE IInv'
  <2>1. /\ UNCHANGED <<state, backend_pid, request, response, head, next>>
        /\ UNCHANGED <<queue, latch, bgw_latch>>
        /\ UNCHANGED <<pc, op, slot, rid>>
        /\ UNCHANGED <<bpc, batch, items, local, bslot, bgwVars, grpcVars>>
        /\ UNCHANGED <<completed, signals, inflight>>
    BY <1>6 DEF vars, slotVars, backendVars, bgwVars, grpcVars
  <2>2. /\ SlotExclusive' /\ FreeList' /\ StateOfRefs'
        /\ RequestInOnePlace' /\ NoOrphan'
    BY <1>1, <2>1, QuietStep
  <2> USE DEF IInv
  <2>3. Holding' /\ StateOfHeld' /\ NoLostWakeup'
    BY <2>1 DEF Holding, StateOfHeld, NoLostWakeup
  <2>4. BgwLoops'
    BY <2>1 DEF BgwLoops
  <2>5. Identity' /\ Served'
    BY <2>1, BgwFrame DEF Identity, Served
  <2>6. QED
    BY <1>1, <2>2, <2>3, <2>4, <2>5
<1>7. QED
  BY <1>2, <1>3, <1>4, <1>5, <1>6 DEF Next, ClientsDone

\* In every reachable state of a system whose calls are not interrupted.
THEOREM InvariantHolds ==
  ASSUME Calm, Room
  PROVE  Spec => []IInv
<1>1. Init => IInv
  BY IInvInit
<1>2. IInv /\ [Next]_vars => IInv'
  BY IInvStep
<1>3. QED
  BY <1>1, <1>2, PTL DEF Spec

----------------------------------------------------------------------------
(***************************************************************************)
(* The properties.                                                         *)
(***************************************************************************)

\* fga_channel_acquire_slot never gives one slot to two calls, and no slot is
\* returned while a call holds it.
THEOREM SlotsAreExclusive ==
  ASSUME Calm, Room
  PROVE  Spec => []SlotExclusive
<1>1. IInv => SlotExclusive
  BY DEF IInv
<1>2. QED
  BY <1>1, InvariantHolds, PTL

\* Every request is drained, issued and completed at most once.
THEOREM RequestsAreHandledOnce ==
  ASSUME Calm, Room
  PROVE  Spec => []RequestInOnePlace
<1>1. IInv => RequestInOnePlace
  BY DEF IInv
<1>2. QED
  BY <1>1, InvariantHolds, PTL

\* No waiting backend is forgotten by the BGW, and the BGW works on no slot
\* whose backend has left.
THEOREM NoRequestIsOrphaned ==
  ASSUME Calm, Room
  PROVE  Spec => []NoOrphan
<1>1. IInv => NoOrphan
  BY DEF IInv
<1>2. QED
  BY <1>1, InvariantHolds, PTL

\* A SQL function reads the answer to its own request.
THEOREM AnswersAreMine ==
  ASSUME Calm, Room
  PROVE  Spec => []AnswerIsMine
<1>1. IInv => AnswerIsMine
  BY DEF IInv, AnswerIsMine, Identity, StateOfHeld
<1>2. QED
  BY <1>1, InvariantHolds, PTL

\* The wait loop of wait_response cannot sleep through the BGW's SetLatch.
THEOREM WakeupIsNotLost ==
  ASSUME Calm, Room
  PROVE  Spec => []NoLostWakeup
<1>1. IInv => NoLostWakeup
  BY DEF IInv
<1>2. QED
  BY <1>1, InvariantHolds, PTL

\* The BGW never waits on its latch with requests queued and nothing under way
\* that will set it, although one round drains only MaxBatch of them.
THEOREM RequestIsNotStranded ==
  ASSUME Calm, Room
  PROVE  Spec => []NoStrandedRequest
<1>1. IInv => NoStrandedRequest
  BY DEF IInv, NoStrandedRequest, Served, BgwLoops, InFlightSlots
<1>2. QED
  BY <1>1, InvariantHolds, PTL

\* The gRPC callbacks write only into the request they were issued for.
THEOREM CallbackWritesItsRequest ==
  ASSUME Calm, Room
  PROVE  Spec => RpcWritesOwnRequest
<1>1. IInv => \A r \in InFlight : /\ state[r.slot] = "PROCESSING"
                                  /\ request[r.slot].id = r.id
  BY DEF IInv, StateOfRefs, Working, InFlightSlots, Identity
<1>2. IInv => [\A r \in InFlight :
                 inflight'[r] < inflight[r]
                   => state[r.slot] = "PROCESSING"
                        /\ request[r.slot].id = r.id]_vars
  BY <1>1
<1>3. QED
  BY <1>2, InvariantHolds, PTL DEF RpcWritesOwnRequest
=============================================================================
