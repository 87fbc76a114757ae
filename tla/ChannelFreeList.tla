-------------------------- MODULE ChannelFreeList --------------------------
(***************************************************************************)
(* The slots of the pool.  The free list, followed from its head, is the   *)
(* EMPTY slots and nothing else: proved with the list itself as a witness, *)
(* which every pop shortens and every push extends.  What is not EMPTY is  *)
(* held by a call, or lost in one way only.                                *)
(***************************************************************************)
EXTENDS ChannelSafety, WellFoundedInduction

Free == {s \in Slots : state[s] = "EMPTY"}

\* f lists the free slots from the head on, each once, and ends with NULL.
Chain(m, f) ==
  /\ f[0] = head
  /\ f[m] = NULL
  /\ \A i \in 0 .. (m - 1) : f[i] \in Free /\ f[i + 1] = next[f[i]]
  /\ \A i, j \in 0 .. (m - 1) : f[i] = f[j] => i = j
  /\ \A s \in Free : \E i \in 0 .. (m - 1) : f[i] = s

\* FreeListExact follows one pointer after the other; the whole list at once
\* is what a step preserves.
Linked == \E m \in Nat : \E f \in [0 .. m -> Slots \cup {NULL}] : Chain(m, f)

----------------------------------------------------------------------------
(***************************************************************************)
(* Following the list                                                      *)
(***************************************************************************)

\* A set of numbers that is not empty has a least element.
LEMMA LeastNumber ==
  ASSUME NEW T \in SUBSET Nat, T # {}
  PROVE  \E i \in T : \A j \in T : i <= j
<1> DEFINE Less == OpToRel(<, Nat)
<1>1. \A i, j \in Nat : <<j, i>> \in Less <=> j < i
  BY DEF OpToRel
<1>2. IsWellFoundedOn(Less, Nat)
  BY NatLessThanWellFounded
<1> HIDE DEF Less
<1>3. PICK i \in T : \A j \in T : ~(<<j, i>> \in Less)
  BY <1>2, WFMin
<1>4. \A j \in T : i <= j
  <2> SUFFICES ASSUME NEW j \in T PROVE i <= j
    OBVIOUS
  <2>1. i \in Nat /\ j \in Nat /\ ~(j < i)
    BY <1>1, <1>3
  <2>2. QED
    BY <2>1
<1>5. QED
  BY <1>4

\* A chain has no more nodes than there are slots.
LEMMA ChainIsShort ==
  ASSUME NEW m \in Nat, NEW f \in [0 .. m -> Slots \cup {NULL}], Chain(m, f)
  PROVE  m <= SlotCount
<1> SUFFICES ASSUME ~(m <= SlotCount) PROVE FALSE
  OBVIOUS
<1> DEFINE D == 0 .. (m - 1)
           g == [i \in D |-> f[i]]
<1>1. SlotCount \in Nat /\ SlotCount < m
  BY SlotCountAssumption
<1>2. IsFiniteSet(D) /\ Cardinality(D) = m
  <2>1. m - 1 \in Int /\ 0 \in Int /\ ~(0 > m - 1) /\ (m - 1) - 0 + 1 = m
    BY <1>1
  <2>2. QED
    BY <2>1, FS_Interval
<1>3. IsFiniteSet(Slots) /\ Cardinality(Slots) = SlotCount
  BY SlotCountAssumption, FS_Interval DEF Slots
<1>4. g \in [D -> Slots]
  BY DEF Chain, Free
<1>5. \A i \in D : g[i] = f[i]
  OBVIOUS
<1> HIDE DEF g
<1>6. \E x, y \in D : x # y /\ g[x] = g[y]
  BY <1>1, <1>2, <1>3, <1>4, FS_PigeonHole
<1>7. QED
  BY <1>5, <1>6 DEF Chain

\* The n-th node by pointers is the n-th node of the chain, and NULL after it.
LEMMA FreeAtIsChain ==
  ASSUME TypeOK, NEW m \in Nat, NEW f \in [0 .. m -> Slots \cup {NULL}], Chain(m, f),
         NEW n \in Nat
  PROVE  FreeAt[n] = IF n <= m THEN f[n] ELSE NULL
<1> DEFINE Follow(h) == [k \in Nat |-> IF k = 0 THEN head
                                       ELSE IF h[k - 1] = NULL THEN NULL ELSE next[h[k - 1]]]
           g == [k \in Nat |-> IF k <= m THEN f[k] ELSE NULL]
<1>1. g = Follow(g)
  <2>1. ASSUME NEW k \in Nat PROVE g[k] = Follow(g)[k]
    <3>1. CASE k = 0
      BY <3>1 DEF Chain
    <3>2. CASE k # 0 /\ k <= m
      <4>1. k - 1 \in Nat /\ k - 1 <= m /\ k - 1 \in 0 .. (m - 1) /\ (k - 1) + 1 = k
        BY <3>2
      <4>2. f[k - 1] \in Slots /\ f[k] = next[f[k - 1]]
        BY <4>1 DEF Chain, Free
      <4>3. f[k - 1] # NULL
        BY <4>2, NullAssumption
      <4>4. QED
        BY <3>2, <4>1, <4>2, <4>3
    <3>3. CASE k = m + 1
      BY <3>3 DEF Chain
    <3>4. CASE k > m + 1
      BY <3>4
    <3>5. QED
      BY <3>1, <3>2, <3>3, <3>4
  <2>2. QED
    BY <2>1
<1>2. FreeAt = CHOOSE h : h = Follow(h)
  BY DEF FreeAt
<1>3. FreeAt = Follow(FreeAt)
  BY <1>1, <1>2
<1> DEFINE T == {k \in Nat : FreeAt[k] # g[k]}
<1>4. /\ \A h : Follow(h)[0] = head
      /\ \A h : \A k \in Nat \ {0} :
           Follow(h)[k] = IF h[k - 1] = NULL THEN NULL ELSE next[h[k - 1]]
  OBVIOUS
<1> HIDE DEF Follow, g
<1>5. T = {}
  <2> SUFFICES ASSUME T # {} PROVE FALSE
    OBVIOUS
  <2>1. PICK k \in T : \A j \in T : k <= j
    <3>1. T \in SUBSET Nat
      OBVIOUS
    <3> HIDE DEF T
    <3>2. QED
      BY <3>1, LeastNumber
  <2>2. k \in Nat /\ FreeAt[k] # g[k]
    OBVIOUS
  <2>3. CASE k = 0
    BY <1>1, <1>3, <1>4, <2>2, <2>3
  <2>4. CASE k # 0
    <3>1. k - 1 \in Nat /\ ~(k <= k - 1) /\ k \in Nat \ {0}
      BY <2>2, <2>4
    <3>2. FreeAt[k - 1] = g[k - 1]
      BY <2>1, <3>1
    <3>3. FreeAt[k] = IF FreeAt[k - 1] = NULL THEN NULL ELSE next[FreeAt[k - 1]]
      BY <1>3, <1>4, <3>1
    <3>4. g[k] = IF g[k - 1] = NULL THEN NULL ELSE next[g[k - 1]]
      BY <1>1, <1>4, <3>1
    <3>5. QED
      BY <2>2, <3>2, <3>3, <3>4
  <2>5. QED
    BY <2>3, <2>4
<1>6. FreeAt[n] = g[n]
  BY <1>5
<1>7. QED
  BY <1>6 DEF g

\* So a pool whose free slots are linked has an exact free list.
LEMMA LinkedIsExact == TypeOK /\ Linked => FreeListExact
<1> SUFFICES ASSUME TypeOK, Linked PROVE FreeListExact
  OBVIOUS
<1>1. PICK m \in Nat : \E f \in [0 .. m -> Slots \cup {NULL}] : Chain(m, f)
  BY DEF Linked
<1>2. PICK f \in [0 .. m -> Slots \cup {NULL}] : Chain(m, f)
  BY <1>1
<1>3. m <= SlotCount /\ SlotCount \in Nat
  BY <1>2, ChainIsShort, SlotCountAssumption
<1>4. \A n \in Nat : FreeAt[n] = IF n <= m THEN f[n] ELSE NULL
  BY <1>2, FreeAtIsChain
<1>5. f[m] = NULL
  BY <1>2 DEF Chain
<1>6. FreeAt[SlotCount] = NULL
  BY <1>3, <1>4, <1>5
<1>7. ASSUME NEW n \in 0 .. SlotCount, FreeAt[n] # NULL PROVE FreeAt[n] \in Free
  <2>1. n \in Nat
    BY <1>3
  <2>2. n <= m /\ FreeAt[n] = f[n] /\ n # m
    BY <1>4, <1>5, <1>7, <2>1
  <2>3. n \in 0 .. (m - 1)
    BY <2>1, <2>2
  <2>4. QED
    BY <1>2, <2>2, <2>3 DEF Chain
<1>8. ASSUME NEW s \in Free
      PROVE  s # NULL /\ \E n \in 0 .. SlotCount : FreeAt[n] = s
  <2>1. PICK n \in 0 .. (m - 1) : f[n] = s
    BY <1>2 DEF Chain
  <2>2. n \in Nat /\ n <= m /\ n \in 0 .. SlotCount
    BY <1>3
  <2>3. FreeAt[n] = s
    BY <1>4, <2>1, <2>2
  <2>4. s # NULL
    BY NullAssumption DEF Free
  <2>5. QED
    BY <2>2, <2>3, <2>4
<1>9. {FreeAt[n] : n \in 0 .. SlotCount} \ {NULL} = Free
  BY <1>7, <1>8
<1>10. QED
  BY <1>6, <1>9 DEF FreeListExact, Free

----------------------------------------------------------------------------
(***************************************************************************)
(* Pop and push                                                            *)
(***************************************************************************)

\* slist_pop_head: the rest of the chain.
LEMMA Pop ==
  ASSUME TypeOK, Linked, head # NULL, head' = next[head], UNCHANGED next,
         Free' = Free \ {head}
  PROVE  Linked'
<1>1. PICK m \in Nat : \E f \in [0 .. m -> Slots \cup {NULL}] : Chain(m, f)
  BY DEF Linked
<1>2. PICK f \in [0 .. m -> Slots \cup {NULL}] : Chain(m, f)
  BY <1>1
<1>3. m # 0
  BY <1>2 DEF Chain
<1> DEFINE n == m - 1
           g == [i \in 0 .. n |-> f[i + 1]]
<1>4. n \in Nat /\ 0 \in 0 .. n /\ n \in 0 .. n /\ \A i \in 0 .. n : i + 1 \in 0 .. m
  BY <1>3
<1>5. g \in [0 .. n -> Slots \cup {NULL}]
  BY <1>4
<1>6. \A i \in 0 .. n : g[i] = f[i + 1]
  OBVIOUS
<1>7. n + 1 = m /\ \A i \in 0 .. (n - 1) : /\ i \in 0 .. n /\ i + 1 \in 0 .. n
                                           /\ i + 1 \in 0 .. (m - 1) /\ i + 1 # 0
  BY <1>3
<1>8. 0 \in 0 .. (m - 1) /\ 0 + 1 = 1
  BY <1>3
<1> HIDE DEF g, n
<1>9. g[0] = head'
  <2>1. f[0] = head /\ f[1] = next[f[0]]
    BY <1>2, <1>8 DEF Chain
  <2>2. QED
    BY <1>4, <1>6, <1>8, <2>1
<1>10. g[n] = NULL
  BY <1>2, <1>4, <1>6, <1>7 DEF Chain
<1>11. ASSUME NEW i \in 0 .. (n - 1) PROVE g[i] \in Free' /\ g[i + 1] = next'[g[i]]
  <2>1. g[i] = f[i + 1] /\ g[i + 1] = f[(i + 1) + 1]
    BY <1>6, <1>7
  <2>2. f[i + 1] \in Free /\ f[(i + 1) + 1] = next[f[i + 1]]
    BY <1>2, <1>7 DEF Chain
  <2>3. f[i + 1] # f[0]
    BY <1>2, <1>7, <1>8 DEF Chain
  <2>4. f[0] = head
    BY <1>2 DEF Chain
  <2>5. QED
    BY <2>1, <2>2, <2>3, <2>4
<1>12. ASSUME NEW i \in 0 .. (n - 1), NEW j \in 0 .. (n - 1), g[i] = g[j] PROVE i = j
  <2>1. f[i + 1] = f[j + 1]
    BY <1>6, <1>7, <1>12
  <2>2. i + 1 = j + 1
    BY <1>2, <1>7, <2>1 DEF Chain
  <2>3. QED
    BY <2>2
<1>13. ASSUME NEW s \in Free' PROVE \E i \in 0 .. (n - 1) : g[i] = s
  <2>1. s \in Free /\ s # head
    OBVIOUS
  <2>2. PICK k \in 0 .. (m - 1) : f[k] = s
    BY <1>2, <2>1 DEF Chain
  <2>3. k # 0
    BY <1>2, <2>1, <2>2 DEF Chain
  <2>4. k - 1 \in 0 .. (n - 1) /\ k - 1 \in 0 .. n /\ (k - 1) + 1 = k
    BY <2>3 DEF n
  <2>5. g[k - 1] = s
    BY <1>6, <2>2, <2>4
  <2>6. QED
    BY <2>4, <2>5
<1>14. Chain(n, g)'
  BY <1>9, <1>10, <1>11, <1>12, <1>13 DEF Chain
<1>15. QED
  BY <1>4, <1>5, <1>14 DEF Linked

\* slist_push_head of a slot that is not on the list.
LEMMA Push ==
  ASSUME TypeOK, Linked, NEW s \in Slots, s \notin Free, head' = s,
         next' = [next EXCEPT ![s] = head], Free' = Free \cup {s}
  PROVE  Linked'
<1>1. PICK m \in Nat : \E f \in [0 .. m -> Slots \cup {NULL}] : Chain(m, f)
  BY DEF Linked
<1>2. PICK f \in [0 .. m -> Slots \cup {NULL}] : Chain(m, f)
  BY <1>1
<1> DEFINE n == m + 1
           g == [i \in 0 .. n |-> IF i = 0 THEN s ELSE f[i - 1]]
<1>3. n \in Nat /\ 0 \in 0 .. n /\ n \in 0 .. n /\ n # 0 /\ n - 1 = m
  OBVIOUS
<1>4. g \in [0 .. n -> Slots \cup {NULL}]
  OBVIOUS
<1>5. g[0] = s /\ \A i \in 0 .. n : i # 0 => g[i] = f[i - 1]
  OBVIOUS
<1>6. \A i \in 0 .. (n - 1) : /\ i \in 0 .. n /\ i + 1 \in 0 .. n /\ i + 1 # 0 /\ (i + 1) - 1 = i
                              /\ i # 0 => i - 1 \in 0 .. (m - 1) /\ (i - 1) + 1 = i
  OBVIOUS
<1> HIDE DEF g, n
<1>7. g[n] = NULL
  BY <1>2, <1>3, <1>5 DEF Chain
<1>8. next'[s] = head /\ \A u \in Free : next'[u] = next[u] /\ u # s
  BY DEF TypeOK, Free
<1>9. ASSUME NEW i \in 0 .. (n - 1) PROVE g[i] \in Free' /\ g[i + 1] = next'[g[i]]
  <2>1. g[i + 1] = f[i]
    BY <1>5, <1>6
  <2>2. CASE i = 0
    BY <1>2, <1>5, <1>8, <2>1, <2>2 DEF Chain
  <2>3. CASE i # 0
    <3>1. g[i] = f[i - 1] /\ i - 1 \in 0 .. (m - 1)
      BY <1>5, <1>6, <2>3
    <3>2. f[i - 1] \in Free /\ f[(i - 1) + 1] = next[f[i - 1]]
      BY <1>2, <3>1 DEF Chain
    <3>3. (i - 1) + 1 = i
      BY <1>6, <2>3
    <3>4. QED
      BY <1>8, <2>1, <3>1, <3>2, <3>3
  <2>4. QED
    BY <2>2, <2>3
<1>10. \A k \in 0 .. (m - 1) : f[k] # s
  BY <1>2 DEF Chain
<1>11. ASSUME NEW i \in 0 .. (n - 1), NEW j \in 0 .. (n - 1), g[i] = g[j] PROVE i = j
  <2>1. CASE i = 0 \/ j = 0
    BY <1>5, <1>6, <1>10, <1>11, <2>1
  <2>2. CASE i # 0 /\ j # 0
    <3>1. f[i - 1] = f[j - 1] /\ i - 1 \in 0 .. (m - 1) /\ j - 1 \in 0 .. (m - 1)
      BY <1>5, <1>6, <1>11, <2>2
    <3>2. i - 1 = j - 1
      BY <1>2, <3>1 DEF Chain
    <3>3. QED
      BY <3>2
  <2>3. QED
    BY <2>1, <2>2
<1>12. ASSUME NEW u \in Free' PROVE \E i \in 0 .. (n - 1) : g[i] = u
  <2>1. CASE u = s
    BY <1>3, <1>5, <2>1
  <2>2. CASE u # s
    <3>1. PICK k \in 0 .. (m - 1) : f[k] = u
      BY <1>2, <2>2 DEF Chain
    <3>2. k + 1 \in 0 .. (n - 1) /\ k + 1 \in 0 .. n /\ k + 1 # 0 /\ (k + 1) - 1 = k
      BY DEF n
    <3>3. g[k + 1] = u
      BY <1>5, <3>1, <3>2
    <3>4. QED
      BY <3>2, <3>3
  <2>3. QED
    BY <2>1, <2>2
<1>13. Chain(n, g)'
  BY <1>5, <1>7, <1>9, <1>11, <1>12 DEF Chain
<1>14. QED
  BY <1>3, <1>4, <1>13 DEF Linked

\* A step that leaves the list alone and empties or fills no slot.
LEMMA ListSame ==
  ASSUME Linked, UNCHANGED <<head, next>>,
         \A s \in Slots : state'[s] = "EMPTY" <=> state[s] = "EMPTY"
  PROVE  Linked'
<1>1. Free' = Free
  BY DEF Free
<1>2. QED
  BY <1>1 DEF Linked, Chain

\* pool_init links all slots, the last one first.
LEMMA LinkedInit == Init => Linked
<1> SUFFICES ASSUME Init PROVE Linked
  OBVIOUS
<1> DEFINE m == SlotCount
           f == [i \in 0 .. m |-> IF i = m THEN NULL ELSE (m - 1) - i]
<1>1. m \in Nat /\ m # 0 /\ 0 \in 0 .. m /\ m \in 0 .. m
  BY SlotCountAssumption
<1>2. Free = Slots
  BY DEF Init, Free
<1>3. \A i \in 0 .. (m - 1) : /\ i \in 0 .. m /\ i # m /\ i + 1 \in 0 .. m
                              /\ (m - 1) - i \in Slots
  BY <1>1 DEF Slots
<1>4. f \in [0 .. m -> Slots \cup {NULL}]
  <2>1. \A i \in 0 .. m : i # m => (m - 1) - i \in Slots
    BY <1>1 DEF Slots
  <2>2. QED
    BY <2>1
<1>5. f[m] = NULL /\ \A i \in 0 .. (m - 1) : f[i] = (m - 1) - i
  BY <1>1, <1>3
<1> HIDE DEF f
<1>6. f[0] = head
  BY <1>1, <1>5 DEF Init
<1>7. ASSUME NEW i \in 0 .. (m - 1) PROVE f[i] \in Free /\ f[i + 1] = next[f[i]]
  <2>1. f[i] = (m - 1) - i /\ f[i] \in Slots
    BY <1>3, <1>5
  <2>2. next[f[i]] = IF f[i] = 0 THEN NULL ELSE f[i] - 1
    BY <2>1 DEF Init, PoolLinks
  <2>3. CASE i + 1 = m
    <3>1. f[i] = 0 /\ f[i + 1] = NULL
      BY <1>1, <1>5, <2>1, <2>3
    <3>2. QED
      BY <1>2, <2>1, <2>2, <3>1
  <2>4. CASE i + 1 # m
    <3>1. i + 1 \in 0 .. (m - 1)
      BY <1>1, <2>4
    <3>2. f[i + 1] = (m - 1) - (i + 1)
      BY <1>5, <3>1
    <3>3. f[i] # 0 /\ f[i] - 1 = f[i + 1]
      BY <1>1, <2>1, <2>4, <3>2
    <3>4. QED
      BY <1>2, <2>1, <2>2, <3>3
  <2>5. QED
    BY <2>3, <2>4
<1>8. \A i, j \in 0 .. (m - 1) : f[i] = f[j] => i = j
  BY <1>1, <1>5
<1>9. ASSUME NEW s \in Free PROVE \E i \in 0 .. (m - 1) : f[i] = s
  <2>1. s \in 0 .. (m - 1)
    BY <1>2 DEF Slots
  <2>2. (m - 1) - s \in 0 .. (m - 1) /\ (m - 1) - ((m - 1) - s) = s
    BY <1>1, <2>1
  <2>3. f[(m - 1) - s] = s
    BY <1>5, <2>2
  <2>4. QED
    BY <2>2, <2>3
<1>10. Chain(m, f)
  BY <1>5, <1>6, <1>7, <1>8, <1>9 DEF Chain
<1>11. QED
  BY <1>1, <1>4, <1>10 DEF Linked

----------------------------------------------------------------------------
(***************************************************************************)
(* The steps of the channel                                                *)
(***************************************************************************)

\* Acquiring pops, the three places where a call ends push, and the BGW only
\* writes state words of slots that are in use.
LEMMA LinkedStep ==
  ASSUME Calm, IInv, Linked, [Next]_vars
  PROVE  Linked'
<1> USE DEF slotVars
<1>0. TypeOK
  BY DEF IInv
<1>1. ASSUME UNCHANGED <<state, head, next>> PROVE Linked'
  BY <1>1, ListSame
<1>2. ASSUME NEW s \in Slots, NEW st \in SlotStates \ {"EMPTY"}, WriteState(s, st),
             state[s] # "EMPTY"
      PROVE  Linked'
  <2>1. \A u \in Slots : state'[u] = "EMPTY" <=> state[u] = "EMPTY"
    BY <1>0, <1>2 DEF WriteState, TypeOK
  <2>2. QED
    BY <1>2, <2>1, ListSame DEF WriteState
<1>3. ASSUME NEW b \in Backends, BackendStep(b) PROVE Linked'
  <2>1. CASE Prepare(b) \/ Fill(b) \/ Enqueue(b) \/ EnqueueFull(b) \/ WakeBgw(b)
               \/ Check(b) \/ Wake(b)
    BY <1>1, <2>1 DEF Prepare, Fill, Enqueue, EnqueueFull, WakeBgw, Check, Wake
  <2>2. CASE Rollback(b) \/ Respond(b) \/ CatchRelease(b)
    <3> DEFINE s == slot[b]
    <3>1. Release(s) /\ pc[b] # "idle"
      BY <2>2 DEF Rollback, Respond, CatchRelease
    <3>2. s \in Slots /\ state[s] # "EMPTY"
      BY <1>0, <3>1 DEF IInv, Holding, SlotExclusive, TypeOK
    <3> HIDE DEF s
    <3>3. s \notin Free /\ Free' = Free \cup {s}
      BY <1>0, <3>1, <3>2 DEF Free, Release, TypeOK
    <3>4. QED
      BY <1>0, <3>1, <3>2, <3>3, Push DEF Release
  <2>3. CASE CanceledRelease(b) \/ CatchRead(b) \/ CatchCancel(b)
               \/ CatchDone(b) \/ CatchPid(b)
    <3>1. pc[b] \in {"canceledRelease", "catchRead", "catchCancel",
                     "catchDone", "catchPid"}
      BY <2>3 DEF CanceledRelease, CatchRead, CatchCancel, CatchDone, CatchPid, Goto
    <3>2. QED
      BY <3>1 DEF IInv, Holding, Prepared
  <2>4. QED
    BY <1>3, <2>1, <2>2, <2>3 DEF BackendStep
<1>4. ASSUME NEW b \in Backends, EnvStep(b) PROVE Linked'
  <2>1. ASSUME NEW o \in Ops, Acquire(b, o) PROVE Linked'
    <3>1. /\ head # NULL /\ head' = next[head] /\ UNCHANGED next
          /\ state' = [state EXCEPT ![head] = "PENDING"]
      BY <2>1 DEF Acquire
    <3>2. head \in Slots
      BY <3>1 DEF IInv, FreeList
    <3>3. Free' = Free \ {head}
      BY <1>0, <3>1, <3>2 DEF Free, TypeOK
    <3>4. QED
      BY <1>0, <3>1, <3>3, Pop
  <2>2. CASE AcquireFail(b) \/ OtherSignal(b) \/ FillError(b)
    BY <1>1, <2>2 DEF AcquireFail, OtherSignal, FillError
  <2>3. CASE Cancel(b) \/ CancelReport(b) \/ Die(b) \/ Exit(b)
    BY <2>3 DEF Calm, Cancel, CancelReport, Die, Exit
  <2>4. QED
    BY <1>4, <2>1, <2>2, <2>3 DEF EnvStep
<1>5. ASSUME BgwStep PROVE Linked'
  <2>1. CASE BgwWake \/ BeginEnd \/ IssueEnd \/ HandleEnd \/ Drain \/ Issue
               \/ SwapCompleted \/ HandleResponse \/ WakeBackend
    BY <1>1, <2>1 DEF BgwWake, BeginEnd, IssueEnd, HandleEnd, Drain, Issue,
                      SwapCompleted, HandleResponse, WakeBackend
  <2>2. CASE BeginProcessing
    <3> DEFINE s == Head(batch)
    <3>1. CASE state[s] = "PENDING"
      <4>1. WriteState(s, "PROCESSING") /\ batch # << >>
        BY <2>2, <3>1 DEF BeginProcessing
      <4>2. s \in Slots
        BY <1>0, <4>1 DEF TypeOK
      <4>3. QED
        BY <1>2, <3>1, <4>1, <4>2 DEF SlotStates
    <3>2. CASE state[s] # "PENDING"
      BY <1>1, <2>2, <3>2 DEF BeginProcessing
    <3>3. QED
      BY <3>1, <3>2
  <2>3. CASE WriteDone
    <3>1. bpc = "done" /\ WriteState(bslot, "DONE")
      BY <2>3 DEF WriteDone
    <3>2. bslot \in Slots /\ bslot \in Working
      BY <3>1 DEF IInv, BgwLoops, Working, Closing
    <3>3. state[bslot] # "EMPTY"
      BY <3>2 DEF IInv, StateOfRefs
    <3>4. QED
      BY <1>2, <3>1, <3>2, <3>3 DEF SlotStates
  <2>4. CASE BeginRelease \/ HandleRelease
    BY <2>4 DEF BeginRelease, HandleRelease, IInv, BgwLoops
  <2>5. QED
    BY <1>5, <2>1, <2>2, <2>3, <2>4 DEF BgwStep
<1>6. ASSUME GrpcStep PROVE Linked'
  BY <1>1, <1>6 DEF GrpcStep, RpcComplete, RpcSignal
<1>7. ASSUME UNCHANGED vars PROVE Linked'
  BY <1>1, <1>7 DEF vars
<1>8. QED
  BY <1>3, <1>4, <1>5, <1>6, <1>7 DEF Next, ClientsDone

\* Following the intrusive list from the head visits the EMPTY slots, each
\* once, and ends, for a pool of any size: fga_channel_acquire_slot neither
\* loses a slot nor hands out one that is in use.
THEOREM FreeListStaysExact ==
  ASSUME Calm, Room
  PROVE  Spec => []FreeListExact
<1>1. IInv /\ Linked /\ [Next]_vars => Linked'
  BY LinkedStep
<1>2. IInv /\ Linked => FreeListExact
  BY LinkedIsExact DEF IInv
<1>3. QED
  BY InvariantHolds, LinkedInit, <1>1, <1>2, PTL DEF Spec
----------------------------------------------------------------------------
(***************************************************************************)
(* Lost slots                                                              *)
(***************************************************************************)

\* LostOnlyByCheck but for what follows from NoOrphan.
LossInv ==
  \A s \in Lost : "nostore" \in Env /\ state[s] = "PENDING" /\ request[s].type = "check"

\* A step that loses no slot and leaves the lost ones alone.
LEMMA NothingLost ==
  ASSUME LossInv,
         \A s \in Lost' : s \in Lost /\ state'[s] = state[s] /\ request'[s].type = request[s].type
  PROVE  LossInv'
BY DEF LossInv

\* The owner writes to its slot, which is not lost.
LEMMA OwnSlot ==
  ASSUME IInv, LossInv, NEW b \in Backends, slot[b] \in Slots, UNCHANGED slot,
         \A s \in Slots \ {slot[b]} : state'[s] = state[s] /\ request'[s] = request[s]
  PROVE  LossInv'
<1>1. ASSUME NEW s \in Lost'
      PROVE  s \in Lost /\ state'[s] = state[s] /\ request'[s].type = request[s].type
  <2>1. s \in Slots /\ state'[s] # "EMPTY" /\ \A c \in Backends : slot[c] # s
    BY DEF Lost
  <2>2. s \in Slots \ {slot[b]}
    BY <2>1
  <2>3. QED
    BY <2>1, <2>2 DEF Lost
<1>2. QED
  BY <1>1, NothingLost

\* A call gives its slot back and ends, or goes on to its PG_CATCH.
LEMMA GivenBack ==
  ASSUME IInv, LossInv, NEW b \in Backends, slot[b] \in Slots, Release(slot[b]),
         \A c \in Backends \ {b} : slot'[c] = slot[c]
  PROVE  LossInv'
<1>1. ASSUME NEW s \in Lost'
      PROVE  s \in Lost /\ state'[s] = state[s] /\ request'[s].type = request[s].type
  <2>1. s \in Slots /\ state'[s] # "EMPTY" /\ \A c \in Backends : slot'[c] # s
    BY DEF Lost
  <2>2. s # slot[b]
    BY <2>1 DEF Release, IInv, TypeOK
  <2>3. \A c \in Backends : slot[c] # s
    BY <2>1, <2>2
  <2>4. state'[s] = state[s] /\ request' = request
    BY <2>1, <2>2 DEF Release, IInv, TypeOK
  <2>5. QED
    BY <2>1, <2>3, <2>4 DEF Lost
<1>2. QED
  BY <1>1, NothingLost

\* The worker writes the state of a slot that is held.
LEMMA WorkerWrites ==
  ASSUME IInv, LossInv, NEW s \in Refs, NEW st, WriteState(s, st), UNCHANGED slot
  PROVE  LossInv'
<1>1. PICK b \in Backends : slot[b] = s /\ s \in Slots
  BY Owner
<1>2. \A u \in Slots \ {s} : state'[u] = state[u] /\ request'[u] = request[u]
  BY DEF WriteState, IInv, TypeOK
<1>3. QED
  BY <1>1, <1>2, OwnSlot

\* Only fga_check ends with its slot in hand, and only when it fills it in.
LEMMA FillErrorLoss ==
  ASSUME IInv, LossInv, NEW b \in Backends, FillError(b)
  PROVE  LossInv'
<1>1. /\ "nostore" \in Env /\ pc[b] = "fill" /\ Raise(b) /\ UNCHANGED state
      /\ request' = [request EXCEPT ![slot[b]].type = op[b]]
  BY DEF FillError
<1>2. slot[b] \in Slots /\ state[slot[b]] = "PENDING"
  BY <1>1 DEF IInv, Holding, StateOfHeld, TypeOK
<1>3. /\ request'[slot[b]].type = op[b]
      /\ \A s \in Slots \ {slot[b]} : request'[s] = request[s]
  BY <1>1, <1>2 DEF IInv, TypeOK, Request
<1>4. CASE HasCatch(op[b])
  <2>1. UNCHANGED slot
    BY <1>1, <1>4 DEF Raise
  <2>2. QED
    BY <1>1, <1>2, <1>3, <2>1, OwnSlot
<1>5. CASE ~HasCatch(op[b])
  <2>1. \A c \in Backends \ {b} : slot'[c] = slot[c]
    BY <1>1, <1>5 DEF Raise, End, IInv, TypeOK
  <2>2. op[b] = "check"
    BY <1>5 DEF HasCatch
  <2>3. ASSUME NEW s \in Lost', s # slot[b]
        PROVE  "nostore" \in Env /\ state'[s] = "PENDING" /\ request'[s].type = "check"
    <3>1. s \in Slots /\ state[s] # "EMPTY" /\ \A c \in Backends : slot'[c] # s
      BY <1>1 DEF Lost
    <3>2. s \in Lost
      BY <2>1, <2>3, <3>1 DEF Lost
    <3>3. QED
      BY <1>1, <1>3, <2>3, <3>1, <3>2 DEF LossInv
  <2>4. QED
    BY <1>1, <1>2, <1>3, <2>2, <2>3 DEF LossInv
<1>6. QED
  BY <1>4, <1>5

\* The slot that is acquired was free.
LEMMA AcquireLoss ==
  ASSUME IInv, LossInv, NEW b \in Backends, NEW o \in Ops, Acquire(b, o)
  PROVE  LossInv'
<1>1. /\ pc[b] = "idle" /\ head # NULL /\ UNCHANGED request
      /\ state' = [state EXCEPT ![head] = "PENDING"]
      /\ slot' = [slot EXCEPT ![b] = head]
  BY DEF Acquire, Goto
<1>2. slot[b] = NULL /\ head \in Slots
  BY <1>1 DEF IInv, Holding, FreeList
<1>3. slot'[b] = head /\ \A c \in Backends \ {b} : slot'[c] = slot[c]
  BY <1>1 DEF IInv, TypeOK
<1>4. ASSUME NEW s \in Lost'
      PROVE  s \in Lost /\ state'[s] = state[s] /\ request'[s].type = request[s].type
  <2>1. s \in Slots /\ state'[s] # "EMPTY" /\ \A c \in Backends : slot'[c] # s
    BY DEF Lost
  <2>2. s # head
    BY <1>3, <2>1
  <2>3. state'[s] = state[s]
    BY <1>1, <2>1, <2>2 DEF IInv, TypeOK
  <2>4. slot[b] # s
    BY <1>2, <2>1, NullAssumption
  <2>5. \A c \in Backends : slot[c] # s
    BY <1>3, <2>1, <2>4
  <2>6. QED
    BY <1>1, <2>1, <2>3, <2>5 DEF Lost
<1>5. QED
  BY <1>4, NothingLost

LEMMA LossStep ==
  ASSUME Calm, IInv, LossInv, [Next]_vars
  PROVE  LossInv'
<1> USE DEF slotVars, backendVars
<1>0. TypeOK
  BY DEF IInv
<1>1. ASSUME UNCHANGED <<state, request, slot>> PROVE LossInv'
  BY <1>1, NothingLost DEF Lost
<1>2. ASSUME NEW b \in Backends, BackendStep(b) PROVE LossInv'
  <2>1. CASE Enqueue(b) \/ EnqueueFull(b) \/ WakeBgw(b) \/ Check(b) \/ Wake(b)
    BY <1>1, <2>1 DEF Enqueue, EnqueueFull, WakeBgw, Check, Wake
  <2>2. CASE Prepare(b) \/ Fill(b)
    <3>1. slot[b] \in Slots
      BY <1>0, <2>2 DEF Prepare, Fill, Goto, IInv, Holding, TypeOK
    <3>2. UNCHANGED <<state, slot>>
      BY <2>2 DEF Prepare, Fill
    <3>3. \A s \in Slots \ {slot[b]} : request'[s] = request[s]
      BY <1>0, <2>2, <3>1 DEF Prepare, Fill, TypeOK
    <3>4. QED
      BY <3>1, <3>2, <3>3, OwnSlot
  <2>3. CASE Rollback(b) \/ Respond(b) \/ CatchRelease(b)
    <3>1. Release(slot[b]) /\ pc[b] # "idle"
      BY <2>3 DEF Rollback, Respond, CatchRelease
    <3>2. slot[b] \in Slots
      BY <1>0, <3>1 DEF IInv, Holding, TypeOK
    <3>3. \A c \in Backends \ {b} : slot'[c] = slot[c]
      BY <1>0, <2>3 DEF Rollback, Respond, CatchRelease, Raise, End, TypeOK
    <3>4. QED
      BY <3>1, <3>2, <3>3, GivenBack
  <2>4. CASE CanceledRelease(b) \/ CatchRead(b) \/ CatchCancel(b)
               \/ CatchDone(b) \/ CatchPid(b)
    <3>1. pc[b] \in {"canceledRelease", "catchRead", "catchCancel",
                     "catchDone", "catchPid"}
      BY <2>4 DEF CanceledRelease, CatchRead, CatchCancel, CatchDone, CatchPid, Goto
    <3>2. QED
      BY <3>1 DEF IInv, Holding, Prepared
  <2>5. QED
    BY <1>2, <2>1, <2>2, <2>3, <2>4 DEF BackendStep
<1>3. ASSUME NEW b \in Backends, EnvStep(b) PROVE LossInv'
  <2>1. CASE AcquireFail(b)
    <3>1. pc[b] = "idle" /\ slot' = [slot EXCEPT ![b] = NULL] /\ UNCHANGED <<state, request>>
      BY <2>1 DEF AcquireFail, End
    <3>2. slot' = slot
      BY <1>0, <3>1 DEF IInv, Holding, TypeOK
    <3>3. QED
      BY <1>1, <3>1, <3>2
  <2>2. CASE OtherSignal(b)
    BY <1>1, <2>2 DEF OtherSignal
  <2>3. CASE Cancel(b) \/ CancelReport(b) \/ Die(b) \/ Exit(b)
    BY <2>3 DEF Calm, Cancel, CancelReport, Die, Exit
  <2>4. QED
    BY <1>3, <2>1, <2>2, <2>3, AcquireLoss, FillErrorLoss DEF EnvStep
<1>4. ASSUME BgwStep PROVE LossInv'
  <2>1. CASE BgwWake \/ BeginEnd \/ IssueEnd \/ HandleEnd \/ Drain \/ Issue
               \/ SwapCompleted \/ HandleResponse \/ WakeBackend
    BY <1>1, <2>1 DEF BgwWake, BeginEnd, IssueEnd, HandleEnd, Drain, Issue,
                      SwapCompleted, HandleResponse, WakeBackend
  <2>2. CASE BeginProcessing
    <3> DEFINE s == Head(batch)
    <3>1. batch # << >> /\ UNCHANGED slot
      BY <2>2 DEF BeginProcessing
    <3>2. s \in Refs
      BY <1>0, <3>1, ElemsTail DEF TypeOK, Refs, Waiting
    <3>3. WriteState(s, "PROCESSING") \/ UNCHANGED <<state, request>>
      BY <2>2 DEF BeginProcessing
    <3> HIDE DEF s
    <3>4. QED
      BY <1>1, <3>1, <3>2, <3>3, WorkerWrites
  <2>3. CASE WriteDone
    <3>1. WriteState(bslot, "DONE") /\ UNCHANGED slot /\ bslot \in Refs
      BY <2>3 DEF WriteDone, Refs, Working, Closing
    <3>2. QED
      BY <3>1, WorkerWrites
  <2>4. CASE BeginRelease \/ HandleRelease
    BY <2>4 DEF BeginRelease, HandleRelease, IInv, BgwLoops
  <2>5. QED
    BY <1>4, <2>1, <2>2, <2>3, <2>4 DEF BgwStep
<1>5. ASSUME GrpcStep PROVE LossInv'
  BY <1>1, <1>5 DEF GrpcStep, RpcComplete, RpcSignal
<1>6. ASSUME UNCHANGED vars PROVE LossInv'
  BY <1>1, <1>6 DEF vars
<1>7. QED
  BY <1>2, <1>3, <1>4, <1>5, <1>6 DEF Next, ClientsDone

\* Slots are conserved: whatever is neither free nor held by a call was left
\* behind by an fga_check that found store_id unset, and by nothing else.
THEOREM SlotsAreConserved ==
  ASSUME Calm, Room
  PROVE  Spec => []LostOnlyByCheck
<1>1. Init => LossInv
  BY DEF Init, LossInv, Lost
<1>2. IInv /\ LossInv /\ [Next]_vars => LossInv'
  BY LossStep
<1>3. IInv /\ LossInv => LostOnlyByCheck
  <2> SUFFICES ASSUME IInv, LossInv, NEW s \in Lost PROVE s \notin Refs
    BY DEF LossInv, LostOnlyByCheck
  <2>1. QED
    BY Owner DEF Lost
<1>4. QED
  BY InvariantHolds, <1>1, <1>2, <1>3, PTL DEF Spec

\* With the free list exhausted every slot is held or lost.
LEMMA NoneFree ==
  ASSUME IInv, Linked, head = NULL
  PROVE  \A s \in Slots : s \in Lost \/ \E b \in Backends : slot[b] = s
<1>1. PICK m \in Nat : \E f \in [0 .. m -> Slots \cup {NULL}] : Chain(m, f)
  BY DEF Linked
<1>2. PICK f \in [0 .. m -> Slots \cup {NULL}] : Chain(m, f)
  BY <1>1
<1>3. m = 0
  <2> SUFFICES ASSUME m # 0 PROVE FALSE
    OBVIOUS
  <2>1. 0 \in 0 .. (m - 1)
    OBVIOUS
  <2>2. f[0] \in Slots /\ f[0] = NULL
    BY <1>2, <2>1 DEF Chain, Free
  <2>3. QED
    BY <2>2, NullAssumption
<1>4. Free = {}
  <2>1. 0 .. (m - 1) = {}
    BY <1>3
  <2>2. QED
    BY <1>2, <2>1 DEF Chain
<1>5. QED
  BY <1>4 DEF Free, Lost

\* A pool with a slot for each backend is exhausted by lost slots only: what the
\* hint of the error message says, to check for leaks, is all there is to check.
THEOREM PoolIsLargeEnough ==
  ASSUME Calm, Room, IsFiniteSet(Backends)
  PROVE  Spec => []ExhaustedOnlyByLoss
<1>1. IInv /\ Linked => ExhaustedOnlyByLoss
  <2> SUFFICES ASSUME IInv, Linked, head = NULL, NEW b \in Backends, pc[b] = "idle"
               PROVE  SlotCount < Cardinality(Backends) + Cardinality(Lost)
    BY DEF ExhaustedOnlyByLoss
  <2> DEFINE others == Backends \ {b}
             held == {slot[c] : c \in others}
  <2>1. slot[b] = NULL
    BY DEF IInv, Holding
  <2>2. /\ IsFiniteSet(others) /\ Cardinality(others) = Cardinality(Backends) - 1
        /\ Cardinality(Backends) \in Nat
    BY FS_RemoveElement, FS_CardinalityType
  <2>3. /\ IsFiniteSet(held) /\ Cardinality(held) <= Cardinality(others)
        /\ Cardinality(held) \in Nat
    <3>1. IsFiniteSet(held) /\ Cardinality(held) <= Cardinality(others)
      <4> DEFINE g == [c \in others |-> slot[c]]
      <4>1. held = {g[c] : c \in others}
        OBVIOUS
      <4>2. g \in [others -> held]
        OBVIOUS
      <4>3. g \in Surjection(others, held)
        BY <4>2 DEF Surjection
      <4> HIDE DEF others, held, g
      <4>4. QED
        BY <2>2, <4>3, FS_Surjection
    <3>2. QED
      BY <3>1, FS_CardinalityType
  <2>4. IsFiniteSet(Slots) /\ Cardinality(Slots) = SlotCount /\ SlotCount \in Nat
    BY SlotCountAssumption, FS_Interval DEF Slots
  <2>5. /\ IsFiniteSet(Lost) /\ Cardinality(Lost) \in Nat
    <3>1. Lost \subseteq Slots
      BY DEF Lost
    <3>2. QED
      BY <2>4, <3>1, FS_Subset, FS_CardinalityType
  <2>6. Slots \subseteq held \cup Lost
    <3> SUFFICES ASSUME NEW s \in Slots, s \notin Lost PROVE s \in held
      OBVIOUS
    <3>1. PICK c \in Backends : slot[c] = s
      BY NoneFree
    <3>2. c # b
      BY <2>1, <3>1, NullAssumption
    <3>3. QED
      BY <3>1, <3>2
  <2> HIDE DEF held, others
  <2>7. /\ IsFiniteSet(held \cup Lost)
        /\ Cardinality(held \cup Lost)
             = Cardinality(held) + Cardinality(Lost) - Cardinality(held \cap Lost)
    BY <2>3, <2>5, FS_Union
  <2>8. Cardinality(held \cap Lost) \in Nat
    <3>1. held \cap Lost \subseteq Lost
      OBVIOUS
    <3>2. QED
      BY <2>5, <3>1, FS_Subset, FS_CardinalityType
  <2>9. Cardinality(Slots) <= Cardinality(held \cup Lost)
    BY <2>6, <2>7, FS_Subset
  <2>10. Cardinality(held \cup Lost) \in Nat
    BY <2>7, FS_CardinalityType
  <2>11. QED
    BY <2>2, <2>3, <2>4, <2>5, <2>7, <2>8, <2>9, <2>10
<1>2. IInv /\ Linked /\ [Next]_vars => Linked'
  BY LinkedStep
<1>3. QED
  BY InvariantHolds, LinkedInit, <1>1, <1>2, PTL DEF Spec
=============================================================================
