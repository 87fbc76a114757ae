--------------------------- MODULE AclCacheBounds ---------------------------
(***************************************************************************)
(* How far the usage counts of L2 can rise and how long a sweep can take,  *)
(* proved by counting: the look-ups that are about to bump an entry, and   *)
(* the turns that the usage counts still allow.                            *)
(***************************************************************************)
EXTENDS AclCacheProofs, FiniteSetTheorems

\* The look-ups that have passed the test of entry i and not yet bumped it.
Bumping(i) == {b \in Backends : pc[b] = "bump" /\ index[call[b].key] = i}

\* Every such look-up may still add one.  UsageBounded is not inductive
\* without them: a count at its bound and one more look-up would break it.
Admission ==
  /\ \A b \in Backends : pc[b] = "bump" => seen[b] < UsageMax
  /\ \A i \in Slots :
       usage[i] + Cardinality(Bumping(i)) < UsageMax + Cardinality(Backends)

\* The turns a sweep has left: one for each unit of each entry's usage count.
Most == UsageMax + Cardinality(Backends) - 1
TurnsLeft == {t \in Slots \X (1 .. Most) : t[2] <= usage[t[1]]}

Progress ==
  /\ turns > 0 => \E b \in Backends : pc[b] = "sweep"
  /\ turns + Cardinality(TurnsLeft) <= Capacity * Most

----------------------------------------------------------------------------
(***************************************************************************)
(* Usage counts                                                            *)
(***************************************************************************)

\* The look-ups at an entry are some of the backends.
LEMMA BumpingSize ==
  ASSUME NEW i
  PROVE  /\ IsFiniteSet(Bumping(i))
         /\ Cardinality(Bumping(i)) \in Nat
         /\ Cardinality(Backends) \in Nat
         /\ Cardinality(Bumping(i)) <= Cardinality(Backends)
<1>1. Bumping(i) \in SUBSET Backends
  BY DEF Bumping
<1>2. QED
  BY <1>1, BackendsAssumption, FS_Subset, FS_CardinalityType

\* A step that moves nobody in or out of the bump leaves the set as it is.
LEMMA BumpingSame ==
  ASSUME UNCHANGED index,
         \A c \in Backends : pc'[c] = "bump" <=> pc[c] = "bump",
         \A c \in Backends : pc[c] = "bump" => call'[c] = call[c],
         NEW i
  PROVE  Bumping(i)' = Bumping(i)
BY DEF Bumping

\* A step that, besides, raises no usage count.
LEMMA AdmissionSame ==
  ASSUME L2Inv, L2Inv', Admission, UNCHANGED <<index, seen>>,
         \A c \in Backends : pc'[c] = "bump" <=> pc[c] = "bump",
         \A c \in Backends : pc[c] = "bump" => call'[c] = call[c],
         \A i \in Slots : usage'[i] <= usage[i]
  PROVE  Admission'
<1>1. \A b \in Backends : pc'[b] = "bump" => seen'[b] < UsageMax
  BY DEF Admission
<1>2. ASSUME NEW i \in Slots
      PROVE  usage'[i] + Cardinality(Bumping(i)') < UsageMax + Cardinality(Backends)
  <2>1. Bumping(i)' = Bumping(i)
    BY BumpingSame
  <2>2. usage[i] \in Nat /\ usage'[i] \in Nat /\ usage'[i] <= usage[i]
    BY UsageType DEF L2Inv, TypeOK
  <2>3. Cardinality(Bumping(i)) \in Nat /\ Cardinality(Backends) \in Nat
    BY BumpingSize
  <2>4. usage[i] + Cardinality(Bumping(i)) < UsageMax + Cardinality(Backends)
    BY DEF Admission
  <2>5. QED
    BY <2>1, <2>2, <2>3, <2>4, UsageMaxAssumption
<1>3. QED
  BY <1>1, <1>2 DEF Admission

\* A step that sets usage counts to the maximum while nobody is bumping.
LEMMA AdmissionAlone ==
  ASSUME L2Inv, Admission, NEW b \in Backends, NEW i \in Slots,
         \A c \in Backends : pc'[c] # "bump",
         usage' = [usage EXCEPT ![i] = UsageMax]
  PROVE  Admission'
<1>1. ASSUME NEW j \in Slots
      PROVE  usage'[j] + Cardinality(Bumping(j)') < UsageMax + Cardinality(Backends)
  <2>1. Bumping(j)' = {}
    BY DEF Bumping
  <2>2. Cardinality(Bumping(j)') = 0
    BY <2>1, FS_EmptySet
  <2>3. Cardinality(Bumping(j)) \in Nat /\ Cardinality(Backends) \in Nat
    BY BumpingSize
  <2>4. Cardinality(Backends) # 0
    BY BackendsAssumption, FS_EmptySet
  <2>5. usage[j] \in Nat /\ usage[j] + Cardinality(Bumping(j)) < UsageMax + Cardinality(Backends)
    BY UsageType DEF L2Inv, TypeOK, Admission
  <2>6. usage'[j] = IF j = i THEN UsageMax ELSE usage[j]
    BY DEF L2Inv, TypeOK
  <2>7. QED
    BY <2>2, <2>3, <2>4, <2>5, <2>6, UsageMaxAssumption
<1>2. QED
  BY <1>1 DEF Admission

\* Passing the test counts a look-up in, the bump counts it out, and a store
\* that sets the maximum has waited for all of them.
LEMMA AdmissionStep == L2Inv /\ L2Inv' /\ Admission /\ [Next]_vars => Admission'
<1> SUFFICES ASSUME L2Inv, L2Inv', Admission, [Next]_vars PROVE Admission'
  OBVIOUS
<1> USE DEF l1Vars, l2Vars, history
<1>0. TypeOK /\ IndexExact /\ Locked
  BY DEF L2Inv
<1>a. \A i \in Slots : usage[i] \in Nat /\ usage[i] <= usage[i]
  <2>1. \A i \in Slots : usage[i] \in Nat
    BY <1>0, UsageType DEF TypeOK
  <2>2. QED
    BY <2>1
<1>1. ASSUME NEW b \in Backends, NEW h \in Hashes, LookupDisabled(b, h) PROVE Admission'
  BY <1>1, <1>a, AdmissionSame DEF LookupDisabled
<1>2. ASSUME NEW b \in Backends, NEW k \in Keys, L1Hit(b, k) \/ L1Miss(b, k)
      PROVE  Admission'
  <2>1. /\ UNCHANGED <<index, seen, usage>> /\ pc[b] = "idle"
        /\ pc' = pc \/ pc' = [pc EXCEPT ![b] = "lookup"]
        /\ \A c \in Backends \ {b} : call'[c] = call[c]
    BY <1>0, <1>2 DEF L1Hit, L1Miss, TypeOK
  <2>2. \A c \in Backends : pc'[c] = "bump" <=> pc[c] = "bump"
    BY <1>0, <2>1 DEF TypeOK
  <2>3. \A c \in Backends : pc[c] = "bump" => call'[c] = call[c]
    BY <2>1
  <2>4. QED
    BY <1>a, <2>1, <2>2, <2>3, AdmissionSame
<1>3. ASSUME NEW b \in Backends, L2Miss(b) PROVE Admission'
  <2>1. UNCHANGED <<index, seen>> /\ pc[b] = "lookup" /\ Return(b)
    BY <1>3 DEF L2Miss
  <2>2. \A i \in Slots : usage'[i] <= usage[i]
    <3>1. usage' = usage \/ usage' = [usage EXCEPT ![index[call[b].key]] = 0]
      BY <1>3 DEF L2Miss
    <3>2. QED
      BY <1>0, <1>a, <3>1 DEF TypeOK
  <2>3. \A c \in Backends : pc'[c] = "bump" <=> pc[c] = "bump"
    BY <1>0, <2>1 DEF TypeOK, Return
  <2>4. \A c \in Backends : pc[c] = "bump" => call'[c] = call[c]
    BY <1>0, <2>1 DEF TypeOK, Return
  <2>5. QED
    BY <2>1, <2>2, <2>3, <2>4, AdmissionSame
<1>4. ASSUME NEW b \in Backends, L2Hit(b) PROVE Admission'
  <2> DEFINE i == index[call[b].key]
  <2>1. UNCHANGED <<index, usage>> /\ pc[b] = "lookup"
    BY <1>4 DEF L2Hit
  <2>2. i \in Slots
    BY <1>0, <1>4, CallType DEF L2Hit, TypeOK
  <2>3. CASE MayBump(i)
    <3>1. /\ pc' = [pc EXCEPT ![b] = "bump"]
          /\ seen' = [seen EXCEPT ![b] = usage[i]]
          /\ call' = call
      BY <1>4, <2>3 DEF L2Hit
    <3>2. usage[i] < UsageMax
      BY <2>3 DEF MayBump
    <3> HIDE DEF i
    <3>3. \A c \in Backends : pc'[c] = "bump" => seen'[c] < UsageMax
      BY <1>0, <3>1, <3>2 DEF Admission, TypeOK
    <3>4. ASSUME NEW j \in Slots
          PROVE  usage'[j] + Cardinality(Bumping(j)') < UsageMax + Cardinality(Backends)
      <4>1. /\ Cardinality(Bumping(j)) \in Nat /\ Cardinality(Backends) \in Nat
        BY BumpingSize
      <4>2. usage[j] \in Nat /\ usage'[j] = usage[j]
        BY <1>a, <2>1
      <4>3. CASE j = i
        <5>1. Bumping(j)' \in SUBSET Backends
          BY DEF Bumping
        <5>2. Cardinality(Bumping(j)') \in Nat
              /\ Cardinality(Bumping(j)') <= Cardinality(Backends)
          BY <5>1, BackendsAssumption, FS_Subset, FS_CardinalityType
        <5>3. usage[j] < UsageMax
          BY <3>2, <4>3
        <5>4. QED
          BY <4>1, <4>2, <5>2, <5>3, UsageMaxAssumption
      <4>4. CASE j # i
        <5>1. Bumping(j)' = Bumping(j)
          BY <1>0, <2>1, <3>1, <4>4 DEF Bumping, TypeOK, i
        <5>2. QED
          BY <4>2, <5>1 DEF Admission
      <4>5. QED
        BY <4>3, <4>4
    <3>5. QED
      BY <3>3, <3>4 DEF Admission
  <2>4. CASE ~MayBump(i)
    <3>1. Return(b) /\ UNCHANGED seen
      BY <1>4, <2>4 DEF L2Hit, CopyToL1
    <3>2. \A c \in Backends : pc'[c] = "bump" <=> pc[c] = "bump"
      BY <1>0, <2>1, <3>1 DEF TypeOK, Return
    <3>3. \A c \in Backends : pc[c] = "bump" => call'[c] = call[c]
      BY <1>0, <2>1, <3>1 DEF TypeOK, Return
    <3>4. QED
      BY <1>a, <2>1, <3>1, <3>2, <3>3, AdmissionSame
  <2>5. QED
    BY <2>3, <2>4
<1>5. ASSUME NEW b \in Backends, Bump(b) PROVE Admission'
  <2> DEFINE i == index[call[b].key]
  <2>1. /\ UNCHANGED index /\ pc[b] = "bump" /\ Return(b)
        /\ seen' = [seen EXCEPT ![b] = 0]
    BY <1>5 DEF Bump, CopyToL1
  <2>2. i \in Slots
    BY <1>0, <1>5, CallType DEF Bump, TypeOK, Locked
  <2>3. PICK u \in {seen[b], usage[i]} : usage' = [usage EXCEPT ![i] = (u + 1) % UsageModulus]
    BY <1>5 DEF Bump
  <2>4. seen[b] \in Nat /\ seen[b] < UsageMax
    BY <1>0, <2>1, UsageType DEF Admission, TypeOK
  <2>5. u \in Nat /\ (u = usage[i] \/ u < UsageMax)
    BY <1>a, <2>2, <2>3, <2>4
  <2>6. (u + 1) % UsageModulus \in Nat /\ (u + 1) % UsageModulus <= u + 1
    BY <2>5, UsageAssumption, UsageMaxAssumption
  <2>a. /\ pc'[b] = "idle"
        /\ \A c \in Backends \ {b} : pc'[c] = pc[c] /\ call'[c] = call[c]
    BY <1>0, <2>1 DEF Return, TypeOK
  <2>7. ASSUME NEW j, j = i
        PROVE  Bumping(j)' = Bumping(j) \ {b} /\ b \in Bumping(j)
    BY <2>1, <2>7, <2>a DEF Bumping
  <2>8. ASSUME NEW j, j # i PROVE Bumping(j)' = Bumping(j)
    BY <2>1, <2>8, <2>a DEF Bumping
  <2>9. \A c \in Backends : pc'[c] = "bump" => seen'[c] < UsageMax
    BY <1>0, <2>1 DEF Admission, Return, TypeOK
  <2> HIDE DEF i
  <2>10. ASSUME NEW j \in Slots
         PROVE  usage'[j] + Cardinality(Bumping(j)') < UsageMax + Cardinality(Backends)
    <3>1. /\ IsFiniteSet(Bumping(j))
          /\ Cardinality(Bumping(j)) \in Nat /\ Cardinality(Backends) \in Nat
          /\ Cardinality(Bumping(j)) <= Cardinality(Backends)
      BY BumpingSize
    <3>2. /\ usage[j] \in Nat
          /\ usage[j] + Cardinality(Bumping(j)) < UsageMax + Cardinality(Backends)
      BY <1>a DEF Admission
    <3>3. CASE j = i
      <4>1. Cardinality(Bumping(j)') = Cardinality(Bumping(j)) - 1
        BY <2>7, <3>1, <3>3, FS_RemoveElement
      <4>2. usage'[j] = (u + 1) % UsageModulus
        BY <1>0, <2>3, <3>3 DEF TypeOK
      <4>3. QED
        BY <2>5, <2>6, <3>1, <3>2, <3>3, <4>1, <4>2, UsageMaxAssumption
    <3>4. CASE j # i
      <4>1. usage'[j] = usage[j] /\ Bumping(j)' = Bumping(j)
        BY <1>0, <2>3, <2>8, <3>4 DEF TypeOK
      <4>2. QED
        BY <3>2, <4>1
    <3>5. QED
      BY <3>3, <3>4
  <2>11. QED
    BY <2>9, <2>10 DEF Admission
<1>6. ASSUME NEW b \in Backends, NEW k \in Keys, NEW allowed \in Verdicts,
             NEW ttl \in TTLs, Store(b, k, allowed, ttl)
      PROVE  Admission'
  <2>1. UNCHANGED <<index, seen, usage>> /\ pc[b] = "idle"
        /\ pc' = [pc EXCEPT ![b] = "store"]
        /\ \A c \in Backends \ {b} : call'[c] = call[c]
    BY <1>0, <1>6 DEF Store, TypeOK
  <2>2. \A c \in Backends : pc'[c] = "bump" <=> pc[c] = "bump"
    BY <1>0, <2>1 DEF TypeOK
  <2>3. \A c \in Backends : pc[c] = "bump" => call'[c] = call[c]
    BY <2>1
  <2>4. QED
    BY <1>a, <2>1, <2>2, <2>3, AdmissionSame
<1>7. ASSUME NEW b \in Backends, L2Update(b) PROVE Admission'
  <2>1. index[call[b].key] \in Slots
    BY <1>0, <1>7, CallType DEF L2Update, TypeOK
  <2>2. \A c \in Backends : pc'[c] # "bump"
    BY <1>0, <1>7 DEF L2Update, ExclusiveFree, Return, TypeOK
  <2>3. QED
    BY <1>7, <2>1, <2>2, AdmissionAlone DEF L2Update, l2_update_entry
<1>8. ASSUME NEW b \in Backends, L2BeginSweep(b) PROVE Admission'
  <2>1. UNCHANGED <<index, seen, usage, call>> /\ pc[b] = "store"
        /\ pc' = [pc EXCEPT ![b] = "sweep"]
    BY <1>8 DEF L2BeginSweep
  <2>2. \A c \in Backends : pc'[c] = "bump" <=> pc[c] = "bump"
    BY <1>0, <2>1 DEF TypeOK
  <2>3. QED
    BY <1>a, <2>1, <2>2, AdmissionSame
<1>9. ASSUME NEW b \in Backends, SweepPast(b) PROVE Admission'
  <2>1. UNCHANGED <<index, seen, call, pc>> /\ pc[b] = "sweep"
    BY <1>9 DEF SweepPast
  <2>2. \A i \in Slots : usage'[i] <= usage[i]
    BY <2>1, SweepStep
  <2>3. QED
    BY <2>1, <2>2, AdmissionSame
<1>10. ASSUME NEW b \in Backends, SweepStop(b) PROVE Admission'
  <2>1. l2_clock_sweep \in Slots
    BY <1>0, CapacityAssumption DEF TypeOK, l2_clock_sweep, Slots
  <2>2. \A c \in Backends : pc'[c] # "bump"
    BY <1>0, <1>10 DEF SweepStop, Locked, Return, TypeOK
  <2>3. QED
    BY <1>10, <2>1, <2>2, AdmissionAlone DEF SweepStop, Install, l2_update_entry
<1>11. ASSUME NEW b \in Backends, l1_startup(b) PROVE Admission'
  BY <1>11, <1>a, AdmissionSame DEF l1_startup
<1>12. CASE Clock \/ UNCHANGED vars
  BY <1>12, <1>a, AdmissionSame DEF Clock, vars
<1>13. QED
  BY <1>1, <1>2, <1>3, <1>4, <1>5, <1>6, <1>7, <1>8, <1>9, <1>10, <1>11, <1>12 DEF Next

\* No usage count reaches the maximum plus the number of backends, in however
\* unlucky an order the look-ups test and bump, and whichever increments of the
\* shared byte are lost.
THEOREM UsageStaysBounded == Spec => []UsageBounded
<1>1. Init => Admission
  <2> SUFFICES ASSUME Init PROVE Admission
    OBVIOUS
  <2>1. ASSUME NEW i \in Slots
        PROVE  usage[i] + Cardinality(Bumping(i)) < UsageMax + Cardinality(Backends)
    <3>1. Bumping(i) = {}
      BY DEF Init, Bumping
    <3>2. QED
      <4>1. Cardinality(Bumping(i)) = 0
        BY <3>1, FS_EmptySet
      <4>2. Cardinality(Backends) \in Nat
        BY BumpingSize
      <4>3. usage[i] = 0
        BY DEF Init
      <4>4. QED
        BY <4>1, <4>2, <4>3, UsageMaxAssumption
  <2>2. QED
    BY <2>1 DEF Init, Admission
<1>2. L2Inv /\ Admission => UsageBounded
  <2> SUFFICES ASSUME L2Inv, Admission, NEW i \in Slots
               PROVE  usage[i] < UsageMax + Cardinality(Backends)
    BY DEF UsageBounded
  <2>1. usage[i] \in Nat /\ usage[i] + Cardinality(Bumping(i)) < UsageMax + Cardinality(Backends)
    BY UsageType DEF L2Inv, TypeOK, Admission
  <2>2. QED
    BY <2>1, BumpingSize, UsageMaxAssumption
<1>3. QED
  BY L2Always, AdmissionStep, <1>1, <1>2, PTL DEF Spec

----------------------------------------------------------------------------
(***************************************************************************)
(* The sweep                                                               *)
(***************************************************************************)

\* There are no more turns than there are units in all usage counts.
LEMMA TurnsSize ==
  ASSUME NEW T \in SUBSET (Slots \X (1 .. Most))
  PROVE  /\ Most \in Nat
         /\ IsFiniteSet(T)
         /\ Cardinality(T) \in Nat
         /\ Cardinality(T) <= Capacity * Most
         /\ Capacity * Most \in Nat
<1>1. Most \in Nat /\ Capacity \in Nat
  BY BackendsAssumption, FS_CardinalityType, UsageMaxAssumption, CapacityAssumption DEF Most
<1>2. IsFiniteSet(Slots) /\ Cardinality(Slots) = Capacity
  BY FS_Interval, CapacityAssumption DEF Slots
<1>3. IsFiniteSet(1 .. Most) /\ Cardinality(1 .. Most) = Most
  BY <1>1, FS_Interval
<1>4. /\ IsFiniteSet(Slots \X (1 .. Most))
      /\ Cardinality(Slots \X (1 .. Most)) = Capacity * Most
  BY <1>2, <1>3, FS_Product
<1>5. IsFiniteSet(T) /\ Cardinality(T) <= Capacity * Most
  BY <1>4, FS_Subset
<1>6. Cardinality(T) \in Nat
  BY <1>5, FS_CardinalityType
<1>7. Capacity * Most \in Nat
  BY <1>1
<1>8. QED
  BY <1>1, <1>5, <1>6, <1>7

\* So a sweep begins with at most so many turns to go.
LEMMA TurnsLeftSize ==
  /\ Most \in Nat
  /\ IsFiniteSet(TurnsLeft)
  /\ Cardinality(TurnsLeft) \in Nat
  /\ Cardinality(TurnsLeft) <= Capacity * Most
  /\ Capacity * Most \in Nat
<1>1. TurnsLeft \in SUBSET (Slots \X (1 .. Most))
  BY DEF TurnsLeft
<1>2. QED
  BY <1>1, TurnsSize

\* A step that raises no usage count adds no turn.
LEMMA TurnsLeftShrink ==
  ASSUME L2Inv, L2Inv', \A i \in Slots : usage'[i] <= usage[i]
  PROVE  Cardinality(TurnsLeft') <= Cardinality(TurnsLeft)
<1>1. \A i \in Slots : usage[i] \in Nat /\ usage'[i] \in Nat
  BY UsageType DEF L2Inv, TypeOK
<1>2. TurnsLeft' \in SUBSET TurnsLeft
  <2> SUFFICES ASSUME NEW t \in TurnsLeft' PROVE t \in TurnsLeft
    OBVIOUS
  <2>1. t \in Slots \X (1 .. Most) /\ t[2] <= usage'[t[1]]
    BY DEF TurnsLeft
  <2>2. t[1] \in Slots /\ t[2] \in Int
    BY <2>1
  <2>3. t[2] <= usage[t[1]]
    BY <1>1, <2>1, <2>2
  <2>4. QED
    BY <2>1, <2>3 DEF TurnsLeft
<1>3. QED
  BY <1>2, TurnsLeftSize, FS_Subset

\* A turn that passes an entry over takes one unit from its usage count.
LEMMA TurnTaken ==
  ASSUME L2Inv, UsageBounded, NEW b \in Backends, SweepPast(b)
  PROVE  Cardinality(TurnsLeft') = Cardinality(TurnsLeft) - 1
<1> DEFINE i == l2_clock_sweep
           u == usage[i]
           t == <<i, u>>
<1>0. TypeOK
  BY DEF L2Inv
<1>1. i \in Slots
  BY <1>0, CapacityAssumption DEF TypeOK, l2_clock_sweep, Slots
<1>2. u \in Nat /\ u > 0 /\ usage' = [usage EXCEPT ![i] = u - 1]
  BY <1>0, <1>1, UsageType DEF SweepPast, TypeOK
<1>3. Most \in Nat /\ Cardinality(Backends) \in Nat
  BY TurnsLeftSize, BackendsAssumption, FS_CardinalityType
<1>4. u <= Most
  <2>1. u < UsageMax + Cardinality(Backends)
    BY <1>1 DEF UsageBounded
  <2>2. QED
    BY <1>2, <1>3, <2>1, UsageMaxAssumption DEF Most
<1> HIDE DEF i
<1>5. t \in TurnsLeft
  BY <1>1, <1>2, <1>3, <1>4 DEF TurnsLeft
<1>6. \A j \in Slots : usage[j] \in Nat /\ usage'[j] = IF j = i THEN u - 1 ELSE usage[j]
  BY <1>0, <1>2, UsageType DEF TypeOK
<1> HIDE DEF u
<1>7. ASSUME NEW j \in Slots, NEW n \in 1 .. Most
      PROVE  n <= usage'[j] <=> n <= usage[j] /\ <<j, n>> # t
  <2>1. CASE j = i
    <3>1. usage'[j] = u - 1 /\ usage[j] = u
      BY <1>6, <2>1 DEF u
    <3>2. <<j, n>> = t <=> n = u
      BY <2>1
    <3>3. QED
      BY <1>2, <1>3, <3>1, <3>2
  <2>2. CASE j # i
    BY <1>6, <2>2
  <2>3. QED
    BY <2>1, <2>2
<1>8. TurnsLeft' = TurnsLeft \ {t}
  <2>1. ASSUME NEW p \in Slots \X (1 .. Most)
        PROVE  p[2] <= usage'[p[1]] <=> p[2] <= usage[p[1]] /\ p # t
    <3>1. p = <<p[1], p[2]>> /\ p[1] \in Slots /\ p[2] \in 1 .. Most
      OBVIOUS
    <3>2. QED
      BY <1>7, <3>1
  <2>2. Most' = Most
    BY DEF Most
  <2> HIDE DEF t
  <2>3. QED
    BY <2>1 DEF TurnsLeft
<1>9. QED
  BY <1>5, <1>8, TurnsLeftSize, FS_RemoveElement

\* A sweep under way is the only thing that counts turns, and only its own
\* turns and its end change the usage counts.
LEMMA ProgressStep ==
  L2Inv /\ L2Inv' /\ UsageBounded /\ Progress /\ [Next]_vars => Progress'
<1> SUFFICES ASSUME L2Inv, L2Inv', UsageBounded, Progress, [Next]_vars PROVE Progress'
  OBVIOUS
<1>0. TypeOK /\ Locked /\ turns \in Nat
  BY DEF L2Inv, TypeOK
<1>1. /\ Cardinality(TurnsLeft') \in Nat
      /\ Cardinality(TurnsLeft') <= Capacity * Most
      /\ Cardinality(TurnsLeft) \in Nat
      /\ Capacity * Most \in Nat
  <2>1. TurnsLeft' \in SUBSET (Slots \X (1 .. Most))
    BY DEF TurnsLeft
  <2>2. QED
    BY <2>1, TurnsSize, TurnsLeftSize
<1>2. turns + Cardinality(TurnsLeft) <= Capacity * Most
  BY DEF Progress
<1>3. ASSUME turns' = 0 PROVE Progress'
  BY <1>1, <1>3 DEF Progress
<1>4. ASSUME NEW b \in Backends, SweepStop(b) PROVE Progress'
  BY <1>3, <1>4 DEF SweepStop
<1>5. ASSUME NEW b \in Backends, SweepPast(b) PROVE Progress'
  <2>1. turns' = turns + 1 /\ pc'[b] = "sweep"
    BY <1>5 DEF SweepPast
  <2>2. Cardinality(TurnsLeft') = Cardinality(TurnsLeft) - 1
    BY <1>5, TurnTaken
  <2>3. turns' + Cardinality(TurnsLeft') <= Capacity * Most
    BY <1>0, <1>1, <1>2, <2>1, <2>2
  <2>4. QED
    BY <2>1, <2>3 DEF Progress
<1>6. ASSUME ~ \E b \in Backends : SweepStop(b) \/ SweepPast(b) PROVE Progress'
  <2>1. turns' = turns
    BY <1>6 DEF Next, vars, l1Vars, l2Vars, history, LookupDisabled, L1Hit, L1Miss, L2Miss,
       L2Hit, Bump, Store, L2Update, L2BeginSweep, l1_startup, Clock
  <2>2. CASE turns = 0
    BY <1>3, <2>1, <2>2
  <2>3. CASE turns > 0
    <3>1. PICK b \in Backends : pc[b] = "sweep"
      BY <2>3 DEF Progress
    <3>2. pc'[b] = "sweep"
      <4> USE <1>0, <3>1 DEF TypeOK
      <4>1. ASSUME NEW c \in Backends, NEW k \in Keys, L1Hit(c, k) \/ L1Miss(c, k)
            PROVE  pc'[b] = "sweep"
        BY <4>1 DEF L1Hit, L1Miss
      <4>2. ASSUME NEW c \in Backends, L2Miss(c) \/ L2Hit(c) \/ L2Update(c) \/ L2BeginSweep(c)
            PROVE  FALSE
        BY <4>2 DEF L2Miss, L2Hit, L2Update, L2BeginSweep, SharedFree, ExclusiveFree
      <4>3. ASSUME NEW c \in Backends, Bump(c) PROVE FALSE
        BY <4>3 DEF Bump, Locked
      <4>4. ASSUME NEW c \in Backends, NEW k \in Keys, NEW allowed \in Verdicts,
                   NEW ttl \in TTLs, Store(c, k, allowed, ttl)
            PROVE  pc'[b] = "sweep"
        BY <4>4 DEF Store
      <4>5. ASSUME UNCHANGED pc PROVE pc'[b] = "sweep"
        BY <4>5
      <4>6. QED
        BY <1>6, <4>1, <4>2, <4>3, <4>4, <4>5
           DEF Next, vars, LookupDisabled, l1_startup, Clock
    <3>3. \A i \in Slots : usage'[i] <= usage[i]
      BY <3>1, <3>2, SweepStep
    <3>4. Cardinality(TurnsLeft') <= Cardinality(TurnsLeft)
      BY <3>3, TurnsLeftShrink
    <3>5. turns' + Cardinality(TurnsLeft') <= Capacity * Most
      BY <1>0, <1>1, <1>2, <2>1, <3>4
    <3>6. QED
      BY <3>2, <3>5 DEF Progress
  <2>4. QED
    BY <1>0, <2>2, <2>3
<1>7. QED
  BY <1>4, <1>5, <1>6

\* A store that looks for a victim finds one: it holds the exclusive lock for
\* no more turns of its loop than the usage counts can add up to, although the
\* loop's own limit, trycounter, never stops it.
THEOREM SweepStaysBounded == Spec => []SweepBounded
<1>1. Init => Progress
  <2> SUFFICES ASSUME Init PROVE Progress
    OBVIOUS
  <2>1. turns = 0
    BY DEF Init
  <2>2. QED
    BY <2>1, TurnsLeftSize DEF Progress
<1>2. L2Inv /\ Progress => SweepBounded
  <2> SUFFICES ASSUME L2Inv, Progress PROVE SweepBounded
    OBVIOUS
  <2>1. turns \in Nat /\ turns + Cardinality(TurnsLeft) <= Capacity * Most
    BY DEF L2Inv, TypeOK, Progress
  <2>2. turns <= Capacity * Most
    BY <2>1, TurnsLeftSize
  <2>3. QED
    BY <2>2 DEF SweepBounded, Most
<1>3. QED
  BY L2Always, UsageStaysBounded, ProgressStep, <1>1, <1>2, PTL DEF Spec
=============================================================================
