--------------------------- MODULE AclCacheProofs ---------------------------
(***************************************************************************)
(* Machine-checked proofs about the ACL cache, for any number of backends, *)
(* tuples, L1 sets and L2 entries, any garbage in the keys, any TTLs.      *)
(***************************************************************************)
EXTENDS AclCache, TLAPS

\* The lock and what it protects: the entry a look-up is about to bump stays
\* where it found it, a store that sweeps is alone and its key is not indexed.
Locked ==
  /\ \A b \in Backends : pc[b] = "bump" => index[call[b].key] # NULL
  /\ \A b \in Backends : pc[b] = "sweep" =>
       /\ index[call[b].key] = NULL
       /\ \A c \in Backends \ {b} : pc[c] \notin {"bump", "sweep"}

\* TypeOK is not inductive alone: a look-up that was sent to an invalid entry
\* would copy what is no verdict.
L2Inv == TypeOK /\ IndexExact /\ Locked

\* A valid entry, of either level, is a verdict that was stored.
L2Fact(i) == [hash |-> entries[i].key.hash, allowed |-> entries[i].allowed,
              expires |-> entries[i].expires]
CallFact(b) == [hash |-> call[b].key.hash, allowed |-> call[b].allowed,
                expires |-> call[b].expires]

Facts ==
  /\ \A b \in Backends, s \in L1Sets, i \in Ways :
       ways[b][s][i] # Invalid => ways[b][s][i] \in stored
  /\ \A i \in Slots : entries[i] # Invalid => L2Fact(i) \in stored
  /\ \A b \in Backends : pc[b] \in {"store", "sweep"} => CallFact(b) \in stored

\* The entry a look-up is about to bump had not expired when the look-up began,
\* and cannot be overwritten before it is read.
Fresh ==
  \A b \in Backends :
    pc[b] = "bump" => entries[index[call[b].key]].expires > call[b].now

----------------------------------------------------------------------------
(***************************************************************************)
(* Types                                                                   *)
(***************************************************************************)

\* Where a tuple is looked for in L1.
LEMMA SetType == \A h \in Hashes : l1_hash_to_set(h) \in L1Sets
BY LowAssumption, L1NumSetsAssumption DEF l1_hash_to_set, L1Sets

\* A way of a set: an invalid one is no entry.
LEMMA InvalidIsNoEntry == Invalid \notin L1Entry /\ Invalid \notin L2Entry
BY DEF Invalid, L1Entry, L2Entry

\* A usage count stays within its byte.
LEMMA UsageType ==
  /\ Usage \subseteq Nat
  /\ 0 \in Usage
  /\ UsageMax \in Usage
  /\ \A u \in Usage : (u + 1) % UsageModulus \in Usage
  /\ \A u \in Usage : u > 0 => u - 1 \in Usage
BY UsageMaxAssumption, UsageAssumption DEF Usage

\* Storing into L1 keeps its types.
LEMMA L1StoreType ==
  ASSUME TypeOK, NEW b \in Backends, NEW h \in Hashes, NEW expires \in Nat,
         NEW allowed \in BOOLEAN, l1_store(b, h, expires, allowed)
  PROVE  /\ ways' \in [Backends -> [L1Sets -> [Ways -> L1Entry \cup {Invalid}]]]
         /\ victim' \in [Backends -> [L1Sets -> Ways]]
<1> DEFINE s == l1_hash_to_set(h)
           i == L1Target(b, h)
           e == [hash |-> h, allowed |-> allowed, expires |-> expires]
<1>1. s \in L1Sets
  BY SetType
<1>2. i \in Ways /\ 1 - i \in Ways
  BY <1>1 DEF TypeOK, L1Target, First, Ways
<1>3. e \in L1Entry
  BY DEF L1Entry
<1>4. /\ ways' = [ways EXCEPT ![b][s][i] = e]
      /\ victim' = [victim EXCEPT ![b][s] = 1 - i]
  BY DEF l1_store, l1_plru_access
<1> HIDE DEF s, i, e
<1>5. QED
  BY <1>1, <1>2, <1>3, <1>4 DEF TypeOK

\* A call that returns leaves its backend idle.
LEMMA ReturnType ==
  ASSUME TypeOK, NEW b \in Backends, Return(b)
  PROVE  /\ pc' \in [Backends -> {"idle", "lookup", "bump", "store", "sweep"}]
         /\ call' \in [Backends -> Call \cup {NULL}]
         /\ \A c \in Backends : pc'[c] = "idle" <=> call'[c] = NULL
BY DEF TypeOK, Return

\* The key of a call under way.
LEMMA CallType ==
  ASSUME TypeOK, NEW b \in Backends, pc[b] # "idle"
  PROVE  call[b] \in Call /\ call[b].key \in Keys /\ call[b].key.hash \in Hashes
         /\ call[b].now \in Nat /\ call[b].allowed \in BOOLEAN /\ call[b].expires \in Nat
<1>1. call[b] \in Call
  BY DEF TypeOK
<1>2. QED
  BY <1>1 DEF Call, Keys

\* Copying an entry into L1 and returning its verdict.
LEMMA CopyType ==
  ASSUME TypeOK, NEW b \in Backends, pc[b] # "idle", NEW i \in Slots,
         entries[i] # Invalid, CopyToL1(b, i)
  PROVE  /\ ways' \in [Backends -> [L1Sets -> [Ways -> L1Entry \cup {Invalid}]]]
         /\ victim' \in [Backends -> [L1Sets -> Ways]]
         /\ pc' \in [Backends -> {"idle", "lookup", "bump", "store", "sweep"}]
         /\ call' \in [Backends -> Call \cup {NULL}]
         /\ \A c \in Backends : pc'[c] = "idle" <=> call'[c] = NULL
         /\ answer' \in Promise!Answer \cup {NULL}
<1>1. entries[i].allowed \in BOOLEAN /\ entries[i].expires \in Nat
  BY DEF TypeOK, L2Entry
<1>2. call[b].key.hash \in Hashes
  BY CallType
<1>3. answer' \in Promise!Answer \cup {NULL}
  BY <1>2 DEF CopyToL1, Answer, Promise!Answer, Promise!Outcomes, Promise!Verdict
<1>4. QED
  BY <1>1, <1>2, <1>3, L1StoreType, ReturnType DEF CopyToL1

\* Every step keeps the types, one action at a time.
LEMMA TypeStep == L2Inv /\ [Next]_vars => TypeOK'
<1> SUFFICES ASSUME L2Inv, [Next]_vars PROVE TypeOK'
  OBVIOUS
<1> USE DEF l1Vars, l2Vars, history, Silent
<1>0. TypeOK
  BY DEF L2Inv
<1>1. ASSUME NEW b \in Backends, NEW h \in Hashes, LookupDisabled(b, h) PROVE TypeOK'
  BY <1>0, <1>1 DEF TypeOK, LookupDisabled, Answer, Promise!Answer, Promise!Outcomes
<1>2. ASSUME NEW b \in Backends, NEW k \in Keys, L1Hit(b, k) PROVE TypeOK'
  <2> DEFINE s == l1_hash_to_set(k.hash)
             i == First(L1Match(b, k.hash))
             e == ways[b][s][i]
  <2>1. k.hash \in Hashes /\ s \in L1Sets /\ i \in Ways
    BY SetType DEF Keys, First, Ways
  <2>2. e \in L1Entry
    <3>1. L1Match(b, k.hash) # {}
      BY <1>2 DEF L1Hit
    <3>2. i \in L1Match(b, k.hash)
      <4>1. \A j \in L1Match(b, k.hash) : j = 0 \/ j = 1
        BY DEF L1Match, Ways
      <4>2. QED
        BY <3>1, <4>1 DEF First
    <3>3. e # Invalid
      BY <3>2 DEF L1Match
    <3>4. ways[b][s][i] \in L1Entry \cup {Invalid}
      BY <1>0, <2>1 DEF TypeOK
    <3>5. QED
      BY <3>3, <3>4
  <2>3. victim' \in [Backends -> [L1Sets -> Ways]]
    BY <1>0, <1>2, <2>1 DEF L1Hit, l1_plru_access, TypeOK, Ways
  <2>4. answer' \in Promise!Answer
    BY <1>2, <2>1, <2>2 DEF L1Hit, Answer, Promise!Answer, Promise!Outcomes, Promise!Verdict
  <2>5. QED
    BY <1>0, <1>2, <2>3, <2>4 DEF TypeOK, L1Hit
<1>3. ASSUME NEW b \in Backends, NEW k \in Keys, L1Miss(b, k) PROVE TypeOK'
  <2> DEFINE s == l1_hash_to_set(k.hash)
             i == First(L1Match(b, k.hash))
             c == [key |-> k, now |-> now, allowed |-> FALSE, expires |-> 0]
  <2>1. k.hash \in Hashes /\ s \in L1Sets /\ i \in Ways
    BY SetType DEF Keys, First, Ways
  <2>2. ways' \in [Backends -> [L1Sets -> [Ways -> L1Entry \cup {Invalid}]]]
    <3>1. ways' = ways \/ ways' = [ways EXCEPT ![b][s][i] = Invalid]
      BY <1>3 DEF L1Miss
    <3>2. ways \in [Backends -> [L1Sets -> [Ways -> L1Entry \cup {Invalid}]]]
      BY <1>0 DEF TypeOK
    <3> HIDE DEF s, i
    <3>3. CASE ways' = ways
      BY <3>2, <3>3
    <3>4. CASE ways' = [ways EXCEPT ![b][s][i] = Invalid]
      BY <2>1, <3>2, <3>4
    <3>5. QED
      BY <3>1, <3>3, <3>4
  <2>3. c \in Call /\ c # NULL
    <3>1. now \in Nat
      BY <1>0, TimeAssumption DEF TypeOK
    <3>2. c \in Call
      BY <3>1 DEF Call
    <3>3. QED
      BY <3>2, NullAssumption
  <2>4. /\ pc' = [pc EXCEPT ![b] = "lookup"]
        /\ call' = [call EXCEPT ![b] = c]
        /\ UNCHANGED <<now, victim, index, entries, usage, nextVictim, seen, stored,
                       stores, turns>>
        /\ answer' = NULL
    BY <1>3 DEF L1Miss
  <2> HIDE DEF c
  <2>5. QED
    BY <1>0, <2>2, <2>3, <2>4 DEF TypeOK
<1>4. ASSUME NEW b \in Backends, L2Miss(b) PROVE TypeOK'
  <2>1. call[b].key \in Keys /\ call[b].key.hash \in Hashes
    BY <1>0, <1>4, CallType DEF L2Miss
  <2>2. index[call[b].key] \in Slots \cup {NULL}
    BY <1>0, <2>1 DEF TypeOK
  <2>3. usage' \in [Slots -> Usage]
    BY <1>0, <1>4, <2>2, UsageType DEF L2Miss, TypeOK
  <2>4. answer' \in Promise!Answer
    BY <1>4, <2>1 DEF L2Miss, Answer, Promise!Answer, Promise!Outcomes
  <2>5. QED
    BY <1>0, <1>4, <2>3, <2>4, ReturnType DEF L2Miss, TypeOK
<1>5. ASSUME NEW b \in Backends, L2Hit(b) PROVE TypeOK'
  <2> DEFINE i == index[call[b].key]
  <2>1. call[b].key \in Keys
    BY <1>0, <1>5, CallType DEF L2Hit
  <2>2. i \in Slots /\ entries[i] # Invalid
    BY <1>0, <1>5, <2>1 DEF L2Hit, TypeOK, l2_entry_expired
  <2>3. CASE MayBump(i)
    <3>1. /\ pc' = [pc EXCEPT ![b] = "bump"] /\ pc[b] = "lookup"
          /\ seen' = [seen EXCEPT ![b] = usage[i]]
          /\ answer' = NULL
          /\ UNCHANGED <<now, ways, victim, index, entries, usage, nextVictim, call,
                         stored, stores, turns>>
      BY <1>5, <2>3 DEF L2Hit
    <3> HIDE DEF i
    <3>2. QED
      BY <1>0, <2>2, <3>1 DEF TypeOK
  <2>4. CASE ~MayBump(i)
    <3>1. CopyToL1(b, i) /\ UNCHANGED <<now, index, entries, usage, nextVictim, stored,
                                       stores, turns, seen>>
      BY <1>5, <2>4 DEF L2Hit
    <3>2. QED
      BY <1>0, <1>5, <2>2, <3>1, CopyType DEF TypeOK, L2Hit
  <2>5. QED
    BY <2>3, <2>4
<1>6. ASSUME NEW b \in Backends, Bump(b) PROVE TypeOK'
  <2> DEFINE i == index[call[b].key]
  <2>1. call[b].key \in Keys
    BY <1>0, <1>6, CallType DEF Bump
  <2>2. i \in Slots /\ entries[i] # Invalid
    BY <1>0, <1>6, <2>1 DEF Bump, TypeOK, L2Inv, Locked, IndexExact
  <2>3. usage' \in [Slots -> Usage] /\ seen' \in [Backends -> Usage]
    BY <1>0, <1>6, <2>2, UsageType DEF Bump, TypeOK
  <2>4. QED
    BY <1>0, <1>6, <2>2, <2>3, CopyType DEF Bump, TypeOK
<1>7. ASSUME NEW b \in Backends, NEW k \in Keys, NEW allowed \in Verdicts,
             NEW ttl \in TTLs, Store(b, k, allowed, ttl)
      PROVE  TypeOK'
  <2> DEFINE c == [key |-> k, now |-> now, allowed |-> allowed, expires |-> now + ttl]
             f == [hash |-> k.hash, allowed |-> allowed, expires |-> now + ttl]
  <2>1. k.hash \in Hashes /\ now \in Nat /\ now + ttl \in Nat /\ allowed \in BOOLEAN
    BY <1>0, TimeAssumption, VerdictsAssumption DEF Keys, TypeOK
  <2>2. c \in Call /\ c # NULL /\ f \in Promise!Fact
    BY <2>1, NullAssumption DEF Call, Promise!Fact
  <2>3. /\ ways' \in [Backends -> [L1Sets -> [Ways -> L1Entry \cup {Invalid}]]]
        /\ victim' \in [Backends -> [L1Sets -> Ways]]
    BY <1>0, <1>7, <2>1, L1StoreType DEF Store
  <2>4. /\ pc' = [pc EXCEPT ![b] = "store"]
        /\ call' = [call EXCEPT ![b] = c]
        /\ stored' = stored \cup {f}
        /\ stores' = stores + 1 /\ stores < MaxStores
        /\ UNCHANGED <<now, index, entries, usage, nextVictim, seen, turns>>
        /\ answer' = NULL
    BY <1>7 DEF Store
  <2> HIDE DEF c, f
  <2>5. QED
    BY <1>0, <2>2, <2>3, <2>4, TimeAssumption DEF TypeOK
<1>8. ASSUME NEW b \in Backends, NEW i \in Slots, TypeOK, pc[b] # "idle",
             l2_update_entry(b, i)
      PROVE  /\ entries' \in [Slots -> L2Entry \cup {Invalid}]
             /\ usage' \in [Slots -> Usage]
  <2>1. [key |-> call[b].key, allowed |-> call[b].allowed, expires |-> call[b].expires]
          \in L2Entry
    BY <1>8, CallType DEF L2Entry
  <2>2. QED
    BY <1>8, <2>1, UsageType DEF l2_update_entry, TypeOK
<1>9. ASSUME NEW b \in Backends, L2Update(b) PROVE TypeOK'
  <2>1. index[call[b].key] \in Slots
    BY <1>0, <1>9, CallType DEF L2Update, TypeOK
  <2>2. QED
    BY <1>0, <1>8, <1>9, <2>1, ReturnType DEF L2Update, TypeOK
<1>10. ASSUME NEW b \in Backends, L2BeginSweep(b) PROVE TypeOK'
  BY <1>0, <1>10 DEF L2BeginSweep, TypeOK
<1>11. l2_clock_sweep \in Slots /\ (nextVictim + 1) % HandModulus \in 0 .. (HandModulus - 1)
  BY <1>0, CapacityAssumption, HandAssumption DEF TypeOK, l2_clock_sweep, Slots
<1>12. ASSUME NEW b \in Backends, SweepPast(b) PROVE TypeOK'
  <2>1. usage[l2_clock_sweep] \in Usage /\ usage[l2_clock_sweep] > 0
    BY <1>0, <1>11, <1>12 DEF SweepPast, TypeOK
  <2>2. usage[l2_clock_sweep] - 1 \in Usage
    BY <2>1, UsageType
  <2>3. usage' \in [Slots -> Usage]
    BY <1>0, <1>12, <2>2 DEF SweepPast, TypeOK
  <2>4. QED
    BY <1>0, <1>11, <1>12, <2>3 DEF SweepPast, TypeOK
<1>13. ASSUME NEW b \in Backends, SweepStop(b) PROVE TypeOK'
  <2> DEFINE i == l2_clock_sweep
  <2>1. call[b].key \in Keys
    BY <1>0, <1>13, CallType DEF SweepStop
  <2>2. entries[i] # Invalid => entries[i].key \in Keys
    BY <1>0, <1>11 DEF TypeOK, L2Entry
  <2>3. index' \in [Keys -> Slots \cup {NULL}]
    BY <1>0, <1>11, <1>13, <2>1, <2>2 DEF SweepStop, Install, TypeOK
  <2>4. entries' \in [Slots -> L2Entry \cup {Invalid}] /\ usage' \in [Slots -> Usage]
    BY <1>0, <1>8, <1>11, <1>13 DEF SweepStop, Install
  <2>5. QED
    BY <1>0, <1>11, <1>13, <2>3, <2>4, ReturnType DEF SweepStop, TypeOK
<1>14. ASSUME NEW b \in Backends, l1_startup(b) PROVE TypeOK'
  BY <1>0, <1>14 DEF l1_startup, TypeOK, Ways
<1>15. CASE Clock
  BY <1>0, <1>15, TimeAssumption DEF Clock, TypeOK
<1>16. CASE UNCHANGED vars
  BY <1>0, <1>16 DEF TypeOK, vars
<1>17. QED
  BY <1>1, <1>2, <1>3, <1>4, <1>5, <1>6, <1>7, <1>9, <1>10, <1>12, <1>13, <1>14, <1>15,
     <1>16 DEF Next

----------------------------------------------------------------------------
(***************************************************************************)
(* The L2 index                                                            *)
(***************************************************************************)

\* The steps other than those that write an entry leave index and array alone.
LEMMA L2Writers ==
  ASSUME [Next]_vars,
         ~ \E b \in Backends : L2Update(b) \/ SweepStop(b)
  PROVE  UNCHANGED <<index, entries>>
BY DEF Next, vars, l1Vars, l2Vars, history, LookupDisabled, L1Hit, L1Miss, L2Miss, L2Hit,
       Bump, Store, L2BeginSweep, SweepPast, l1_startup, Clock

\* Overwriting, eviction and installation keep index and array one-to-one.
LEMMA IndexStep == L2Inv /\ [Next]_vars => IndexExact'
<1> SUFFICES ASSUME L2Inv, [Next]_vars PROVE IndexExact'
  OBVIOUS
<1>0. TypeOK /\ IndexExact /\ Locked
  BY DEF L2Inv
<1>1. ASSUME NEW b \in Backends, L2Update(b) PROVE IndexExact'
  <2> DEFINE k == call[b].key
             i == index[k]
             e == [key |-> k, allowed |-> call[b].allowed, expires |-> call[b].expires]
  <2>1. k \in Keys /\ i \in Slots /\ e \in L2Entry
    BY <1>0, <1>1, CallType DEF L2Update, TypeOK, L2Entry
  <2>2. e.key = k /\ e # Invalid
    BY <2>1, InvalidIsNoEntry
  <2>3. index' = index /\ entries' = [entries EXCEPT ![i] = e]
    BY <1>1 DEF L2Update, l2_update_entry
  <2> HIDE DEF e
  <2>4. QED
    BY <1>0, <2>1, <2>2, <2>3 DEF IndexExact, TypeOK
<1>2. ASSUME NEW b \in Backends, SweepStop(b) PROVE IndexExact'
  <2> DEFINE k == call[b].key
             i == l2_clock_sweep
             e == [key |-> k, allowed |-> call[b].allowed, expires |-> call[b].expires]
  <2>1. k \in Keys /\ e \in L2Entry
    BY <1>0, <1>2, CallType DEF SweepStop, L2Entry
  <2>2. i \in Slots
    BY <1>0, CapacityAssumption DEF TypeOK, l2_clock_sweep, Slots
  <2>3. e.key = k /\ e # Invalid
    BY <2>1, InvalidIsNoEntry
  <2>4. index[k] = NULL
    BY <1>0, <1>2 DEF SweepStop, Locked
  <2>5. entries' = [entries EXCEPT ![i] = e]
    BY <1>2 DEF SweepStop, Install, l2_update_entry
  <2>6. NULL \notin Slots
    BY NullAssumption
  <2>7. CASE entries[i] = Invalid
    <3>1. index' = [index EXCEPT ![k] = i]
      BY <1>2, <2>7 DEF SweepStop, Install
    <3> HIDE DEF e, k, i
    <3>2. QED
      BY <1>0, <2>1, <2>2, <2>3, <2>4, <2>5, <2>6, <2>7, <3>1 DEF IndexExact, TypeOK
  <2>8. CASE entries[i] # Invalid
    <3> DEFINE old == entries[i].key
    <3>1. index' = [index EXCEPT ![old] = NULL, ![k] = i]
      BY <1>2, <2>8 DEF SweepStop, Install
    <3>2. old \in Keys /\ index[old] = i
      BY <1>0, <2>2, <2>8 DEF IndexExact, TypeOK, L2Entry
    <3> HIDE DEF e, k, i
    <3>3. \A q \in Keys : index'[q] # NULL => entries'[index'[q]] # Invalid
                                          /\ entries'[index'[q]].key = q
      <4>1. TAKE q \in Keys
      <4>2. CASE q = k
        BY <1>0, <2>1, <2>2, <2>3, <2>5, <3>1, <4>2 DEF TypeOK
      <4>3. CASE q = old /\ q # k
        BY <1>0, <3>1, <3>2, <4>3 DEF TypeOK
      <4>4. CASE q # old /\ q # k
        <5>1. index'[q] = index[q]
          BY <1>0, <3>1, <4>4 DEF TypeOK
        <5>2. index[q] # NULL => index[q] \in Slots \ {i}
          BY <1>0, <3>2, <4>4 DEF IndexExact, TypeOK
        <5>3. QED
          BY <1>0, <2>2, <2>5, <5>1, <5>2 DEF IndexExact, TypeOK
      <4>5. QED
        BY <4>2, <4>3, <4>4
    <3>4. ASSUME NEW j \in Slots, entries'[j] # Invalid PROVE index'[entries'[j].key] = j
      <4>1. CASE j = i
        BY <1>0, <2>1, <2>2, <2>3, <2>5, <3>1, <4>1 DEF TypeOK
      <4>2. CASE j # i
        <5>1. entries'[j] = entries[j]
          BY <1>0, <2>2, <2>5, <4>2 DEF TypeOK
        <5>2. entries[j].key \in Keys /\ index[entries[j].key] = j
          BY <1>0, <3>4, <5>1 DEF IndexExact, TypeOK, L2Entry
        <5>3. entries[j].key # old /\ entries[j].key # k
          BY <2>4, <2>6, <3>2, <4>2, <5>2
        <5>4. QED
          BY <1>0, <3>1, <5>1, <5>2, <5>3 DEF TypeOK
      <4>3. QED
        BY <4>1, <4>2
    <3>5. QED
      BY <3>3, <3>4 DEF IndexExact
  <2>9. QED
    BY <2>7, <2>8
<1>3. QED
  BY <1>0, <1>1, <1>2, L2Writers DEF IndexExact

\* The lock does what Locked says.
LEMMA LockedStep == L2Inv /\ [Next]_vars => Locked'
<1> SUFFICES ASSUME L2Inv, [Next]_vars PROVE Locked'
  OBVIOUS
<1> USE DEF l1Vars, l2Vars, history
<1>0. TypeOK /\ IndexExact /\ Locked
  BY DEF L2Inv
<1>1. ASSUME NEW b \in Backends, NEW h \in Hashes, LookupDisabled(b, h) PROVE Locked'
  BY <1>0, <1>1 DEF Locked, LookupDisabled
<1>2. ASSUME NEW b \in Backends, NEW k \in Keys, L1Hit(b, k) \/ L1Miss(b, k) PROVE Locked'
  <2>1. /\ UNCHANGED index
        /\ pc' = pc \/ pc' = [pc EXCEPT ![b] = "lookup"]
        /\ \A c \in Backends \ {b} : call'[c] = call[c]
        /\ pc[b] = "idle"
    BY <1>0, <1>2 DEF L1Hit, L1Miss, TypeOK
  <2>2. QED
    BY <1>0, <2>1 DEF Locked, TypeOK
<1>3. ASSUME NEW b \in Backends, L2Miss(b) PROVE Locked'
  BY <1>0, <1>3 DEF Locked, L2Miss, Return, TypeOK
<1>4. ASSUME NEW b \in Backends, L2Hit(b) PROVE Locked'
  <2>1. /\ UNCHANGED index
        /\ \A c \in Backends : pc[c] # "sweep"
        /\ index[call[b].key] # NULL
        /\ \A c \in Backends \ {b} : pc'[c] = pc[c] /\ call'[c] = call[c]
        /\ pc'[b] = "idle" \/ (pc'[b] = "bump" /\ call'[b] = call[b])
    BY <1>0, <1>4 DEF L2Hit, SharedFree, CopyToL1, Return, TypeOK
  <2>2. QED
    BY <1>0, <2>1 DEF Locked
<1>5. ASSUME NEW b \in Backends, Bump(b) PROVE Locked'
  BY <1>0, <1>5 DEF Locked, Bump, CopyToL1, Return, TypeOK
<1>6. ASSUME NEW b \in Backends, NEW k \in Keys, NEW allowed \in Verdicts,
             NEW ttl \in TTLs, Store(b, k, allowed, ttl)
      PROVE  Locked'
  BY <1>0, <1>6 DEF Locked, Store, TypeOK
<1>7. ASSUME NEW b \in Backends, L2Update(b) PROVE Locked'
  BY <1>0, <1>7 DEF Locked, L2Update, ExclusiveFree, Return, TypeOK
<1>8. ASSUME NEW b \in Backends, L2BeginSweep(b) PROVE Locked'
  BY <1>0, <1>8 DEF Locked, L2BeginSweep, ExclusiveFree, TypeOK
<1>9. ASSUME NEW b \in Backends, SweepPast(b) PROVE Locked'
  BY <1>0, <1>9 DEF Locked, SweepPast
<1>10. ASSUME NEW b \in Backends, SweepStop(b) PROVE Locked'
  <2>1. \A c \in Backends : pc'[c] \notin {"bump", "sweep"}
    BY <1>0, <1>10 DEF Locked, SweepStop, Return, TypeOK
  <2>2. QED
    BY <2>1 DEF Locked
<1>11. ASSUME NEW b \in Backends, l1_startup(b) PROVE Locked'
  BY <1>0, <1>11 DEF Locked, l1_startup
<1>12. CASE Clock \/ UNCHANGED vars
  BY <1>0, <1>12 DEF Locked, Clock, vars
<1>13. QED
  BY <1>1, <1>2, <1>3, <1>4, <1>5, <1>6, <1>7, <1>8, <1>9, <1>10, <1>11, <1>12 DEF Next

\* A fresh segment of shared memory and empty L1 caches.
LEMMA L2Init == Init => L2Inv
<1> SUFFICES ASSUME Init PROVE L2Inv
  OBVIOUS
<1> USE DEF Init
<1>1. TypeOK
  BY TimeAssumption, HandAssumption, UsageType DEF TypeOK, Ways, Promise!Fact
<1>2. IndexExact
  BY DEF IndexExact, Keys
<1>3. Locked
  BY DEF Locked
<1>4. QED
  BY <1>1, <1>2, <1>3 DEF L2Inv

\* The three parts hold together.
LEMMA L2Always == Spec => []L2Inv
<1>1. L2Inv /\ [Next]_vars => L2Inv'
  BY TypeStep, IndexStep, LockedStep DEF L2Inv
<1>2. QED
  BY L2Init, <1>1, PTL DEF Spec

\* Every variable of the cache keeps its type; in particular no verdict is ever
\* copied out of an entry that holds none.
THEOREM CacheTypes == Spec => []TypeOK
<1>1. L2Inv => TypeOK
  BY DEF L2Inv
<1>2. QED
  BY L2Always, <1>1, PTL

\* The hash index and the entry array of L2 stay one-to-one, whatever garbage
\* the keys carry.
THEOREM IndexStaysExact == Spec => []IndexExact
<1>1. L2Inv => IndexExact
  BY DEF L2Inv
<1>2. QED
  BY L2Always, <1>1, PTL

\* While a store sweeps it has L2 for itself.
LEMMA SweepStep ==
  ASSUME L2Inv, [Next]_vars, NEW b \in Backends, pc[b] = "sweep", pc'[b] = "sweep"
  PROVE  UNCHANGED <<index, entries>> /\ \A i \in Slots : usage'[i] <= usage[i]
<1>0. TypeOK /\ Locked
  BY DEF L2Inv
<1>1. \A c \in Backends : ~L2Miss(c) /\ ~L2Hit(c) /\ ~L2Update(c)
  BY DEF L2Miss, L2Hit, L2Update, SharedFree, ExclusiveFree
<1>2. \A c \in Backends : ~Bump(c) /\ ~SweepStop(c)
  BY <1>0 DEF Locked, Bump, SweepStop, Return, TypeOK
<1>3. UNCHANGED <<index, entries>>
  BY <1>1, <1>2, L2Writers
<1>4. \A i \in Slots : usage[i] \in Nat
  BY <1>0, UsageType DEF TypeOK
<1>5. ASSUME NEW c \in Backends, SweepPast(c)
      PROVE  \A i \in Slots : usage'[i] <= usage[i]
  <2>1. usage' = [usage EXCEPT ![l2_clock_sweep] = @ - 1]
    BY <1>5 DEF SweepPast
  <2>2. QED
    BY <1>0, <1>4, <2>1 DEF TypeOK
<1>6. ASSUME ~ \E c \in Backends : SweepPast(c)
      PROVE  UNCHANGED usage
  BY <1>1, <1>2, <1>6
     DEF Next, vars, l1Vars, l2Vars, history, LookupDisabled, L1Hit, L1Miss, Store,
         L2BeginSweep, l1_startup, Clock
<1>7. \A i \in Slots : usage[i] <= usage[i]
  BY <1>4
<1>8. QED
  BY <1>3, <1>5, <1>6, <1>7

\* No look-up and no other store touches L2 while a store sweeps for a victim:
\* SweepUndisturbed, for every instance.
THEOREM SweepIsUndisturbed == Spec => SweepUndisturbed
<1> DEFINE A == \A b \in Backends :
                  pc[b] = "sweep" /\ pc'[b] = "sweep"
                    => /\ UNCHANGED <<index, entries>>
                       /\ \A i \in Slots : usage'[i] <= usage[i]
<1>1. L2Inv /\ [Next]_vars => A
  BY SweepStep
<1>2. QED
  BY L2Always, <1>1, PTL DEF Spec, SweepUndisturbed

----------------------------------------------------------------------------
(***************************************************************************)
(* L1                                                                      *)
(***************************************************************************)

\* Storing a tuple puts it over its old entry, if it has one.
LEMMA L1StoreUnique ==
  ASSUME TypeOK, L1Unique, NEW b \in Backends, NEW h \in Hashes, NEW expires \in Nat,
         NEW allowed \in BOOLEAN, l1_store(b, h, expires, allowed)
  PROVE  L1Unique'
<1> DEFINE s == l1_hash_to_set(h)
           i == L1Target(b, h)
           e == [hash |-> h, allowed |-> allowed, expires |-> expires]
<1>1. s \in L1Sets
  BY SetType
<1>2. i \in Ways
  BY <1>1 DEF TypeOK, L1Target, First, Ways
<1>3. e \in L1Entry /\ e # Invalid /\ e.hash = h
  BY InvalidIsNoEntry DEF L1Entry
<1>4. ways' = [ways EXCEPT ![b][s][i] = e]
  BY DEF l1_store
<1>5. \A j \in Ways \ {i} : ways[b][s][j] # Invalid => ways[b][s][j].hash # h
  BY <1>1 DEF L1Target, L1Match, First, L1Unique, Ways, l1_key_equals
<1>6. ways'[b][s][i] = e /\ \A j \in Ways \ {i} : ways'[b][s][j] = ways[b][s][j]
  BY <1>1, <1>2, <1>4 DEF TypeOK
<1>7. ASSUME NEW c \in Backends, NEW t \in L1Sets, c # b \/ t # s
      PROVE  ways'[c][t] = ways[c][t]
  BY <1>1, <1>4, <1>7 DEF TypeOK
<1>8. l1_hash_to_set(h) = s
  OBVIOUS
<1> HIDE DEF s, i, e
<1>9. SUFFICES ASSUME NEW c \in Backends, NEW t \in L1Sets, NEW j \in Ways,
                      ways'[c][t][j] # Invalid
               PROVE  /\ l1_hash_to_set(ways'[c][t][j].hash) = t
                      /\ \A m \in Ways \ {j} : ways'[c][t][m] # Invalid
                           => ways'[c][t][m].hash # ways'[c][t][j].hash
  BY DEF L1Unique, l1_hash_to_set
<1>10. CASE c # b \/ t # s
  BY <1>7, <1>9, <1>10 DEF L1Unique
<1>11. CASE c = b /\ t = s
  <2>1. CASE j = i
    BY <1>3, <1>5, <1>6, <1>8, <1>11, <2>1
  <2>2. CASE j # i
    BY <1>1, <1>2, <1>3, <1>5, <1>6, <1>9, <1>11, <2>2 DEF L1Unique
  <2>3. QED
    BY <2>1, <2>2
<1>12. QED
  BY <1>10, <1>11

\* Every step keeps a tuple in one way of its own set.
LEMMA UniqueStep == L2Inv /\ L1Unique /\ [Next]_vars => L1Unique'
<1> SUFFICES ASSUME L2Inv, L1Unique, [Next]_vars PROVE L1Unique'
  OBVIOUS
<1>0. TypeOK
  BY DEF L2Inv
<1>1. ASSUME NEW b \in Backends, NEW i \in Slots, pc[b] # "idle", entries[i] # Invalid,
             CopyToL1(b, i)
      PROVE  L1Unique'
  <2>1. entries[i].allowed \in BOOLEAN /\ entries[i].expires \in Nat
    BY <1>0, <1>1 DEF TypeOK, L2Entry
  <2>2. call[b].key.hash \in Hashes
    BY <1>0, <1>1, CallType
  <2>3. QED
    BY <1>0, <1>1, <2>1, <2>2, L1StoreUnique DEF CopyToL1
<1>2. ASSUME UNCHANGED ways PROVE L1Unique'
  BY <1>2 DEF L1Unique, l1_hash_to_set
<1>3. ASSUME NEW b \in Backends, NEW k \in Keys, L1Miss(b, k) PROVE L1Unique'
  <2> DEFINE s == l1_hash_to_set(k.hash)
             i == First(L1Match(b, k.hash))
  <2>1. s \in L1Sets /\ i \in Ways
    BY SetType DEF Keys, First, Ways
  <2>2. CASE ways' = [ways EXCEPT ![b][s][i] = Invalid]
    <3> HIDE DEF s, i
    <3>1. \A c \in Backends, t \in L1Sets, j \in Ways :
            ways'[c][t][j] = ways[c][t][j] \/ ways'[c][t][j] = Invalid
      BY <1>0, <2>1, <2>2 DEF TypeOK
    <3>2. QED
      BY <3>1 DEF L1Unique, l1_hash_to_set
  <2>3. QED
    BY <1>2, <1>3, <2>2 DEF L1Miss
<1>4. ASSUME NEW b \in Backends, L2Hit(b) PROVE L1Unique'
  <2> DEFINE i == index[call[b].key]
  <2>1. pc[b] = "lookup" /\ i \in Slots /\ entries[i] # Invalid
    BY <1>0, <1>4, CallType DEF L2Hit, TypeOK, l2_entry_expired
  <2>2. QED
    BY <1>1, <1>2, <1>4, <2>1 DEF L2Hit, l1Vars
<1>5. ASSUME NEW b \in Backends, Bump(b) PROVE L1Unique'
  <2> DEFINE i == index[call[b].key]
  <2>1. pc[b] = "bump" /\ i \in Slots /\ entries[i] # Invalid
    BY <1>0, <1>5, CallType DEF Bump, TypeOK, L2Inv, Locked, IndexExact
  <2>2. QED
    BY <1>1, <1>5, <2>1 DEF Bump
<1>6. ASSUME NEW b \in Backends, NEW k \in Keys, NEW allowed \in Verdicts,
             NEW ttl \in TTLs, Store(b, k, allowed, ttl)
      PROVE  L1Unique'
  <2>1. k.hash \in Hashes /\ now + ttl \in Nat /\ allowed \in BOOLEAN
    BY <1>0, TimeAssumption, VerdictsAssumption DEF Keys, TypeOK
  <2>2. QED
    BY <1>0, <1>6, <2>1, L1StoreUnique DEF Store
<1>7. ASSUME NEW b \in Backends, l1_startup(b) PROVE L1Unique'
  <2>1. \A c \in Backends, t \in L1Sets, j \in Ways :
          ways'[c][t][j] = ways[c][t][j] \/ ways'[c][t][j] = Invalid
    BY <1>0, <1>7 DEF TypeOK, l1_startup
  <2>2. QED
    BY <2>1 DEF L1Unique, l1_hash_to_set
<1>8. QED
  BY <1>2, <1>3, <1>4, <1>5, <1>6, <1>7
     DEF Next, vars, l1Vars, LookupDisabled, L1Hit, L2Miss, L2Update, L2BeginSweep,
         SweepPast, SweepStop, Clock

\* No tuple ever sits in both ways of its L1 set, so no older verdict is left
\* behind an updated one.
THEOREM L1StaysUnique == Spec => []L1Unique
<1>1. Init => L1Unique
  BY DEF Init, L1Unique
<1>2. QED
  BY L2Always, UniqueStep, <1>1, PTL DEF Spec

----------------------------------------------------------------------------
(***************************************************************************)
(* What the cache promises                                                 *)
(***************************************************************************)

\* A fact is put into L1.
LEMMA L1StoreFact ==
  ASSUME TypeOK, Facts, NEW b \in Backends, NEW h \in Hashes, NEW expires \in Nat,
         NEW allowed \in BOOLEAN, l1_store(b, h, expires, allowed), stored \subseteq stored',
         [hash |-> h, allowed |-> allowed, expires |-> expires] \in stored'
  PROVE  \A c \in Backends, t \in L1Sets, j \in Ways :
           ways'[c][t][j] # Invalid => ways'[c][t][j] \in stored'
<1> DEFINE s == l1_hash_to_set(h)
           i == L1Target(b, h)
           e == [hash |-> h, allowed |-> allowed, expires |-> expires]
<1>1. s \in L1Sets
  BY SetType
<1>2. i \in Ways
  BY <1>1 DEF TypeOK, L1Target, First, Ways
<1>3. ways' = [ways EXCEPT ![b][s][i] = e] /\ e \in stored'
  BY DEF l1_store
<1> HIDE DEF s, i, e
<1>4. \A c \in Backends, t \in L1Sets, j \in Ways :
        ways'[c][t][j] = ways[c][t][j] \/ ways'[c][t][j] = e
  BY <1>1, <1>2, <1>3 DEF TypeOK
<1>5. QED
  BY <1>3, <1>4 DEF Facts

\* A look-up that copies a valid entry copies a fact.
LEMMA CopyFact ==
  ASSUME TypeOK, IndexExact, Facts, NEW b \in Backends, pc[b] # "idle", NEW i \in Slots,
         index[call[b].key] = i, entries[i] # Invalid, CopyToL1(b, i), UNCHANGED stored
  PROVE  \A c \in Backends, t \in L1Sets, j \in Ways :
           ways'[c][t][j] # Invalid => ways'[c][t][j] \in stored'
<1>1. entries[i].allowed \in BOOLEAN /\ entries[i].expires \in Nat
  BY DEF TypeOK, L2Entry
<1>2. call[b].key \in Keys /\ call[b].key.hash \in Hashes
  BY CallType
<1>3. entries[i].key = call[b].key
  BY <1>2, NullAssumption DEF IndexExact
<1>4. [hash |-> call[b].key.hash, allowed |-> entries[i].allowed,
       expires |-> entries[i].expires] \in stored'
  BY <1>3 DEF Facts, L2Fact
<1>5. QED
  BY <1>1, <1>2, <1>4, L1StoreFact DEF CopyToL1

\* Every step keeps the entries of both levels backed by facts.
LEMMA FactsStep == L2Inv /\ Facts /\ [Next]_vars => Facts'
<1> SUFFICES ASSUME L2Inv, Facts, [Next]_vars PROVE Facts'
  OBVIOUS
<1> USE DEF l1Vars, l2Vars, history
<1>0. TypeOK /\ IndexExact /\ Locked
  BY DEF L2Inv
<1> DEFINE L1OK == \A c \in Backends, t \in L1Sets, j \in Ways :
                     ways'[c][t][j] # Invalid => ways'[c][t][j] \in stored'
           L2OK == \A i \in Slots : entries'[i] # Invalid => L2Fact(i)' \in stored'
           CallOK == \A c \in Backends :
                       pc'[c] \in {"store", "sweep"} => CallFact(c)' \in stored'
<1>1. ASSUME L1OK, L2OK, CallOK PROVE Facts'
  BY <1>1 DEF Facts
<1>2. ASSUME UNCHANGED <<entries, stored>> PROVE L2OK
  BY <1>2 DEF Facts, L2Fact
<1>3. ASSUME NEW b \in Backends, UNCHANGED stored,
             \A c \in Backends \ {b} : pc'[c] = pc[c] /\ call'[c] = call[c],
             pc'[b] \in {"store", "sweep"}
               => pc[b] \in {"store", "sweep"} /\ call'[b] = call[b]
      PROVE  CallOK
  <2> SUFFICES ASSUME NEW c \in Backends, pc'[c] \in {"store", "sweep"}
               PROVE  CallFact(c)' \in stored'
    OBVIOUS
  <2>1. pc[c] \in {"store", "sweep"} /\ call'[c] = call[c]
    BY <1>3
  <2>2. QED
    BY <1>3, <2>1 DEF Facts, CallFact
<1>4. ASSUME NEW b \in Backends, NEW h \in Hashes, LookupDisabled(b, h) PROVE Facts'
  BY <1>4 DEF Facts, L2Fact, CallFact, LookupDisabled
<1>5. ASSUME NEW b \in Backends, NEW k \in Keys, L1Hit(b, k) PROVE Facts'
  BY <1>5 DEF Facts, L2Fact, CallFact, L1Hit
<1>6. ASSUME NEW b \in Backends, NEW k \in Keys, L1Miss(b, k) PROVE Facts'
  <2> DEFINE s == l1_hash_to_set(k.hash)
             i == First(L1Match(b, k.hash))
  <2>1. s \in L1Sets /\ i \in Ways
    BY SetType DEF Keys, First, Ways
  <2>2. ways' = ways \/ ways' = [ways EXCEPT ![b][s][i] = Invalid]
    BY <1>6 DEF L1Miss
  <2>3. UNCHANGED <<entries, stored>> /\ pc' = [pc EXCEPT ![b] = "lookup"]
        /\ \A c \in Backends \ {b} : call'[c] = call[c]
    BY <1>0, <1>6 DEF L1Miss, TypeOK
  <2> HIDE DEF s, i
  <2>4. CASE ways' = ways
    BY <1>0, <1>1, <1>2, <1>3, <2>3, <2>4 DEF Facts, TypeOK
  <2>5. CASE ways' = [ways EXCEPT ![b][s][i] = Invalid]
    <3>1. \A c \in Backends, t \in L1Sets, j \in Ways :
            ways'[c][t][j] = ways[c][t][j] \/ ways'[c][t][j] = Invalid
      BY <1>0, <2>1, <2>5 DEF TypeOK
    <3>2. L1OK
      BY <2>3, <3>1 DEF Facts
    <3>3. QED
      BY <1>0, <1>1, <1>2, <1>3, <2>3, <3>2 DEF TypeOK
  <2>6. QED
    BY <2>2, <2>4, <2>5
<1>7. ASSUME NEW b \in Backends, L2Miss(b) PROVE Facts'
  BY <1>0, <1>7 DEF Facts, L2Fact, CallFact, L2Miss, Return, TypeOK
<1>8. ASSUME NEW b \in Backends, L2Hit(b) PROVE Facts'
  <2> DEFINE i == index[call[b].key]
  <2>1. pc[b] = "lookup" /\ i \in Slots /\ entries[i] # Invalid
    BY <1>0, <1>8, CallType DEF L2Hit, TypeOK, l2_entry_expired
  <2>2. UNCHANGED <<entries, stored>>
    BY <1>8 DEF L2Hit
  <2>3. CASE MayBump(i)
    BY <1>0, <1>8, <2>3 DEF L2Hit, Facts, L2Fact, CallFact, TypeOK
  <2>4. CASE ~MayBump(i)
    <3>1. CopyToL1(b, i)
      BY <1>8, <2>4 DEF L2Hit
    <3>2. L1OK
      BY <1>0, <2>1, <2>2, <3>1, CopyFact
    <3>3. CallOK
      BY <1>0, <1>3, <2>2, <3>1 DEF CopyToL1, Return, TypeOK
    <3>4. QED
      BY <1>1, <1>2, <2>2, <3>2, <3>3
  <2>5. QED
    BY <2>3, <2>4
<1>9. ASSUME NEW b \in Backends, Bump(b) PROVE Facts'
  <2> DEFINE i == index[call[b].key]
  <2>1. pc[b] = "bump" /\ i \in Slots /\ entries[i] # Invalid
    BY <1>0, <1>9, CallType DEF Bump, TypeOK, Locked, IndexExact
  <2>2. UNCHANGED <<entries, stored>> /\ CopyToL1(b, i)
    BY <1>9 DEF Bump
  <2>3. L1OK
    BY <1>0, <2>1, <2>2, CopyFact
  <2>4. CallOK
    BY <1>0, <1>3, <2>2 DEF CopyToL1, Return, TypeOK
  <2>5. QED
    BY <1>1, <1>2, <2>2, <2>3, <2>4
<1>10. ASSUME NEW b \in Backends, NEW k \in Keys, NEW allowed \in Verdicts,
              NEW ttl \in TTLs, Store(b, k, allowed, ttl)
       PROVE  Facts'
  <2> DEFINE f == [hash |-> k.hash, allowed |-> allowed, expires |-> now + ttl]
             d == [key |-> k, now |-> now, allowed |-> allowed, expires |-> now + ttl]
  <2>1. k.hash \in Hashes /\ now + ttl \in Nat /\ allowed \in BOOLEAN
    BY <1>0, TimeAssumption, VerdictsAssumption DEF Keys, TypeOK
  <2>2. stored \subseteq stored' /\ f \in stored'
    BY <1>10 DEF Store
  <2>3. L1OK
    BY <1>0, <1>10, <2>1, <2>2, L1StoreFact DEF Store
  <2>4. L2OK
    BY <1>10, <2>2 DEF Store, Facts, L2Fact
  <2>5. call' = [call EXCEPT ![b] = d] /\ pc' = [pc EXCEPT ![b] = "store"]
    BY <1>10 DEF Store
  <2>6. CallFact(b)' = f /\ \A c \in Backends \ {b} : pc'[c] = pc[c] /\ call'[c] = call[c]
    BY <1>0, <2>5 DEF CallFact, TypeOK
  <2>7. CallOK
    BY <2>2, <2>6 DEF Facts, CallFact
  <2>8. QED
    BY <1>1, <2>3, <2>4, <2>7
<1>11. ASSUME NEW b \in Backends, NEW i \in Slots, pc[b] \in {"store", "sweep"},
              l2_update_entry(b, i), UNCHANGED stored
       PROVE  L2OK
  <2> DEFINE e == [key |-> call[b].key, allowed |-> call[b].allowed,
                   expires |-> call[b].expires]
  <2>1. entries' = [entries EXCEPT ![i] = e]
    BY <1>11 DEF l2_update_entry
  <2>2. L2Fact(i)' = CallFact(b)
    BY <1>0, <2>1 DEF L2Fact, CallFact, TypeOK
  <2>3. \A j \in Slots \ {i} : entries'[j] = entries[j]
    BY <1>0, <2>1 DEF TypeOK
  <2>4. QED
    BY <1>11, <2>2, <2>3 DEF Facts, L2Fact
<1>12. ASSUME NEW b \in Backends, L2Update(b) PROVE Facts'
  <2>1. index[call[b].key] \in Slots
    BY <1>0, <1>12, CallType DEF L2Update, TypeOK
  <2>2. L2OK
    BY <1>11, <1>12, <2>1 DEF L2Update
  <2>3. CallOK
    BY <1>0, <1>3, <1>12 DEF L2Update, Return, TypeOK
  <2>4. L1OK
    BY <1>12 DEF L2Update, Facts
  <2>5. QED
    BY <1>1, <2>2, <2>3, <2>4
<1>13. ASSUME NEW b \in Backends, L2BeginSweep(b) \/ SweepPast(b) PROVE Facts'
  <2>1. UNCHANGED <<ways, entries, stored, call>>
        /\ (pc' = pc \/ (pc[b] = "store" /\ pc' = [pc EXCEPT ![b] = "sweep"]))
    BY <1>13 DEF L2BeginSweep, SweepPast
  <2>2. CallOK
    BY <1>0, <1>3, <2>1 DEF TypeOK
  <2>3. L1OK
    BY <2>1 DEF Facts
  <2>4. QED
    BY <1>1, <1>2, <2>1, <2>2, <2>3
<1>14. ASSUME NEW b \in Backends, SweepStop(b) PROVE Facts'
  <2>1. l2_clock_sweep \in Slots
    BY <1>0, CapacityAssumption DEF TypeOK, l2_clock_sweep, Slots
  <2>2. L2OK
    BY <1>11, <1>14, <2>1 DEF SweepStop, Install
  <2>3. CallOK
    BY <1>0, <1>3, <1>14 DEF SweepStop, Return, TypeOK
  <2>4. L1OK
    BY <1>14 DEF SweepStop, Facts
  <2>5. QED
    BY <1>1, <2>2, <2>3, <2>4
<1>15. ASSUME NEW b \in Backends, l1_startup(b) PROVE Facts'
  <2>1. \A c \in Backends, t \in L1Sets, j \in Ways :
          ways'[c][t][j] = ways[c][t][j] \/ ways'[c][t][j] = Invalid
    BY <1>0, <1>15 DEF TypeOK, l1_startup
  <2>2. UNCHANGED <<entries, stored, pc, call>>
    BY <1>15 DEF l1_startup
  <2>3. QED
    BY <2>1, <2>2 DEF Facts, L2Fact, CallFact
<1>16. CASE Clock \/ UNCHANGED vars
  BY <1>16 DEF Facts, L2Fact, CallFact, Clock, vars
<1>17. QED
  BY <1>4, <1>5, <1>6, <1>7, <1>8, <1>9, <1>10, <1>12, <1>13, <1>14, <1>15, <1>16 DEF Next

\* Between its test and its bump a look-up holds the lock: the entry stays as
\* fresh as it was.
LEMMA FreshStep == L2Inv /\ Fresh /\ [Next]_vars => Fresh'
<1> SUFFICES ASSUME L2Inv, Fresh, [Next]_vars PROVE Fresh'
  OBVIOUS
<1>0. TypeOK /\ IndexExact /\ Locked
  BY DEF L2Inv
<1>1. ASSUME NEW b \in Backends, L2Update(b) \/ SweepStop(b) PROVE Fresh'
  <2>1. \A c \in Backends : pc'[c] # "bump"
    BY <1>0, <1>1 DEF L2Update, SweepStop, ExclusiveFree, Locked, Return, TypeOK
  <2>2. QED
    BY <2>1 DEF Fresh
<1>2. ASSUME NEW b \in Backends, L2Hit(b) PROVE Fresh'
  <2>1. /\ UNCHANGED <<index, entries>>
        /\ entries[index[call[b].key]].expires > call[b].now
        /\ \A c \in Backends \ {b} : pc'[c] = pc[c] /\ call'[c] = call[c]
        /\ pc'[b] = "bump" => call'[b] = call[b]
    <3>1. index[call[b].key] \in Slots /\ call[b].now \in Nat
      BY <1>0, <1>2, CallType DEF L2Hit, TypeOK
    <3>2. entries[index[call[b].key]].expires > call[b].now
      BY <1>0, <1>2, <3>1 DEF L2Hit, l2_entry_expired, TypeOK, L2Entry
    <3>3. QED
      BY <1>0, <1>2, <3>2 DEF L2Hit, l2Vars, CopyToL1, Return, TypeOK
  <2>2. ASSUME NEW c \in Backends, pc'[c] = "bump"
        PROVE  entries'[index'[call'[c].key]].expires > call'[c].now
    <3>1. CASE c = b
      BY <2>1, <2>2, <3>1
    <3>2. CASE c # b
      BY <2>1, <2>2, <3>2 DEF Fresh
    <3>3. QED
      BY <3>1, <3>2
  <2>3. QED
    BY <2>2 DEF Fresh
<1>3. ASSUME ~ \E b \in Backends : L2Update(b) \/ SweepStop(b) \/ L2Hit(b) PROVE Fresh'
  <2>1. UNCHANGED <<index, entries>>
    <3>1. ~ \E b \in Backends : L2Update(b) \/ SweepStop(b)
      BY <1>3
    <3>2. QED
      BY <3>1, L2Writers
  <2>2. \A c \in Backends : pc'[c] = "bump" => pc[c] = "bump" /\ call'[c] = call[c]
    <3> USE <1>0 DEF TypeOK
    <3>1. ASSUME UNCHANGED <<pc, call>>
          PROVE  \A c \in Backends : pc'[c] = "bump" => pc[c] = "bump" /\ call'[c] = call[c]
      BY <3>1
    <3>2. ASSUME NEW b \in Backends, Return(b)
          PROVE  \A c \in Backends : pc'[c] = "bump" => pc[c] = "bump" /\ call'[c] = call[c]
      BY <3>2 DEF Return
    <3>3. ASSUME NEW b \in Backends, NEW k \in Keys, L1Miss(b, k)
          PROVE  \A c \in Backends : pc'[c] = "bump" => pc[c] = "bump" /\ call'[c] = call[c]
      BY <3>3 DEF L1Miss
    <3>4. ASSUME NEW b \in Backends, NEW k \in Keys, NEW allowed \in Verdicts,
                 NEW ttl \in TTLs, Store(b, k, allowed, ttl)
          PROVE  \A c \in Backends : pc'[c] = "bump" => pc[c] = "bump" /\ call'[c] = call[c]
      BY <3>4 DEF Store
    <3>5. ASSUME NEW b \in Backends, L2BeginSweep(b)
          PROVE  \A c \in Backends : pc'[c] = "bump" => pc[c] = "bump" /\ call'[c] = call[c]
      BY <3>5 DEF L2BeginSweep
    <3>6. QED
      BY <1>3, <3>1, <3>2, <3>3, <3>4, <3>5
         DEF Next, vars, LookupDisabled, L1Hit, L2Miss, Bump, CopyToL1, SweepPast,
             l1_startup, Clock
  <2>3. QED
    BY <2>1, <2>2 DEF Fresh
<1>4. QED
  BY <1>1, <1>2, <1>3

\* The question a backend has open, seen from outside.
LEMMA AskedOf ==
  ASSUME NEW b \in Backends
  PROVE  asked[b] = IF pc[b] \in {"lookup", "bump"}
                    THEN [hash |-> call[b].key.hash, since |-> call[b].now] ELSE NULL
BY DEF asked

\* A step that begins and ends no look-up leaves the questions as they are.
LEMMA AskedSame ==
  ASSUME \A c \in Backends :
           \/ pc'[c] = pc[c] /\ call'[c] = call[c]
           \/ pc[c] = "lookup" /\ pc'[c] = "bump" /\ call'[c] = call[c]
           \/ pc[c] \notin {"lookup", "bump"} /\ pc'[c] \notin {"lookup", "bump"}
  PROVE  asked' = asked
BY DEF asked

\* A step that only forgets the last answer is one of the abstract clock, which
\* may stand still.
LEMMA Stutter ==
  ASSUME TypeOK, asked' = asked, UNCHANGED <<now, stored>>, answer' = NULL
  PROVE  Promise!Next
<1>1. now \in now .. MaxTime
  BY TimeAssumption DEF TypeOK
<1>2. Promise!Clock
  BY <1>1 DEF Promise!Clock
<1>3. QED
  BY <1>2 DEF Promise!Next

\* A look-up that copies a valid, fresh entry answers with a stored verdict.
LEMMA CopyReplies ==
  ASSUME TypeOK, IndexExact, Facts, NEW b \in Backends, pc[b] \in {"lookup", "bump"},
         NEW i \in Slots, index[call[b].key] = i, entries[i] # Invalid,
         entries[i].expires > call[b].now, CopyToL1(b, i), UNCHANGED <<now, stored>>
  PROVE  Promise!Next
<1> DEFINE h == call[b].key.hash
           t == call[b].now
           v == Promise!Verdict(entries[i].allowed)
<1>1. call[b].key \in Keys /\ call[b] # NULL
  BY CallType DEF TypeOK
<1>2. entries[i].key = call[b].key
  BY <1>1, NullAssumption DEF IndexExact
<1>3. asked[b] = [hash |-> h, since |-> t]
  BY AskedOf
<1>4. asked[b] # NULL
  <2>1. h \in Hashes /\ t \in Nat
    BY CallType
  <2>2. QED
    BY <1>3, <2>1, NullAssumption
<1>5. Promise!Backed(h, t, v)
  <2>1. L2Fact(i) \in stored
    BY DEF Facts
  <2>2. /\ L2Fact(i).hash = h /\ L2Fact(i).expires > t
        /\ Promise!Verdict(L2Fact(i).allowed) = v
    BY <1>2 DEF L2Fact
  <2>3. QED
    BY <2>1, <2>2 DEF Promise!Backed
<1>6. asked' = [asked EXCEPT ![b] = NULL]
  BY DEF CopyToL1, Return, asked, TypeOK
<1>7. answer' = [hash |-> h, verdict |-> v]
  BY DEF CopyToL1, Answer
<1>8. v \in Promise!Outcomes
  BY DEF Promise!Verdict, Promise!Outcomes
<1> HIDE DEF h, t, v
<1>9. Promise!Reply(b, v)
  BY <1>3, <1>4, <1>5, <1>6, <1>7 DEF Promise!Reply
<1>10. QED
  BY <1>8, <1>9 DEF Promise!Next

\* Every step of the cache is a step of what it promises.
LEMMA PromiseStep ==
  L2Inv /\ Facts /\ Fresh /\ [Next]_vars => [Promise!Next]_(Promise!vars)
<1> SUFFICES ASSUME L2Inv, Facts, Fresh, [Next]_vars
             PROVE  Promise!Next \/ UNCHANGED Promise!vars
  OBVIOUS
<1>0. TypeOK /\ IndexExact /\ Locked
  BY DEF L2Inv
<1>1. ASSUME NEW b \in Backends, NEW h \in Hashes, LookupDisabled(b, h) PROVE Promise!Next
  <2>1. asked[b] = NULL
    BY <1>1, AskedOf DEF LookupDisabled
  <2>2. Promise!ReplyAtOnce(b, h, "miss")
    BY <1>1, <2>1, AskedSame
       DEF LookupDisabled, history, Answer, Promise!ReplyAtOnce, Promise!Backed
  <2>3. QED
    BY <2>2 DEF Promise!Next, Promise!Outcomes
<1>2. ASSUME NEW b \in Backends, NEW k \in Keys, L1Hit(b, k) PROVE Promise!Next
  <2> DEFINE s == l1_hash_to_set(k.hash)
             i == First(L1Match(b, k.hash))
             e == ways[b][s][i]
             v == Promise!Verdict(e.allowed)
  <2>1. k.hash \in Hashes /\ s \in L1Sets /\ i \in Ways
    BY SetType DEF Keys, First, Ways
  <2>2. e # Invalid /\ e.hash = k.hash /\ e.expires > now
    <3>1. L1Match(b, k.hash) # {} /\ e.expires > now
      BY <1>2 DEF L1Hit
    <3>2. L1Match(b, k.hash) \subseteq 0 .. 1
      BY DEF L1Match, Ways
    <3>3. i \in L1Match(b, k.hash)
      BY <3>1, <3>2 DEF First
    <3> HIDE DEF i
    <3>4. QED
      BY <3>1, <3>3 DEF L1Match, l1_key_equals
  <2>3. e \in stored
    BY <2>1, <2>2 DEF Facts
  <2>4. Promise!Backed(k.hash, now, v)
    BY <2>2, <2>3 DEF Promise!Backed
  <2>5. asked[b] = NULL
    BY <1>2, AskedOf DEF L1Hit
  <2>6. /\ answer' = [hash |-> k.hash, verdict |-> v]
        /\ UNCHANGED <<now, stored, pc, call>>
    BY <1>2 DEF L1Hit, Answer, history
  <2>7. v \in Promise!Outcomes
    BY DEF Promise!Verdict, Promise!Outcomes
  <2> HIDE DEF s, i, e, v
  <2>8. Promise!ReplyAtOnce(b, k.hash, v)
    BY <2>4, <2>5, <2>6, AskedSame DEF Promise!ReplyAtOnce
  <2>9. QED
    BY <2>1, <2>7, <2>8 DEF Promise!Next
<1>3. ASSUME NEW b \in Backends, NEW k \in Keys, L1Miss(b, k) PROVE Promise!Next
  <2> DEFINE c == [key |-> k, now |-> now, allowed |-> FALSE, expires |-> 0]
  <2>1. k.hash \in Hashes /\ c.key = k /\ c.now = now
    BY DEF Keys
  <2>2. asked[b] = NULL
    BY <1>3, AskedOf DEF L1Miss
  <2>3. /\ pc' = [pc EXCEPT ![b] = "lookup"] /\ call' = [call EXCEPT ![b] = c]
        /\ UNCHANGED <<now, stored>> /\ answer' = NULL
    BY <1>3 DEF L1Miss, history, Silent
  <2> HIDE DEF c
  <2>4. asked' = [asked EXCEPT ![b] = [hash |-> k.hash, since |-> now]]
    BY <1>0, <2>1, <2>3 DEF asked, TypeOK
  <2>5. Promise!Ask(b, k.hash)
    BY <2>2, <2>3, <2>4 DEF Promise!Ask
  <2>6. QED
    BY <2>1, <2>5 DEF Promise!Next
<1>4. ASSUME NEW b \in Backends, L2Miss(b) PROVE Promise!Next
  <2> DEFINE h == call[b].key.hash
             t == call[b].now
  <2>1. h \in Hashes /\ t \in Nat
    BY <1>0, <1>4, CallType DEF L2Miss
  <2>2. asked[b] = [hash |-> h, since |-> t]
    BY <1>4, AskedOf DEF L2Miss
  <2>3. asked[b] # NULL
    BY <2>1, <2>2, NullAssumption
  <2>4. asked' = [asked EXCEPT ![b] = NULL]
    BY <1>0, <1>4 DEF L2Miss, Return, asked, TypeOK
  <2>5. answer' = [hash |-> h, verdict |-> "miss"] /\ UNCHANGED <<now, stored>>
    BY <1>4 DEF L2Miss, Answer, history
  <2> HIDE DEF h, t
  <2>6. Promise!Reply(b, "miss")
    BY <2>2, <2>3, <2>4, <2>5 DEF Promise!Reply, Promise!Backed
  <2>7. QED
    BY <2>6 DEF Promise!Next, Promise!Outcomes
<1>5. ASSUME NEW b \in Backends, L2Hit(b) PROVE Promise!Next
  <2> DEFINE i == index[call[b].key]
  <2>1. pc[b] = "lookup" /\ i \in Slots /\ entries[i] # Invalid
    BY <1>0, <1>5, CallType DEF L2Hit, TypeOK, l2_entry_expired
  <2>2. UNCHANGED <<now, stored>>
    BY <1>5 DEF L2Hit, history
  <2>3. CASE MayBump(i)
    <3>1. /\ pc' = [pc EXCEPT ![b] = "bump"]
          /\ call' = call /\ answer' = NULL
      BY <1>5, <2>3 DEF L2Hit, Silent
    <3>2. asked' = asked
      BY <1>0, <2>1, <3>1, AskedSame DEF TypeOK
    <3>3. QED
      BY <1>0, <2>2, <3>1, <3>2, Stutter
  <2>4. CASE ~MayBump(i)
    <3>1. CopyToL1(b, i)
      BY <1>5, <2>4 DEF L2Hit
    <3>2. entries[i].expires \in Nat /\ call[b].now \in Nat
      BY <1>0, <2>1, CallType DEF TypeOK, L2Entry
    <3>3. entries[i].expires > call[b].now
      BY <1>5, <2>1, <3>2 DEF L2Hit, l2_entry_expired
    <3>4. QED
      BY <1>0, <2>1, <2>2, <3>1, <3>3, CopyReplies
  <2>5. QED
    BY <2>3, <2>4
<1>6. ASSUME NEW b \in Backends, Bump(b) PROVE Promise!Next
  <2> DEFINE i == index[call[b].key]
  <2>1. pc[b] = "bump" /\ i \in Slots /\ entries[i] # Invalid
    BY <1>0, <1>6, CallType DEF Bump, TypeOK, Locked, IndexExact
  <2>2. entries[i].expires > call[b].now
    BY <2>1 DEF Fresh
  <2>3. QED
    BY <1>0, <1>6, <2>1, <2>2, CopyReplies DEF Bump, history
<1>7. ASSUME NEW b \in Backends, NEW k \in Keys, NEW allowed \in Verdicts,
             NEW ttl \in TTLs, Store(b, k, allowed, ttl)
      PROVE  Promise!Next
  <2>1. k.hash \in Hashes /\ allowed \in BOOLEAN
    BY VerdictsAssumption DEF Keys
  <2>2. asked' = asked
    BY <1>0, <1>7, AskedSame DEF Store, TypeOK
  <2>3. Promise!Store(k.hash, allowed, ttl)
    BY <1>7, <2>2 DEF Store, Promise!Store, Silent
  <2>4. QED
    BY <2>1, <2>3 DEF Promise!Next
<1>8. ASSUME NEW b \in Backends, L2Update(b) \/ SweepStop(b) PROVE Promise!Next
  <2>1. asked' = asked
    BY <1>0, <1>8, AskedSame DEF L2Update, SweepStop, Return, TypeOK
  <2>2. QED
    BY <1>0, <1>8, <2>1, Stutter DEF L2Update, SweepStop, Silent, history
<1>9. ASSUME NEW b \in Backends, L2BeginSweep(b) \/ SweepPast(b) \/ l1_startup(b)
      PROVE  Promise!Next
  <2>1. asked' = asked
    BY <1>0, <1>9, AskedSame DEF L2BeginSweep, SweepPast, l1_startup, TypeOK
  <2>2. QED
    BY <1>0, <1>9, <2>1, Stutter DEF L2BeginSweep, SweepPast, l1_startup, Silent, history
<1>10. CASE Clock
  <2>1. asked' = asked
    BY <1>10, AskedSame DEF Clock
  <2>2. Promise!Clock
    BY <1>10, <2>1 DEF Clock, Promise!Clock, Silent, history
  <2>3. QED
    BY <2>2 DEF Promise!Next
<1>11. CASE UNCHANGED vars
  <2>1. asked' = asked
    BY <1>11, AskedSame DEF vars
  <2>2. QED
    BY <1>11, <2>1 DEF vars, history, Promise!vars
<1>12. QED
  BY <1>1, <1>2, <1>3, <1>4, <1>5, <1>6, <1>7, <1>8, <1>9, <1>10, <1>11 DEF Next

\* The cache answers a look-up only with a verdict that was stored for that
\* tuple and had not expired when the look-up began, whatever the levels,
\* victims, evictions and concurrent look-ups did in between.
THEOREM CacheKeepsPromise == Spec => ImplementsPromise
<1>1. Init => Facts /\ Fresh
  BY DEF Init, Facts, Fresh
<1>2. Init => Promise!Init
  BY DEF Init, Promise!Init, asked
<1>3. QED
  BY L2Always, FactsStep, FreshStep, PromiseStep, <1>1, <1>2, PTL
     DEF Spec, ImplementsPromise, Promise!Spec
=============================================================================
