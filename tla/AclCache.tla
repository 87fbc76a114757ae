----------------------------- MODULE AclCache ------------------------------
(***************************************************************************)
(* The two-level cache of check verdicts.  L1 is private to a backend:     *)
(* two-way sets, found by the low bits of the tuple's 128-bit hash, with a *)
(* victim bit.  L2 is shared: an array of entries, a hash index from keys  *)
(* to positions in it, a clock hand, and one LWLock that look-ups take     *)
(* shared and stores exclusive.                                            *)
(*                                                                         *)
(* A step is a critical section of the lock or an access to shared memory  *)
(* inside one that others can see, with the private L1 work around it; the *)
(* sweep for a victim is one step per entry.  Nothing bumps the generation *)
(* at this commit, so it is the constant 0 and left out.                   *)
(***************************************************************************)
EXTENDS Integers, FiniteSets

CONSTANTS
  Backends,      \* the backends that call fga_cache_lookup and _store
  Hashes, Low,   \* the 128-bit hashes of the tuples, and their low words
  Garbage,       \* what relation_id and _pad of a key on the stack may hold
  L1NumSets,     \* FGA_L1_NUM_SETS
  Capacity,      \* the number of L2 entries
  UsageMax,      \* FGA_L2_USAGE_MAX
  UsageModulus,  \* the range of a usage count, 2^8
  HandModulus,   \* the range of the clock hand, 2^32
  Verdicts,      \* the verdicts that are stored
  TTLs,          \* settings of cache_ttl_ms
  MaxTime,       \* bound: the latest time of the clock
  MaxStores,     \* bound: how many stores a behaviour may begin
  NULL

Slots == 0 .. (Capacity - 1)
Ways == 0 .. 1

\* FgaAclCacheKey: fga_cache_key fills the hash, and leaves the last eight
\* bytes as they were; the L2 index compares all of it, L1 the hash.
Keys == [hash : Hashes, pad : Garbage]

\* cache_size is at least 1 MB, so there are thousands of entries.
ASSUME CapacityAssumption == Capacity \in Nat /\ Capacity >= 2
ASSUME L1NumSetsAssumption == L1NumSets \in Nat \ {0}
ASSUME LowAssumption == Low \in [Hashes -> Nat]
ASSUME UsageMaxAssumption == UsageMax \in Nat \ {0}
ASSUME UsageAssumption == UsageModulus \in Nat /\ UsageMax < UsageModulus
ASSUME BackendsAssumption == IsFiniteSet(Backends)
ASSUME VerdictsAssumption == Verdicts \subseteq BOOLEAN
ASSUME HandAssumption == HandModulus \in Nat \ {0}
ASSUME TimeAssumption == MaxTime \in Nat /\ TTLs \subseteq Nat /\ MaxStores \in Nat

VARIABLES
  now,                  \* the clock
  ways, victim,         \* FgaL1Set of each backend
  index,                \* l2_slot_table
  entries, usage,       \* FgaL2AclEntry; its usage_count apart
  nextVictim,           \* the clock hand
  pc, call, seen,       \* a backend: position, arguments, usage it has read
  stored, stores,       \* history: verdicts stored, and how many
  turns,                \* history: how far the sweep under way has come
  answer                \* history: what a look-up returned in this step

l1Vars == <<ways, victim>>
l2Vars == <<index, entries, usage, nextVictim>>
history == <<stored, stores, turns>>
vars == <<now, l1Vars, l2Vars, pc, call, seen, history, answer>>

L1Sets == 0 .. (L1NumSets - 1)
L1Entry == [hash : Hashes, allowed : BOOLEAN, expires : Nat]
L2Entry == [key : Keys, allowed : BOOLEAN, expires : Nat]
Usage == 0 .. (UsageModulus - 1)
Call == [key : Keys, now : Nat, allowed : BOOLEAN, expires : Nat]

ASSUME NullAssumption ==
  NULL \notin Slots \cup Call \cup [hash : Hashes, since : Nat]

\* valid = false; nothing else of such an entry is ever read.
Invalid == [valid |-> FALSE]

Init ==
  /\ now = 0
  /\ ways = [b \in Backends |-> [s \in L1Sets |-> [i \in Ways |-> Invalid]]]
  /\ victim = [b \in Backends |-> [s \in L1Sets |-> 0]]
  /\ index = [k \in Keys |-> NULL]
  /\ entries = [i \in Slots |-> Invalid]
  /\ usage = [i \in Slots |-> 0]
  /\ nextVictim = 0
  /\ pc = [b \in Backends |-> "idle"]
  /\ call = [b \in Backends |-> NULL]
  /\ seen = [b \in Backends |-> 0]
  /\ stored = {}
  /\ stores = 0
  /\ turns = 0
  /\ answer = NULL

\* A look-up that has missed L1 is under way.
asked ==
  [b \in Backends |-> IF pc[b] \in {"lookup", "bump"}
                      THEN [hash |-> call[b].key.hash, since |-> call[b].now]
                      ELSE NULL]
Promise == INSTANCE VerdictCache

\* The step ends a look-up of h with outcome v; other steps answer nothing.
Answer(h, v) == answer' = [hash |-> h, verdict |-> v]
Silent == answer' = NULL

----------------------------------------------------------------------------
(***************************************************************************)
(* L1                                                                      *)
(***************************************************************************)

l1_hash_to_set(h) == Low[h] % L1NumSets

\* Mutant: half of the hash is compared.
l1_key_equals_low(g, h) == Low[g] = Low[h]

l1_key_equals(g, h) == g = h

\* The ways that hold h; the loops of L1 take the first.
L1Match(b, h) ==
  {i \in Ways : LET e == ways[b][l1_hash_to_set(h)][i]
                IN  e # Invalid /\ l1_key_equals(e.hash, h)}
First(S) == IF 0 \in S THEN 0 ELSE 1

l1_plru_access(b, s, i) == victim' = [victim EXCEPT ![b][s] = 1 - i]

\* Mutant: an empty way is taken before the other one is looked at.
L1TargetEager(b, h) ==
  LET s == l1_hash_to_set(h)
      empty == {i \in Ways : ways[b][s][i] = Invalid}
  IN  IF empty # {} THEN First(empty)
      ELSE IF L1Match(b, h) # {} THEN First(L1Match(b, h))
      ELSE victim[b][s]

\* Where l1_store puts h: over its old entry, else in an empty way, else over
\* the victim.
L1Target(b, h) ==
  LET s == l1_hash_to_set(h)
      empty == {i \in Ways : ways[b][s][i] = Invalid}
  IN  IF L1Match(b, h) # {} THEN First(L1Match(b, h))
      ELSE IF empty # {} THEN First(empty)
      ELSE victim[b][s]

l1_store(b, h, expires, allowed) ==
  LET s == l1_hash_to_set(h)
      i == L1Target(b, h)
  IN  /\ ways' = [ways EXCEPT ![b][s][i] =
                    [hash |-> h, allowed |-> allowed, expires |-> expires]]
      /\ l1_plru_access(b, s, i)

\* A new session begins with an empty L1.
l1_startup(b) ==
  /\ pc[b] = "idle"
  /\ ways' = [ways EXCEPT ![b] = [s \in L1Sets |-> [i \in Ways |-> Invalid]]]
  /\ victim' = [victim EXCEPT ![b] = [s \in L1Sets |-> 0]]
  /\ UNCHANGED <<now, l2Vars, pc, call, seen, history>> /\ Silent

----------------------------------------------------------------------------
(***************************************************************************)
(* The lock: a look-up that is about to bump a usage count holds it        *)
(* shared, a store that sweeps holds it exclusive.                         *)
(***************************************************************************)
SharedFree == \A b \in Backends : pc[b] # "sweep"

\* Mutant: a store does not wait for the readers.
ExclusiveFreeOfStores == \A b \in Backends : pc[b] # "sweep"

ExclusiveFree == \A b \in Backends : pc[b] \notin {"bump", "sweep"}

l2_entry_expired(i, t) == entries[i] # Invalid => entries[i].expires <= t

Return(b) ==
  /\ pc' = [pc EXCEPT ![b] = "idle"]
  /\ call' = [call EXCEPT ![b] = NULL]

----------------------------------------------------------------------------
(***************************************************************************)
(* fga_cache_lookup                                                        *)
(***************************************************************************)

\* cache_enabled is off when the call reads it.
LookupDisabled(b, h) ==
  /\ pc[b] = "idle"
  /\ Answer(h, "miss")
  /\ UNCHANGED <<now, l1Vars, l2Vars, pc, call, seen, history>>

L1Hit(b, k) ==
  LET s == l1_hash_to_set(k.hash)
      i == First(L1Match(b, k.hash))
      e == ways[b][s][i]
  IN  /\ pc[b] = "idle"
      /\ L1Match(b, k.hash) # {}
      /\ e.expires > now
      /\ l1_plru_access(b, s, i)
      /\ Answer(k.hash, Promise!Verdict(e.allowed))
      /\ UNCHANGED <<now, ways, l2Vars, pc, call, seen, history>>

\* On to L2, after an expired entry was made invalid.
L1Miss(b, k) ==
  LET s == l1_hash_to_set(k.hash)
      i == First(L1Match(b, k.hash))
  IN  /\ pc[b] = "idle"
      /\ \/ L1Match(b, k.hash) = {} /\ UNCHANGED ways
         \/ /\ L1Match(b, k.hash) # {}
            /\ ways[b][s][i].expires <= now
            /\ ways' = [ways EXCEPT ![b][s][i] = Invalid]
      /\ pc' = [pc EXCEPT ![b] = "lookup"]
      /\ call' = [call EXCEPT ![b] =
                    [key |-> k, now |-> now, allowed |-> FALSE, expires |-> 0]]
      /\ UNCHANGED <<now, victim, l2Vars, seen, history>> /\ Silent

L2Miss(b) ==
  LET k == call[b].key
      i == index[k]
  IN  /\ pc[b] = "lookup"
      /\ SharedFree
      /\ \/ i = NULL /\ UNCHANGED usage
         \/ /\ i # NULL
            /\ l2_entry_expired(i, call[b].now)
            /\ usage' = [usage EXCEPT ![i] = 0]
      /\ Return(b) /\ Answer(k.hash, "miss")
      /\ UNCHANGED <<now, l1Vars, index, entries, nextVictim, seen, history>>

\* Mutant: the copy in L1 lives for a whole TTL again.
CopyToL1Renewed(b, i) ==
  \E ttl \in TTLs :
    /\ l1_store(b, call[b].key.hash, now + ttl, entries[i].allowed)
    /\ Return(b) /\ Answer(call[b].key.hash, Promise!Verdict(entries[i].allowed))

\* Read the entry, drop the lock, keep a copy in L1 until it expires.
CopyToL1(b, i) ==
  /\ l1_store(b, call[b].key.hash, entries[i].expires, entries[i].allowed)
  /\ Return(b) /\ Answer(call[b].key.hash, Promise!Verdict(entries[i].allowed))

\* Mutant: the test lets one increment too many through.
MayBumpLate(i) == usage[i] <= UsageMax

MayBump(i) == usage[i] < UsageMax

L2Hit(b) ==
  LET i == index[call[b].key]
  IN  /\ pc[b] = "lookup"
      /\ SharedFree
      /\ i # NULL
      /\ ~l2_entry_expired(i, call[b].now)
      /\ IF MayBump(i)
         THEN /\ pc' = [pc EXCEPT ![b] = "bump"]
              /\ seen' = [seen EXCEPT ![b] = usage[i]]
              /\ UNCHANGED <<l1Vars, call>> /\ Silent
         ELSE CopyToL1(b, i) /\ UNCHANGED seen
      /\ UNCHANGED <<now, l2Vars, history>>

\* usage_count++ of a shared byte without an atomic: the increment applies to
\* the value that was tested or to the one that is there now.
Bump(b) ==
  LET i == index[call[b].key]
  IN  /\ pc[b] = "bump"
      /\ \E u \in {seen[b], usage[i]} : usage' = [usage EXCEPT ![i] = (u + 1) % UsageModulus]
      /\ seen' = [seen EXCEPT ![b] = 0]
      /\ CopyToL1(b, i)
      /\ UNCHANGED <<now, index, entries, nextVictim, history>>

----------------------------------------------------------------------------
(***************************************************************************)
(* fga_cache_store                                                         *)
(***************************************************************************)

\* L1 first, then L2.  With the cache off the call does nothing at all.
Store(b, k, allowed, ttl) ==
  /\ pc[b] = "idle"
  /\ stores < MaxStores
  /\ stores' = stores + 1
  /\ stored' = stored \cup
       {[hash |-> k.hash, allowed |-> allowed, expires |-> now + ttl]}
  /\ l1_store(b, k.hash, now + ttl, allowed)
  /\ pc' = [pc EXCEPT ![b] = "store"]
  /\ call' = [call EXCEPT ![b] = [key |-> k, now |-> now, allowed |-> allowed,
                                  expires |-> now + ttl]]
  /\ UNCHANGED <<now, l2Vars, seen, turns>> /\ Silent

l2_update_entry(b, i) ==
  /\ entries' = [entries EXCEPT ![i] =
       [key |-> call[b].key, allowed |-> call[b].allowed, expires |-> call[b].expires]]
  /\ usage' = [usage EXCEPT ![i] = UsageMax]

L2Update(b) ==
  LET i == index[call[b].key]
  IN  /\ pc[b] = "store"
      /\ ExclusiveFree
      /\ i # NULL
      /\ l2_update_entry(b, i)
      /\ Return(b) /\ Silent
      /\ UNCHANGED <<now, l1Vars, index, nextVictim, seen, history>>

L2BeginSweep(b) ==
  /\ pc[b] = "store"
  /\ ExclusiveFree
  /\ index[call[b].key] = NULL
  /\ pc' = [pc EXCEPT ![b] = "sweep"]
  /\ UNCHANGED <<now, l1Vars, l2Vars, call, seen, history>> /\ Silent

l2_clock_sweep == nextVictim % Capacity

\* Mutant: the evicted key stays in the index.
InstallNoRemove(b, i) ==
  /\ index' = [index EXCEPT ![call[b].key] = i]
  /\ l2_update_entry(b, i)

\* HASH_REMOVE of the key that is evicted, HASH_ENTER of the new one.
Install(b, i) ==
  /\ index' = IF entries[i] = Invalid THEN [index EXCEPT ![call[b].key] = i]
              ELSE [index EXCEPT ![entries[i].key] = NULL, ![call[b].key] = i]
  /\ l2_update_entry(b, i)

\* Mutant: entries that are in use are passed over, and stay in use.
SweepPastNoAge(b) ==
  LET i == l2_clock_sweep
  IN  /\ pc[b] = "sweep"
      /\ ~l2_entry_expired(i, call[b].now) /\ usage[i] > 0
      /\ nextVictim' = (nextVictim + 1) % HandModulus
      /\ turns' = turns + 1
      /\ UNCHANGED <<now, l1Vars, index, entries, usage, pc, call, seen, stored, stores>>
      /\ Silent

\* Mutant: the count is taken down without a look at it.
SweepPastUnderflow(b) ==
  LET i == l2_clock_sweep
  IN  /\ pc[b] = "sweep"
      /\ ~l2_entry_expired(i, call[b].now)
      /\ usage' = [usage EXCEPT ![i] = @ - 1]
      /\ nextVictim' = (nextVictim + 1) % HandModulus
      /\ turns' = turns + 1
      /\ UNCHANGED <<now, l1Vars, index, entries, pc, call, seen, stored, stores>>
      /\ Silent

\* l2_find_victim_slot, one turn of its loop.  trycounter is set to capacity
\* before each decrement and capacity is at least 2, so it never reaches 0:
\* the search does not give up.
SweepPast(b) ==
  LET i == l2_clock_sweep
  IN  /\ pc[b] = "sweep"
      /\ ~l2_entry_expired(i, call[b].now) /\ usage[i] > 0
      /\ usage' = [usage EXCEPT ![i] = @ - 1]
      /\ nextVictim' = (nextVictim + 1) % HandModulus
      /\ turns' = turns + 1
      /\ UNCHANGED <<now, l1Vars, index, entries, pc, call, seen, stored, stores>>
      /\ Silent

SweepStop(b) ==
  LET i == l2_clock_sweep
  IN  /\ pc[b] = "sweep"
      /\ l2_entry_expired(i, call[b].now) \/ usage[i] = 0
      /\ Install(b, i)
      /\ nextVictim' = (nextVictim + 1) % HandModulus
      /\ Return(b) /\ Silent
      /\ turns' = 0
      /\ UNCHANGED <<now, l1Vars, seen, stored, stores>>

----------------------------------------------------------------------------
\* The clock that GetCurrentTimestamp reads.
Clock ==
  /\ now' \in now .. MaxTime
  /\ UNCHANGED <<l1Vars, l2Vars, pc, call, seen, history>> /\ Silent

Next ==
  \/ \E b \in Backends, k \in Keys : L1Hit(b, k) \/ L1Miss(b, k)
  \/ \E b \in Backends, h \in Hashes : LookupDisabled(b, h)
  \/ \E b \in Backends : L2Miss(b) \/ L2Hit(b) \/ Bump(b)
  \/ \E b \in Backends, k \in Keys, allowed \in Verdicts, ttl \in TTLs :
       Store(b, k, allowed, ttl)
  \/ \E b \in Backends : L2Update(b) \/ L2BeginSweep(b) \/ SweepPast(b) \/ SweepStop(b)
  \/ \E b \in Backends : l1_startup(b)
  \/ Clock

Spec == Init /\ [][Next]_vars

----------------------------------------------------------------------------
\* A call is under way exactly when the backend is not idle.
TypeOK ==
  /\ now \in 0 .. MaxTime
  /\ ways \in [Backends -> [L1Sets -> [Ways -> L1Entry \cup {Invalid}]]]
  /\ victim \in [Backends -> [L1Sets -> Ways]]
  /\ index \in [Keys -> Slots \cup {NULL}]
  /\ entries \in [Slots -> L2Entry \cup {Invalid}]
  /\ usage \in [Slots -> Usage]
  /\ nextVictim \in 0 .. (HandModulus - 1)
  /\ pc \in [Backends -> {"idle", "lookup", "bump", "store", "sweep"}]
  /\ call \in [Backends -> Call \cup {NULL}]
  /\ seen \in [Backends -> Usage]
  /\ stored \in SUBSET Promise!Fact
  /\ stores \in 0 .. MaxStores
  /\ turns \in Nat
  /\ answer \in Promise!Answer \cup {NULL}
  /\ \A b \in Backends : pc[b] = "idle" <=> call[b] = NULL

\* The L2 index and the array stay one-to-one through eviction, overwriting
\* and expiry: an index entry leads to the valid entry of that very key, and a
\* valid entry is found under its key.
IndexExact ==
  /\ \A k \in Keys : index[k] # NULL =>
       entries[index[k]] # Invalid /\ entries[index[k]].key = k
  /\ \A i \in Slots : entries[i] # Invalid => index[entries[i].key] = i

\* No tuple sits in both ways of its L1 set, so updating the first one found
\* leaves no older verdict behind; and it sits in the set it is looked for in.
L1Unique ==
  \A b \in Backends, s \in L1Sets, i \in Ways :
    LET e == ways[b][s][i]
    IN  e # Invalid =>
          /\ l1_hash_to_set(e.hash) = s
          /\ \A j \in Ways \ {i} : ways[b][s][j] # Invalid => ways[b][s][j].hash # e.hash

\* Look-ups that passed the test together can lift a usage count over the
\* maximum, but not by more than the number of the others.
UsageBounded ==
  \A i \in Slots : usage[i] < UsageMax + Cardinality(Backends)

\* A store that looks for a victim finds one, and holds the exclusive lock for
\* no more turns of its loop than the usage counts can add up to.
SweepBounded ==
  turns <= Capacity * (UsageMax + Cardinality(Backends) - 1)

\* While a store sweeps, no look-up and no other store touches L2.
SweepUndisturbed ==
  [][\A b \in Backends :
       pc[b] = "sweep" /\ pc'[b] = "sweep"
         => /\ UNCHANGED <<index, entries>>
            /\ \A i \in Slots : usage'[i] <= usage[i]]_vars

\* The cache answers a look-up only with a verdict that was stored for that
\* tuple and had not expired when the look-up began: no other tuple's, and no
\* copy in L1 that outlives the verdict it was copied from.
ImplementsPromise == Promise!Spec
=============================================================================
