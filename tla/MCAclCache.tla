----------------------------- MODULE MCAclCache -----------------------------
EXTENDS AclCache, TLC
MCLow == [h \in Hashes |-> 0]
Symmetry == Permutations(Backends) \cup Permutations(Hashes) \cup Permutations(Garbage)
=============================================================================
