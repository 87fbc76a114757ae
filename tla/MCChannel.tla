----------------------------- MODULE MCChannel -----------------------------
EXTENDS ChannelService, TLC
Symmetry == Permutations(Backends)
=============================================================================
