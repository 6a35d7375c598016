------------------------------- MODULE MCRaft -------------------------------
EXTENDS Raft, TLC
Symmetry == Permutations(Contenders) \cup Permutations(Server \ Contenders) \cup Permutations(Value)
=============================================================================
