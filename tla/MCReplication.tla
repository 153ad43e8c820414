--------------------------- MODULE MCReplication ---------------------------
EXTENDS Replication, TLC

Symmetry == Permutations(Servers)
=============================================================================
