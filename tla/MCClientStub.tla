--------------------------- MODULE MCClientStub ---------------------------
(* A client and a few servers. *)
EXTENDS ClientStub, TLC

Symmetry == Permutations(Servers)
=============================================================================
