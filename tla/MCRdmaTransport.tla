-------------------------- MODULE MCRdmaTransport --------------------------
(* Small instances of RdmaTransport. *)
EXTENDS RdmaTransport, TLC

Symmetry == Permutations(Ranks)
=============================================================================
