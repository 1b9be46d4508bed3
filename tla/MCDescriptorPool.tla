-------------------------- MODULE MCDescriptorPool --------------------------
(* Small instances of DescriptorPool. *)
EXTENDS DescriptorPool, TLC

Symmetry == Permutations(Streams)
=============================================================================
