------------------------------ MODULE MCRelease ------------------------------
(* Small instances of Release. *)
EXTENDS Release, TLC

Symmetry == Permutations(Releases) \union Permutations(Contents)
=============================================================================
