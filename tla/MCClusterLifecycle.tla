------------------------- MODULE MCClusterLifecycle -------------------------
(* Small instances of ClusterLifecycle for TLC. *)
EXTENDS ClusterLifecycle, TLC

\* Nodes are alike; of the coordinators only one is flaky.
Symmetry == Permutations(Nodes)
=============================================================================
