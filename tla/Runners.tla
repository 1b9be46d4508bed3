------------------------------ MODULE Runners ------------------------------
(***************************************************************************)
(* The tools/run_*.py scripts, as data.  Each runs a bounded experiment    *)
(* beside the idle service: it looks at the request counters, makes a      *)
(* directory for its evidence, sends a program to one node or to all of    *)
(* them, and says at the end whether the experiment counts.  They differ   *)
(* in the checks they make; Experiments gives the steps.                   *)
(***************************************************************************)
EXTENDS Naturals

\* The general case.
Runner ==
    [ranks  |-> "one",      \* nodes it uses: one or all
     rounds |-> 1,          \* programs it sends there: run, or build and run
     idle   |-> TRUE,       \* refuses to begin when a request is in progress
     quiet  |-> TRUE,       \* compares the counters before and after
     prior  |-> FALSE,      \* can refuse to begin beside a given earlier run
     scan   |-> "none",     \* looks for its processes: "self", the program
                            \* itself at its end; "later", the script, after it
     limit  |-> "timeout",  \* who ends what goes on too long: timeout(1), or
                            \* "owned", the program, by the mark in /proc
     dir    |-> "d1",       \* the directory it is given
     early  |-> FALSE]      \* writes the result before it has judged it

\* One kernel on one node.
Compared == Runner
Isolated == [Runner EXCEPT !.prior = TRUE, !.scan = "self", !.early = TRUE]

\* One transport on all nodes.
Phases == [Runner EXCEPT !.ranks = "all", !.rounds = 2, !.scan = "self"]
Sizes == [Phases EXCEPT !.rounds = 1]
Owned == [Runner EXCEPT !.ranks = "all", !.scan = "later", !.limit = "owned",
                        !.early = TRUE]

\* Without a look at the service.
Unchecked == [Runner EXCEPT !.idle = FALSE, !.quiet = FALSE]

run_moe_w1_cache == Isolated
run_moe_w1_order == Isolated
run_moe_w1_serial == Isolated
run_moe_w1_occupancy == Isolated
run_moe_w1_rotating == Isolated
run_moe_w1_depths == Isolated
run_moe_w1_dispatch == Isolated
run_moe_w2_serial == Isolated
run_moe_w2_epilogue == Isolated
run_moe_w2_rotating == Isolated
run_moe_w2_depths == Isolated
run_moe_neighbor_dispatch == Isolated
run_hc_aiter_experiment == Isolated
run_hc_lossless_experiment == Isolated
run_aiter_gdn == Isolated

run_dense_grid == Compared
run_head_grid == Compared
run_gdn_batch_invariance == Compared
run_decode_batch_invariance == Compared
run_hc_up_mix_checkpoint == Compared
run_hc_up_mix_table == Compared
run_hc_up_mix_audit == Compared
run_hc_up_mix_constructor == Compared
run_hc_up_mix_dynamic == Compared
run_hc_up_mix_integration == Compared
run_hc_up_mix_prefill == Compared
run_hc_up_mix_reference == Compared
run_hc_audit_control == Compared
run_hc_first_mismatch == Compared
run_hc_down_prefetch == Compared
run_norm_gate_launch_geometry == Compared
run_pinned_norm_gate_geometry == Compared
run_pinned_norm_gate_aot == Compared

run_cpu_rdma_phases == Phases
run_cpu_rdma_wide == Phases
run_cpu_rdma_widenet == Phases
run_rccl_prefill_sizes == Sizes

run_hip_rdma_graph == Owned
run_uma_affinity == Owned

run_cpu_rdma_allreduce == [Unchecked EXCEPT !.ranks = "all", !.scan = "later",
                                            !.early = TRUE]
run_rccl_microbench == [Unchecked EXCEPT !.ranks = "all", !.early = TRUE]
run_hc_lossless_build == [Unchecked EXCEPT !.early = TRUE]

OneNode ==
    {run_moe_w1_cache, run_moe_w1_order, run_moe_w1_serial, run_moe_w1_occupancy,
     run_moe_w1_rotating, run_moe_w1_depths, run_moe_w1_dispatch, run_moe_w2_serial,
     run_moe_w2_epilogue, run_moe_w2_rotating, run_moe_w2_depths,
     run_moe_neighbor_dispatch, run_hc_aiter_experiment, run_hc_lossless_experiment,
     run_aiter_gdn, run_dense_grid, run_head_grid, run_gdn_batch_invariance,
     run_decode_batch_invariance, run_hc_up_mix_checkpoint, run_hc_up_mix_table,
     run_hc_up_mix_audit, run_hc_up_mix_constructor, run_hc_up_mix_dynamic,
     run_hc_up_mix_integration, run_hc_up_mix_prefill, run_hc_up_mix_reference,
     run_hc_audit_control, run_hc_first_mismatch, run_hc_down_prefetch,
     run_norm_gate_launch_geometry, run_pinned_norm_gate_geometry,
     run_pinned_norm_gate_aot, run_hc_lossless_build}

AllNodes ==
    {run_cpu_rdma_phases, run_cpu_rdma_wide, run_cpu_rdma_widenet,
     run_rccl_prefill_sizes, run_hip_rdma_graph, run_uma_affinity,
     run_cpu_rdma_allreduce, run_rccl_microbench}
=============================================================================
