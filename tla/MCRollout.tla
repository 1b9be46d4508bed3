----------------------------- MODULE MCRollout -----------------------------
(***************************************************************************)
(* Every tool alone; two layers on the fused MoE kernel and two on the     *)
(* canonical configuration.                                                *)
(***************************************************************************)
EXTENDS Rollout

Alone ==
    {deploy_moe_w1, deploy_moe_w1_order, deploy_moe_w2_serial, deploy_aiter_gdn,
     deploy_qsa_sparse_tail, deploy_hip_rdma_experiment, set_w2_canonical_config,
     set_avx512_canonical_config, set_w1_order_canonical_config, stage_hip_uma_wide,
     stage_uccl_plugin, gpu_performance_profile, bench_gpu_profile}

MCStacks ==
    {<<t>> : t \in Alone}
    \cup {<<deploy_moe_w2_serial, deploy_moe_w1_order>>,
          <<set_w2_canonical_config, set_avx512_canonical_config>>}

\* The layered stacks have to go up and down again; two late calls matter where
\* the nodes are called one after the other.
MCMaxRuns ==
    [s \in MCStacks |-> (IF Len(s) > 1 \/ s[1].central THEN 4 ELSE 3)
                        + (IF Len(s) > 1 /\ s[1].guard THEN 1 ELSE 0)]
MCMaxLate == [s \in MCStacks |-> IF Len(s) > 1 \/ s[1].parallel THEN 1 ELSE 2]
=============================================================================
