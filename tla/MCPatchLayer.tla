---------------------------- MODULE MCPatchLayer ----------------------------
(***************************************************************************)
(* Small sets of upstream trees: every combination of packages; every      *)
(* known variant of a file; every anchor and every file moved, one at a    *)
(* time; and the builder of the image.                                     *)
(***************************************************************************)
EXTENDS PatchLayer

Extras == {{<<"layers/utils.py", "elif_m">>},
           {<<"qsa.py", "63_legacy">>}, {<<"rocm.py", "64_legacy">>},
           {<<"arch_info.py", "gfx1151">>}, {<<"arch_info.py", "_ARCH_TO_DEVICE">>},
           {<<"arch_info.py", "is_fp4_avail_gfx1151">>},
           {<<"envs.py", "VLLM_PLE_CPU_OFFLOAD">>}, {<<"cpp_itfs/utils.py", "gfx1151">>}}

Variants == {[Plain EXCEPT !.packages = p] : p \in SUBSET Plain.packages}
                \cup {[Plain EXCEPT !.extra = e] : e \in Extras}

\* The n-gram table as merged upstream: its new constructor instead of the old.
Merged == [Plain EXCEPT !.extra = {<<"ple_layer.py", "PLEVocabParallelEmbedding">>},
                        !.gap = <<"ple_layer.py", "VocabParallelEmbedding">>]

Gaps == {<<f>> : f \in Files(Plain)} \cup UNION {AnchorsOf(s) : s \in Sites}
Moved == {[Plain EXCEPT !.gap = g] : g \in Gaps}
Builders == {[Plain EXCEPT !.builder = TRUE,
                !.packages = p] : p \in SUBSET {"qwen4_exp", "glm5next"}}

AllTrees == Variants \cup {Merged} \cup Moved \cup Builders
=============================================================================
