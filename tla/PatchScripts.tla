---------------------------- MODULE PatchScripts ----------------------------
(***************************************************************************)
(* The numbered scripts of patches/ that edit an upstream vLLM tree.  Each *)
(* is given as data: the files it edits, the text it looks for (anchors),  *)
(* what tells it that it has run already, and how it answers when          *)
(* something is not there.  PatchLayer runs them.                          *)
(*                                                                         *)
(* A file is the set of the texts in it that some script asks about: an    *)
(* anchor, named by a few words of it, or the text a script puts there,    *)
(* named by the script's number.  A text that has to be in a file exactly  *)
(* once and is there twice is, like one that is gone, not in the set.      *)
(* Where a script accepts several layouts of an anchor they have one name. *)
(***************************************************************************)
EXTENDS Integers, Sequences, FiniteSets

\* Answers: an exit code, or to go on with the next site.
Pass == -1
Done == 0
Failed == 1
Reaudit == 42

\* One replacement: text goes in, anchors are looked for and either stay
\* (keeps) or are replaced (eats).  marks: text holds the script's marker.
Edit(text, keeps, eats) ==
    [text |-> text, keeps |-> keeps, eats |-> eats, marks |-> TRUE]

\* One file that a script reads and writes once.  The general case: the file
\* and its anchors must be there, and the marker says that the edit is done.
Site(file, text, keeps, eats) ==
    [file    |-> file,
     edits   |-> {Edit(text, keeps, eats)},
     seen    |-> {text},    \* any of these: nothing to do here
     guards  |-> {},        \* <<file, text>>: must be there too
     bars    |-> {},        \* any of these: refuse
     known   |-> {},        \* any of these: add the marker and nothing else
     within  |-> "",        \* end with 0 where this package is absent
     creates |-> FALSE,     \* copies a whole file, there or not
     gone    |-> Reaudit,   \* the answer when the file is not there,
     moved   |-> Reaudit,   \* when an anchor or a guard is not,
     again   |-> Pass,      \* and when the edit is there already
     check   |-> "marked"]  \* what --check asks: "marked", "present" or ""

\* Seeded fault: --check forgets the files the script copies.
Copied_Unchecked(file, text) ==
    [Site(file, text, {}, {}) EXCEPT !.creates = TRUE, !.check = ""]
Copied(file, text) == [Site(file, text, {}, {}) EXCEPT !.creates = TRUE]

\* A file of patches/vendor, compared with the original: it has no marker.
Vendored(file) ==
    [Copied(file, "copy") EXCEPT !.edits = {[Edit("copy", {}, {}) EXCEPT !.marks = FALSE]}]

\* needs: files without which nothing is done.  fixed: the command line, --src
\* and --check, is not read.  refuses: a text that makes the script fail after
\* all its work.
Script(n, sites) ==
    [n |-> n, sites |-> sites, needs |-> {}, fixed |-> FALSE, refuses |-> {}]

(************************ the tree and its start-up ************************)
P10 == Script(10, <<Site("importing.py", "10", {"if_not_HAS_TRITON"}, {})>>)

P20 == Script(20, <<Site("_rocm_init.py", "20",
                         {"def_initialize", "initialize_process("}, {})>>)

P30 == Script(30, <<Site("requirements", "30", {"tensorizer"}, {})>>)

\* Two edits, each with a test of its own, in one write.
P40Envs ==
    [Site("envs.py", "40", {}, {}) EXCEPT
       !.seen = {},
       !.edits = {Edit("40_entry", {"VLLM_ROCM_USE_AITER"}, {}),
                  Edit("40_guard", {"__getattr__"}, {})}]
P40 == Script(40, <<P40Envs>>)

\* Seeded fault: the marker in the first file ends the script.
P56Rocm_Leaves == [Site("rocm.py", "56", {"def_is_navi"}, {"total_memory_via_amdsmi"})
                      EXCEPT !.again = Done]
P56Rocm == Site("rocm.py", "56", {"def_is_navi"}, {"total_memory_via_amdsmi"})
P56 == [Script(56, <<P56Rocm,
                     Site("mem_utils.py", "56", {"virtual_memory().available"}, {})>>)
           EXCEPT !.needs = {"rocm.py", "mem_utils.py"}]

P59 == Script(59, <<Site("platforms/__init__.py", "59",
                         {"def_resolve_current_platform"}, {})>>)

P64Rocm ==
    [Site("rocm.py", "64", {}, {"def_get_device_name"}) EXCEPT
       !.seen = {"64", "64_legacy"},
       !.guards = {<<"rocm.py", "soft_import_of_amdsmi">>,
                   <<"rocm.py", "def_with_amdsmi_context">>}]
P64 == Script(64, <<P64Rocm>>)

(******************************* the kernels *******************************)
\* The installed kernel package.  Without vLLM installed there is no target.
P50Edit == [Site("opt_flags.py", "50", {}, {"dataclass_import", "bitwidth_import",
                                            "AMD-specific"})
               EXCEPT !.within = "site-packages/vllm"]
P50 == Script(50, <<P50Edit>>)

SharedImport == [Edit("import_os", {"stdlib_imports"}, {}) EXCEPT !.marks = FALSE]

P51Dispatch ==
    [Site("rocm_aiter_mla_sparse.py", "51", {"def_indexer_fake"},
          {"top_k_per_row_prefill", "top_k_per_row_decode"})
       EXCEPT !.edits = @ \cup {SharedImport}]
P51 == [Script(51, <<Vendored("gfx1x_radix_topk.py"), P51Dispatch>>)
           EXCEPT !.needs = {"rocm_aiter_mla_sparse.py"}]

P52Dispatch ==
    [Site("rocm_aiter_mla_sparse.py", "52", {"def_fp8_paged_mqa_logits"},
          {"paged_logits_module", "prefill_logits_module"})
       EXCEPT !.edits = @ \cup {SharedImport}]
P52 == [Script(52, <<Vendored("gfx1x_tilelang_mqa.py"), P52Dispatch>>)
           EXCEPT !.needs = {"rocm_aiter_mla_sparse.py"}]

P53Fp8Utils == Site("fp8_utils.py", "53",
    {"len(block_size)", "def_grid"}, {"BLOCK_SIZE_M", "accumulator"})
\* Seeded fault: an edit that is there already is an error.
P53ScaledMM_Refuses ==
    [Site("scaled_mm/triton.py", "53",
          {"def_apply_block_scaled_mm", "w8a8_triton_block_scaled_mm"},
          {"import_ScaledMMLinearKernel"}) EXCEPT !.again = Failed]
P53ScaledMM == Site("scaled_mm/triton.py", "53",
    {"def_apply_block_scaled_mm", "w8a8_triton_block_scaled_mm"},
    {"import_ScaledMMLinearKernel"})
P53 == [Script(53, <<P53Fp8Utils, P53ScaledMM, Copied("gfx1x_w8a8_bf16.py", "53")>>)
           EXCEPT !.needs = {"fp8_utils.py", "scaled_mm/triton.py"}]

P54AiterOps == Site("_aiter_ops.py", "54", {"return_on_rdna4()", "_AITER_ENABLED"}, {})
P54ArchInfo ==
    [Site("arch_info.py", "54", {}, {"_LDS_CAP_BYTES"}) EXCEPT
       !.within = "site-packages/aiter",
       !.known = {"gfx1151"}, !.bars = {"_ARCH_TO_DEVICE"}, !.check = "present"]
P54CppItfs ==
    [Site("cpp_itfs/utils.py", "54", {"allowed_archs"}, {}) EXCEPT
       !.within = "site-packages/aiter",
       !.seen = {"54", "gfx1151"}, !.gone = Pass, !.check = ""]
P54VecConvert ==
    [Site("vec_convert.h", "54", {}, {}) EXCEPT
       !.within = "site-packages/aiter", !.check = "present"]
P54 == [Script(54, <<P54AiterOps, P54ArchInfo, P54CppItfs, P54VecConvert>>)
           EXCEPT !.refuses = {<<"arch_info.py", "is_fp4_avail_gfx1151">>}]

P60Utils == [Site("layers/utils.py", "60", {"wvSplitK_ladder"}, {}) EXCEPT
               !.seen = {"60", "elif_m"}]
P60 == Script(60, <<P60Utils>>)

P66Edit == [Site("vit_attn_wrappers.py", "66", {}, {"def_apply_sdpa"}) EXCEPT
              !.guards = {<<"vit_attn_wrappers.py", "current_platform">>}]
P66 == Script(66, <<P66Edit>>)

P67 == Script(67, <<Site("fused_recurrent.py", "67", {},
                         {"BK_BV", "BV", "num_stages"})>>)

(******************************* the models ********************************)
\* The offload of the n-gram table.  Its marker in ple_layer.py ends the
\* script, whatever has become of the two files after it.
P57Table == {"torch_utils_import", "class_NGramEmbedding"}
P57Calls == {"VocabParallelEmbedding", "forward_head", "forward_tail"}
P57Ple ==
    [Site("ple_layer.py", "57", P57Table \cup {"static_forward_context"},
          P57Calls \cup {"return_loaded"})
       EXCEPT !.within = "qwen4_exp", !.again = Done,
              !.seen = {"57", "PLEVocabParallelEmbedding"}]
P57Model ==
    [Site("amd/model.py", "57", {"def_embed_input_ids"},
          {"block_output", "last_layer"})
       EXCEPT !.gone = Pass, !.moved = Pass, !.check = ""]
P57Envs ==
    [Site("envs.py", "57", {"environment_variables"}, {}) EXCEPT
       !.seen = {"57", "VLLM_PLE_CPU_OFFLOAD"}, !.check = ""]
P57 == Script(57, <<P57Ple, P57Model, P57Envs>>)

P58Edit == [Site("mla/rocm_aiter_mla_sparse.py", "58", {"def_use_sparse_triton"},
                 {"plain_decode"}) EXCEPT !.within = "glm5next"]
P58 == Script(58, <<P58Edit>>)

P61Edit == [Site("glm5next/model.py", "61", {"class"}, {"def_load_weights"})
               EXCEPT !.within = "glm5next"]
P61 == Script(61, <<P61Edit>>)

P62Edit == [Site("glm5next/mtp.py", "62", {"import_typing"}, {"quant_config"})
               EXCEPT !.within = "glm5next"]
P62 == Script(62, <<P62Edit>>)

P63Edit ==
    [Site("qsa.py", "63", {}, {"varlen_gate", "supports_quant_query_input"}) EXCEPT
       !.gone = Done, !.seen = {"63", "63_legacy"},
       !.guards = {<<"qsa.py", "import_torch">>, <<"qsa.py", "AttentionType">>,
                   <<"fa_utils.py", "reshape_and_cache_flash">>,
                   <<"flash_attn.py", "guarded_import">>,
                   <<"flash_attn.py", "def_do_kv_cache_update">>}]
P63 == Script(63, <<P63Edit>>)

P68 == Script(68, <<Site("qwen3_next.py", "68",
    {"def_should_replicate", "replicate_shared_expert", "enable_expert_parallel"}, {})>>)

P69Edit == [Site("amd/model.py", "69", {}, {"lm_head"}) EXCEPT
              !.guards = {<<"amd/model.py", "self.quant_config">>}]
P69 == Script(69, <<P69Edit>>)

\* The two paths are constants of the script, below the installed package; a
\* missing file is an exception and a missing anchor of the first an assertion.
P72Next == [Site("installed/qwen3_next.py", "72", {}, {"self.gate"}) EXCEPT
              !.gone = Failed, !.moved = Failed]
P72Indexer == [Site("installed/indexer_qsa.py", "72", {}, {"index_qk_proj"}) EXCEPT
                 !.gone = Failed, !.moved = Pass]
P72 == [Script(72, <<P72Next, P72Indexer>>) EXCEPT !.fixed = TRUE]

P73Edit == Site("qsa_cache.py", "73", {"class_QSAMetadataBuilder"},
                {"build_qsa_metadata", "builder_tail"})
P73 == Script(73, <<P73Edit>>)

(************************ the speculator and timing ************************)
P65Edit == [Site("speculator.py", "65", {}, {"def_init_cudagraph_manager",
                 "draft_decode_graphs"}) EXCEPT !.gone = Done]
P65 == Script(65, <<P65Edit>>)

P74Edit ==
    [Site("speculator.py", "74",
          {"def_generate_draft", "sample_the_draft", "update_the_inputs"}, {})
       EXCEPT !.guards = {<<"speculator.py", "logger">>}]
P74 == Script(74, <<P74Edit>>)

P75Edit == [Site("async_utils.py", "75", {"__init__", "drafter_end"}, {}) EXCEPT
              !.guards = {<<"async_utils.py", "class_StepTimingCollector">>}]
P75 == Script(75, <<P75Edit>>)

P76Edit == Site("model_runner.py", "76",
    {"forward_start()", "is_last_pp_rank", "def_remove_request"}, {})
P76 == Script(76, <<P76Edit>>)

\* In the order of the file names, which is the order apply_all.sh runs them.
Scripts == <<P10, P20, P30, P40, P50, P51, P52, P53, P54, P56, P57, P58, P59,
             P60, P61, P62, P63, P64, P65, P66, P67, P68, P69, P72, P73, P74,
             P75, P76>>

ScriptOf(n) == CHOOSE s \in {Scripts[i] : i \in DOMAIN Scripts} : s.n = n
=============================================================================
