--------------------------- MODULE ExecutionPolicy ---------------------------
(***************************************************************************)
(* The execution-path policy of a Triton frontend run                      *)
(* (pipeline/triton/execution_policy.py): which of the two paths a run     *)
(* takes, where its intent comes from, and what a cache miss may do.       *)
(***************************************************************************)

EXECUTION_PATH_VALUES   == {"traditional", "intentir"}
INTENTIR_MODE_VALUES    == {"auto", "force_compile", "force_cache"}
FALLBACK_POLICY_VALUES  == {"deterministic", "strict"}
SEED_POLICY_VALUES      == {"auto", "force_llm", "force_cache"}

(* The dataclass; seed_cache_dir is reduced to whether one is configured.  *)
ExecutionPathPolicy ==
    [path : EXECUTION_PATH_VALUES, intentir_mode : INTENTIR_MODE_VALUES,
     seed_cache_dir : BOOLEAN, fallback_policy : FALLBACK_POLICY_VALUES]

use_intent_ir(p) == p.path = "intentir"

intentir_seed_policy(p) ==
    IF ~use_intent_ir(p) \/ p.intentir_mode = "auto" THEN "auto"
    ELSE IF p.intentir_mode = "force_compile" THEN "force_llm" ELSE "force_cache"

use_llm(p) == use_intent_ir(p) /\ intentir_seed_policy(p) # "force_cache"

allow_deterministic_fallback(p) == p.fallback_policy = "deterministic"

(* The arguments make_execution_policy accepts: everything else raises.    *)
MakesPolicy(path, mode, fallback) ==
    /\ path \in EXECUTION_PATH_VALUES
    /\ mode \in INTENTIR_MODE_VALUES
    /\ fallback \in FALLBACK_POLICY_VALUES
    /\ path = "traditional" => mode = "auto"

make_execution_policy(path, mode, cacheDir, fallback) ==
    [path |-> path, intentir_mode |-> mode,
     seed_cache_dir |-> cacheDir, fallback_policy |-> fallback]

(* Every policy a caller can build.                                        *)
Policies ==
    {p \in ExecutionPathPolicy : MakesPolicy(p.path, p.intentir_mode, p.fallback_policy)}

(* The four legacy switches of run_pipeline_for_spec as a policy; with     *)
(* use_llm off, "auto" historically meant "force_cache".                   *)
LegacyMode(llm, seedPolicy) ==
    IF seedPolicy = "force_llm" THEN "force_compile"
    ELSE IF seedPolicy = "auto" /\ llm THEN "auto" ELSE "force_cache"

make_policy_from_legacy_flags(useIntentIr, llm, seedPolicy, detFallback) ==
    LET fallback == IF detFallback THEN "deterministic" ELSE "strict"
    IN  IF useIntentIr
        THEN make_execution_policy("intentir", LegacyMode(llm, seedPolicy), FALSE, fallback)
        ELSE make_execution_policy("traditional", "auto", FALSE, fallback)
==============================================================================
