-------------------------- MODULE MCTritonPipeline --------------------------
(* TritonPipeline on one or two run directories, the kernels and the       *)
(* configurations between which the code tells a difference.               *)
EXTENDS TritonPipeline, TLC

CONSTANTS d1, d2

Kind(name, prefill, canonical, override, tilelang) ==
    [name |-> name, prefill |-> prefill, canonical |-> canonical,
     override |-> override, tilelang |-> tilelang]

(* A kernel nothing deterministic is known of; one whose provider has an   *)
(* intent; one that normalisation overrides; one with a TileLang intent;   *)
(* one the descriptor determines; the two special kernels.                 *)
MCKernels ==
    {Kind("plain", FALSE, FALSE, FALSE, FALSE), Kind("plain", FALSE, TRUE, FALSE, FALSE),
     Kind("plain", FALSE, TRUE, TRUE, FALSE), Kind("plain", FALSE, FALSE, FALSE, TRUE),
     Kind("plain", TRUE, FALSE, FALSE, FALSE),
     Kind("upsample", FALSE, FALSE, FALSE, FALSE), Kind("attn", FALSE, FALSE, FALSE, FALSE)}

Conf(path, mode, cache, fallback, strict, prefer, macroLLM) ==
    [policy |-> make_execution_policy(path, mode, cache, fallback),
     strict |-> strict, prefer |-> prefer, macroLLM |-> macroLLM]

(* Strict runs under the three modes; runs outside strict mode, with the   *)
(* special kernels' LLM switch on or off, with the provider preferred, and *)
(* without the shared cache; and the traditional path.                     *)
MCConfigs ==
    {Conf("intentir", m, TRUE, "deterministic", TRUE, TRUE, TRUE) : m \in INTENTIR_MODE_VALUES}
    \cup {Conf("intentir", "auto", TRUE, "deterministic", FALSE, FALSE, l) : l \in BOOLEAN}
    \cup {Conf("intentir", "force_compile", TRUE, "deterministic", FALSE, TRUE, TRUE),
          Conf("intentir", "force_cache", FALSE, "strict", FALSE, TRUE, TRUE),
          Conf("traditional", "auto", FALSE, "deterministic", FALSE, TRUE, TRUE)}

(* Two runs that share the cache, replaying or regenerating.               *)
SharingConfigs ==
    {Conf("intentir", m, TRUE, "strict", TRUE, TRUE, TRUE) : m \in INTENTIR_MODE_VALUES}

PlainKernel == {Kind("plain", FALSE, FALSE, FALSE, FALSE)}

OneDir  == {d1}
TwoDirs == {d1, d2}

(* The two directories play the same part.                                 *)
Dirs == Permutations(TwoDirs)
==============================================================================
