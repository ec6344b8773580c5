--------------------------- MODULE TritonPipeline ---------------------------
(***************************************************************************)
(* run_pipeline_for_spec (pipeline/triton/core.py): the run that lifts one *)
(* Triton kernel to an intent.  A run proposes a candidate (from a cached  *)
(* seed, the LLM or a deterministic source), validates it against the      *)
(* certificate and against source execution, repairs it at most twice,     *)
(* promotes it to a seed, and emits MLIR from it.  Runs of one kernel      *)
(* follow each other in the directories Dir, sharing one seed cache; a run *)
(* may raise or be killed at any stage.                                    *)
(*                                                                         *)
(* A candidate is named for the place that produced it; `cand' is the      *)
(* intent, `exp' the intent whose macro expansion is in cand_expanded.     *)
(* They are the same intent unless a repair stopped between the two        *)
(* assignments.                                                            *)
(*                                                                         *)
(* X_fault is a faulty form of the definition X it precedes; nothing uses  *)
(* it.                                                                     *)
(***************************************************************************)
EXTENDS ExecutionPolicy, Naturals

CONSTANTS
    Dir,       \* run directories (out_dir)
    Kernels,   \* the kernels to lift: what the deterministic sources know of each
    Configs    \* how runs may be configured: policy and environment switches

None == "none"

(* name: the two kernels the code treats specially, or any other.          *)
(* prefill: descriptor evidence determines the intent.  canonical: the     *)
(* provider has a deterministic intent.  override: normalisation replaces  *)
(* every candidate by it.  tilelang: a deterministic TileLang intent.      *)
KernelKind ==
    {k \in [name : {"plain", "upsample", "attn"}, prefill : BOOLEAN,
            canonical : BOOLEAN, override : BOOLEAN, tilelang : BOOLEAN] :
        k.override => k.canonical}

(* strict: INTENTIR_STRICT_LLM_ONLY.  prefer: INTENTIR_TRITON_FORCE_       *)
(* COMPILE_PREFER_PROVIDER_DETERMINISTIC.  macroLLM: the USE_LLM switch of *)
(* the two special kernels.                                                *)
Config == [policy : Policies, strict : BOOLEAN, prefer : BOOLEAN, macroLLM : BOOLEAN]

(* The shared cache is a directory of its own.                             *)
CacheDir == "cache"

ASSUME DirAssumption == CacheDir \notin Dir
ASSUME KernelsAssumption == Kernels \subseteq KernelKind
ASSUME ConfigsAssumption == Configs \subseteq Config

Cand == {"seed", "prefill", "canonical", "macro", "tilelang",
         "llm1", "llm2", "llm6", "llm7"}

(* FULL and PARTIAL contracts gate nothing differently in a run.           *)
Level == {"IN_SCOPE", "OUT_OF_SCOPE"}

(* A seed file: torn (a write that did not finish), without the quality    *)
(* flags that make it trusted, or trusted.  `src' is the intent it holds;  *)
(* diffed and checked are history: whether this very intent had passed the *)
(* diff, and static validation, when the file was written.                 *)
Seed == [status : {"absent", "torn", "untrusted", "trusted"},
         src : Cand \cup {None}, diffed : BOOLEAN, checked : BOOLEAN]
NoSeed   == [status |-> "absent", src |-> None, diffed |-> FALSE, checked |-> FALSE]
TornSeed == [NoSeed EXCEPT !.status = "torn"]
OldSeed  == [NoSeed EXCEPT !.status = "untrusted", !.src = "seed"]

(* A verdict of the report; `on' is history: the intent it was reached on. *)
Verdict == [is : {"absent", "ok", "fail", "skipped"}, on : Cand \cup {None}]
NoVerdict == [is |-> "absent", on |-> None]
Judge_error(ok, c) == [is |-> IF ok THEN "ok" ELSE "error", on |-> c]
Judge(ok, c) == [is |-> IF ok THEN "ok" ELSE "fail", on |-> c]

VARIABLES
    kernel,       \* the kernel of this behaviour
    pc, dir, cfg, \* stage of the run, its directory and configuration
    cert,         \* which certificate stage 6 reads: none, v1, v2 or v2 without contract
    contract,     \* level of report["contract"]
    cand, exp,    \* cand and cand_expanded
    run,          \* cand_for_run
    llmCalls, llmGenerated,
    cacheUsed, fallbackUsed, repairAllowed,
    sv, diff,     \* report["static_validation"], report["diff"]
    diffsIn,      \* the local diffs_in: all ok, some failed, or no result
    extra,        \* which of stage C and the mutation run were executed
    emitted,      \* the intents MLIR emission and the org sidecar were given
    runSeed, cacheSeed

storeVars == <<runSeed, cacheSeed>>
setupVars == <<kernel, dir, cfg>>
certVars  == <<cert, contract>>
candVars  == <<cand, exp, run>>
flagVars  == <<llmCalls, llmGenerated, cacheUsed, fallbackUsed, repairAllowed>>
checkVars == <<sv, diff, diffsIn, extra>>
vars == <<pc, setupVars, certVars, candVars, flagVars, checkVars, emitted, storeVars>>

Rest == {"idle", "done", "raised", "killed"}
Stages == {"launch", "certify", "traditional", "syncin", "prefill", "replay",
           "special", "llm", "fallback", "prepare", "static", "staticRepair",
           "diff", "diffRepair", "providerRepair", "macroRepair", "stageC",
           "save", "syncout", "emit"}

Policy     == intentir_seed_policy(cfg.policy)
Shared     == cfg.policy.seed_cache_dir
ShouldTryLLM   == Policy \in {"auto", "force_llm"}
ShouldTryCache == Policy \in {"auto", "force_cache"}
HasSeed(s) == s.status # "absent"

TypeOK ==
    /\ kernel \in Kernels
    /\ pc \in Rest \cup Stages
    /\ dir \in Dir
    /\ cfg \in Configs
    /\ cert \in {"none", "v1", "v2bare", "v2"}
    /\ contract \in Level \cup {None}
    /\ cand \in Cand \cup {None} /\ exp \in Cand \cup {None} /\ run \in Cand \cup {None}
    /\ llmCalls \in Nat /\ llmGenerated \in BOOLEAN
    /\ cacheUsed \in BOOLEAN /\ fallbackUsed \in BOOLEAN /\ repairAllowed \in BOOLEAN
    /\ sv \in Verdict /\ diff \in Verdict
    /\ diffsIn \in {"empty", "ok", "fail"}
    /\ extra \subseteq {"stageC", "mutation"}
    /\ emitted \in [mlir : Cand \cup {None}, org : Cand \cup {None}]
    /\ runSeed \in [Dir -> Seed]
    /\ cacheSeed \in Seed

(* The shared cache may start with a seed an older tool left there.        *)
Init ==
    /\ kernel \in Kernels
    /\ pc = "idle" /\ dir \in Dir /\ cfg \in Configs
    /\ cert = "none" /\ contract = None
    /\ cand = None /\ exp = None /\ run = None
    /\ llmCalls = 0 /\ llmGenerated = FALSE
    /\ cacheUsed = FALSE /\ fallbackUsed = FALSE /\ repairAllowed = FALSE
    /\ sv = NoVerdict /\ diff = NoVerdict
    /\ diffsIn = "empty" /\ extra = {}
    /\ emitted = [mlir |-> None, org |-> None]
    /\ runSeed = [d \in Dir |-> NoSeed]
    /\ cacheSeed \in {NoSeed, OldSeed}

-----------------------------------------------------------------------------
(* Stages 1 to 4: policy, launch, certificate and contract.                *)

(* The locals of a run and its report, as a run finds or leaves them.      *)
Forget ==
    /\ cert' = "none" /\ contract' = None
    /\ cand' = None /\ exp' = None /\ run' = None
    /\ llmCalls' = 0 /\ llmGenerated' = FALSE
    /\ cacheUsed' = FALSE /\ fallbackUsed' = FALSE /\ repairAllowed' = FALSE
    /\ sv' = NoVerdict /\ diff' = NoVerdict
    /\ diffsIn' = "empty" /\ extra' = {}
    /\ emitted' = [mlir |-> None, org |-> None]

StartRun(d, c) ==
    /\ pc \in Rest
    /\ pc' = "launch" /\ dir' = d /\ cfg' = c
    /\ Forget
    /\ UNCHANGED <<kernel, storeVars>>

(* The kernel runs once, for the TTIR and the baseline.                    *)
Launch ==
    /\ pc = "launch"
    /\ pc' = "certify"
    /\ UNCHANGED <<setupVars, certVars, candVars, flagVars, checkVars, emitted, storeVars>>

(* Without TTIR there is no certificate.  With it, certificate v2 may fail *)
(* before it is built (v1 stays), or after it but before its contract is   *)
(* attached (v2bare); the report then falls back to the legacy contract.   *)
Certify ==
    /\ pc = "certify"
    /\ pc' = IF use_intent_ir(cfg.policy) THEN "syncin" ELSE "traditional"
    /\ \/ cert' = "none" /\ contract' = None
       \/ cert' \in {"v1", "v2bare", "v2"} /\ contract' \in Level
    /\ UNCHANGED <<setupVars, candVars, flagVars, checkVars, emitted, storeVars>>

(* The provider path: nothing is lifted and the diff is reported skipped.  *)
TraditionalReturn ==
    /\ pc = "traditional"
    /\ pc' = "done"
    /\ diff' = [is |-> "skipped", on |-> None]
    /\ UNCHANGED <<setupVars, certVars, candVars, flagVars, sv, diffsIn, extra,
                   emitted, storeVars>>
-----------------------------------------------------------------------------
(* Stage 5: where the first candidate comes from.                          *)

Propose(c) == cand' = c /\ exp' = c /\ UNCHANGED run

(* The shared seed is copied into a run directory that has none.           *)
SyncIn ==
    /\ pc = "syncin"
    /\ LET skip == ~Shared \/ Policy = "force_llm" \/ HasSeed(runSeed[dir])
           hit  == ~skip /\ HasSeed(cacheSeed)
       IN  /\ runSeed' = IF hit THEN [runSeed EXCEPT ![dir] = cacheSeed] ELSE runSeed
           /\ pc' = IF ~skip /\ ~hit /\ Policy = "force_cache" THEN "raised" ELSE "prefill"
    /\ UNCHANGED <<setupVars, certVars, candVars, flagVars, checkVars, emitted, cacheSeed>>

(* Outside strict mode, force_llm prefers the provider's own intent.       *)
PrefillProvider ==
    /\ pc = "prefill"
    /\ pc' = "replay"
    /\ IF /\ ~cfg.strict /\ cfg.prefer /\ Policy = "force_llm"
          /\ allow_deterministic_fallback(cfg.policy) /\ kernel.canonical
       THEN Propose("canonical") /\ fallbackUsed' = TRUE
       ELSE UNCHANGED <<candVars, fallbackUsed>>
    /\ UNCHANGED <<setupVars, certVars, llmCalls, llmGenerated, cacheUsed,
                   repairAllowed, checkVars, emitted, storeVars>>

(* _is_seed_trusted_for_auto: the file parses and both quality flags are   *)
(* set.                                                                    *)
IsSeedTrustedForAuto_parses(s) == s.status \in {"untrusted", "trusted"}
IsSeedTrustedForAuto(s) == s.status = "trusted"

(* Where the descriptor determines the intent, it replaces an old seed's.  *)
RepairCandidateForDescriptor(c) == IF kernel.prefill THEN "prefill" ELSE c

(* Replay the run directory's seed.  auto wants it trusted; force_cache    *)
(* takes any that parses and cannot do without one.                        *)
ReplaySeed ==
    /\ pc = "replay"
    /\ LET seed == runSeed[dir]
           present == ShouldTryCache /\ HasSeed(seed)
           allowed == present /\ (Policy = "auto" => IsSeedTrustedForAuto(seed))
           raises  == \/ allowed /\ seed.status = "torn"
                      \/ ~present /\ Policy = "force_cache"
       IN  /\ pc' = IF raises THEN "raised" ELSE "special"
           /\ IF allowed /\ ~raises
              THEN Propose(RepairCandidateForDescriptor("seed")) /\ cacheUsed' = TRUE
              ELSE UNCHANGED <<candVars, cacheUsed>>
    /\ UNCHANGED <<setupVars, certVars, llmCalls, llmGenerated, fallbackUsed,
                   repairAllowed, checkVars, emitted, storeVars>>

(* A kernel the descriptor determines, or a special kernel whose LLM use   *)
(* is switched off, never reaches the LLM.                                 *)
SpecialCandidate ==
    /\ pc = "special"
    /\ LET macroOff == /\ ~cfg.strict /\ kernel.name # "plain"
                       /\ Policy # "force_llm" /\ ~cfg.macroLLM
           source == IF macroOff THEN "macro" ELSE IF kernel.prefill THEN "prefill" ELSE None
       IN  IF cand # None
           THEN pc' = "prepare" /\ UNCHANGED <<candVars, fallbackUsed>>
           ELSE IF source # None
           THEN pc' = "prepare" /\ Propose(source) /\ fallbackUsed' = TRUE
           ELSE /\ pc' = IF ShouldTryLLM THEN "llm" ELSE "fallback"
                /\ UNCHANGED <<candVars, fallbackUsed>>
    /\ UNCHANGED <<setupVars, certVars, llmCalls, llmGenerated, cacheUsed,
                   repairAllowed, checkVars, emitted, storeVars>>

LLMAttempts == 2

(* One of the two attempts.  The proposal may also fail after it was       *)
(* received (macro expansion, printing): it is then dropped, but the run   *)
(* remembers that an LLM generated something.                              *)
LLMAttempt ==
    /\ pc = "llm"
    /\ llmCalls' = llmCalls + 1
    /\ \/ /\ Propose(IF llmCalls = 0 THEN "llm1" ELSE "llm2")
          /\ llmGenerated' = TRUE
          /\ pc' = "prepare"
       \/ /\ llmGenerated' \in {llmGenerated, TRUE}
          /\ pc' = IF llmCalls' < LLMAttempts THEN "llm" ELSE "fallback"
          /\ UNCHANGED candVars
    /\ UNCHANGED <<setupVars, certVars, cacheUsed, fallbackUsed, repairAllowed,
                   checkVars, emitted, storeVars>>

(* No proposal at all: strict mode gives up, otherwise a deterministic     *)
(* intent stands in.                                                       *)
DeterministicFallback ==
    /\ pc = "fallback"
    /\ LET source == IF kernel.name # "plain" THEN "macro"
                     ELSE IF kernel.canonical THEN "canonical"
                     ELSE IF kernel.tilelang THEN "tilelang" ELSE None
       IN  IF cfg.strict \/ source = None
           THEN pc' = "raised" /\ UNCHANGED <<candVars, fallbackUsed>>
           ELSE pc' = "prepare" /\ Propose(source) /\ fallbackUsed' = TRUE
    /\ UNCHANGED <<setupVars, certVars, llmCalls, llmGenerated, cacheUsed,
                   repairAllowed, checkVars, emitted, storeVars>>

(* maybe_normalize_candidate.                                              *)
Normalized(c) == IF kernel.override THEN "canonical" ELSE c

(* repair_allowed: only an LLM proposal is repaired by the LLM.            *)
RepairAllowed_cached == ShouldTryLLM /\ ~fallbackUsed
RepairAllowed_fallback == ShouldTryLLM /\ ~cacheUsed
RepairAllowed == ShouldTryLLM /\ ~cacheUsed /\ ~fallbackUsed

Prepare ==
    /\ pc = "prepare"
    /\ Propose(Normalized(cand))
    /\ repairAllowed' = RepairAllowed
    /\ pc' = IF cert = "none" THEN "diff" ELSE "static"
    /\ UNCHANGED <<setupVars, certVars, llmCalls, llmGenerated, cacheUsed,
                   fallbackUsed, checkVars, emitted, storeVars>>

-----------------------------------------------------------------------------
(* Stage 6: static validation of the expanded intent, and one repair.      *)

(* The verdicts static_validate can reach: an out-of-scope contract fails  *)
(* every intent, when the certificate it is given carries the contract.    *)
StaticOutcome_unscoped == BOOLEAN
StaticOutcome ==
    IF cert \in {"v1", "v2"} /\ contract = "OUT_OF_SCOPE" THEN {FALSE} ELSE BOOLEAN

StaticValidate ==
    /\ pc = "static"
    /\ \E ok \in StaticOutcome :
          /\ sv' = Judge(ok, exp)
          /\ pc' = IF repairAllowed /\ ~ok THEN "staticRepair" ELSE "diff"
    /\ UNCHANGED <<setupVars, certVars, candVars, flagVars, diff, diffsIn, extra,
                   emitted, storeVars>>

(* The repair assigns as it goes and swallows every exception, so it can   *)
(* stop after the call, after cand, after cand_expanded, or finish.        *)
StaticRepair ==
    /\ pc = "staticRepair"
    /\ pc' = "diff"
    /\ llmCalls' = llmCalls + 1
    /\ \/ UNCHANGED <<candVars, llmGenerated, sv>>
       \/ /\ llmGenerated' = TRUE
          /\ cand' = "llm6"
          /\ UNCHANGED <<exp, run, sv>>
       \/ /\ llmGenerated' = TRUE
          /\ \E c \in {"llm6", Normalized("llm6")} : Propose(c)
          /\ UNCHANGED sv
       \/ /\ llmGenerated' = TRUE
          /\ Propose(Normalized("llm6"))
          /\ \E ok \in StaticOutcome : sv' = Judge(ok, exp')
    /\ UNCHANGED <<setupVars, certVars, cacheUsed, fallbackUsed, repairAllowed,
                   diff, diffsIn, extra, emitted, storeVars>>

-----------------------------------------------------------------------------
(* Stage 7: agreement with source execution, and the repairs after it.     *)

(* run_diff on a set of cases: results that all agree, some that do not,   *)
(* or no result when there was no case.                                    *)
DiffOutcome == {"ok", "fail", "empty"}

Diff ==
    /\ pc = "diff"
    /\ run' = exp
    /\ \E out \in DiffOutcome :
          /\ diffsIn' = out
          /\ diff' = Judge(out = "ok", exp)
          /\ pc' = IF repairAllowed /\ out = "fail" THEN "diffRepair" ELSE "providerRepair"
    /\ UNCHANGED <<setupVars, certVars, cand, exp, flagVars, sv, extra, emitted, storeVars>>

(* One LLM repair with the counterexample as feedback; it too swallows     *)
(* exceptions: in the call, before the candidate is taken, before the      *)
(* candidate becomes the one to run, in the new diff.  An empty re-run     *)
(* leaves the report's verdict as it was.  Static validation is not run    *)
(* again.                                                                  *)
DiffRepair ==
    /\ pc = "diffRepair"
    /\ pc' = "providerRepair"
    /\ llmCalls' = llmCalls + 1
    /\ LET fix == Normalized("llm7")
       IN  \/ /\ llmGenerated' \in {llmGenerated, TRUE}
              /\ UNCHANGED <<candVars, diff, diffsIn>>
           \/ /\ llmGenerated' = TRUE
              /\ cand' = fix /\ exp' = fix
              /\ run' \in {run, fix}
              /\ UNCHANGED <<diff, diffsIn>>
           \/ /\ llmGenerated' = TRUE
              /\ cand' = fix /\ exp' = fix /\ run' = fix
              /\ \E out \in DiffOutcome :
                    /\ diffsIn' = out
                    /\ diff' = IF out = "empty" THEN diff ELSE Judge(out = "ok", fix)
    /\ UNCHANGED <<setupVars, certVars, cacheUsed, fallbackUsed, repairAllowed,
                   sv, extra, emitted, storeVars>>

(* A deterministic intent that agrees replaces the failed candidate.       *)
Replace_keepsRun(c) ==
    cand' = c /\ exp' = c /\ diffsIn' = "ok" /\ diff' = Judge(TRUE, c) /\ UNCHANGED run
Replace_keepsCand(c) ==
    run' = c /\ diffsIn' = "ok" /\ diff' = Judge(TRUE, c) /\ UNCHANGED <<cand, exp>>
Replace(c) ==
    /\ cand' = c /\ exp' = c /\ run' = c
    /\ diffsIn' = "ok" /\ diff' = Judge(TRUE, c)

ProviderRepair_untilOk ==
    /\ pc = "providerRepair"
    /\ \/ /\ ~cfg.strict /\ diffsIn = "fail" /\ kernel.canonical
          /\ Replace("canonical")
       \/ UNCHANGED <<candVars, diff, diffsIn>>
    /\ pc' = IF diffsIn' = "fail" THEN "providerRepair" ELSE "macroRepair"
    /\ UNCHANGED <<setupVars, certVars, flagVars, sv, extra, emitted, storeVars>>

ProviderRepair ==
    /\ pc = "providerRepair"
    /\ pc' = "macroRepair"
    /\ \/ /\ ~cfg.strict /\ diffsIn = "fail" /\ kernel.canonical
          /\ Replace("canonical")
       \/ UNCHANGED <<candVars, diff, diffsIn>>
    /\ UNCHANGED <<setupVars, certVars, flagVars, sv, extra, emitted, storeVars>>

MacroRepair ==
    /\ pc = "macroRepair"
    /\ pc' = "stageC"
    /\ \/ /\ ~cfg.strict /\ diffsIn = "fail" /\ kernel.name = "upsample"
          /\ cfg.macroLLM /\ llmGenerated
          /\ Replace("macro")
          /\ fallbackUsed' = TRUE
       \/ UNCHANGED <<candVars, diff, diffsIn, fallbackUsed>>
    /\ UNCHANGED <<setupVars, certVars, llmCalls, llmGenerated, cacheUsed,
                   repairAllowed, sv, extra, emitted, storeVars>>

-----------------------------------------------------------------------------
(* Stage C, promotion to a seed, and emission.                             *)

(* Metamorphic and bounded-exhaustive runs, and the mutation run when      *)
(* there is a certificate; the caller may disable either.                  *)
StageCRuns_empty ==
    IF diffsIn = "fail" THEN {} ELSE IF cert = "none" THEN {"stageC"} ELSE {"stageC", "mutation"}
StageCRuns ==
    IF diffsIn # "ok" THEN {} ELSE IF cert = "none" THEN {"stageC"} ELSE {"stageC", "mutation"}

StageC ==
    /\ pc = "stageC"
    /\ pc' = "save"
    /\ extra' \in SUBSET StageCRuns
    /\ UNCHANGED <<setupVars, certVars, candVars, flagVars, sv, diff, diffsIn,
                   emitted, storeVars>>

Promotable_undiffed  == llmGenerated /\ diffsIn # "fail" /\ sv.is = "ok" /\ ~fallbackUsed
Promotable_unchecked == llmGenerated /\ diff.is = "ok" /\ ~fallbackUsed
Promotable == llmGenerated /\ diff.is = "ok" /\ sv.is = "ok" /\ ~fallbackUsed

SavedSeed ==
    [status |-> "trusted", src |-> cand,
     diffed |-> diff = Judge(TRUE, cand), checked |-> sv = Judge(TRUE, cand)]

(* _save_intent_seed rewrites the file in place: an exception can leave it *)
(* untouched or torn, and either way the run goes on.                      *)
SaveSeed ==
    /\ pc = "save"
    /\ pc' = "syncout"
    /\ IF Promotable
       THEN \E s \in {SavedSeed, runSeed[dir], TornSeed} :
               runSeed' = [runSeed EXCEPT ![dir] = s]
       ELSE UNCHANGED runSeed
    /\ UNCHANGED <<setupVars, certVars, candVars, flagVars, checkVars, emitted, cacheSeed>>

(* Whatever seed the run directory holds is copied over the shared one,    *)
(* whether or not this run wrote it; a failing copy is swallowed.          *)
SyncOut ==
    /\ pc = "syncout"
    /\ pc' = "emit"
    /\ IF Shared /\ ShouldTryLLM /\ HasSeed(runSeed[dir])
       THEN cacheSeed' \in {runSeed[dir], cacheSeed, TornSeed}
       ELSE UNCHANGED cacheSeed
    /\ UNCHANGED <<setupVars, certVars, candVars, flagVars, checkVars, emitted, runSeed>>

(* The org sidecar is given cand_for_run's intent, MLIR emission cand's.   *)
Emit ==
    /\ pc = "emit"
    /\ pc' = "done"
    /\ emitted' = [mlir |-> cand, org |-> run]
    /\ UNCHANGED <<setupVars, certVars, candVars, flagVars, checkVars, storeVars>>

-----------------------------------------------------------------------------
(* Failures.                                                               *)

(* Stages with calls no try protects.  The exception leaves the run, and   *)
(* its report is lost with it.                                             *)
Unguarded == {"launch", "certify", "syncin", "prefill", "special", "fallback",
              "prepare", "static", "diff", "stageC", "emit"}

Raise ==
    /\ \/ pc \in Unguarded
       \/ pc = "replay" /\ ShouldTryCache /\ HasSeed(runSeed[dir])
    /\ pc' = "raised"
    /\ Forget
    /\ UNCHANGED <<setupVars, storeVars>>

(* The process dies; a seed file it was writing is left torn.              *)
Kill ==
    /\ pc \in Stages
    /\ pc' = "killed"
    /\ \/ UNCHANGED storeVars
       \/ /\ pc = "syncin" /\ Shared /\ Policy # "force_llm"
          /\ ~HasSeed(runSeed[dir]) /\ HasSeed(cacheSeed)
          /\ runSeed' = [runSeed EXCEPT ![dir] = TornSeed]
          /\ UNCHANGED cacheSeed
       \/ /\ pc = "save" /\ Promotable
          /\ runSeed' = [runSeed EXCEPT ![dir] = TornSeed]
          /\ UNCHANGED cacheSeed
       \/ /\ pc = "syncout" /\ Shared /\ ShouldTryLLM /\ HasSeed(runSeed[dir])
          /\ cacheSeed' = TornSeed
          /\ UNCHANGED runSeed
    /\ Forget
    /\ UNCHANGED setupVars

-----------------------------------------------------------------------------
Step ==
    \/ Launch \/ Certify \/ TraditionalReturn
    \/ SyncIn \/ PrefillProvider \/ ReplaySeed \/ SpecialCandidate
    \/ LLMAttempt \/ DeterministicFallback \/ Prepare
    \/ StaticValidate \/ StaticRepair
    \/ Diff \/ DiffRepair \/ ProviderRepair \/ MacroRepair
    \/ StageC \/ SaveSeed \/ SyncOut \/ Emit

Next ==
    \/ \E d \in Dir, c \in Configs : StartRun(d, c)
    \/ Step \/ Raise \/ Kill

Spec == Init /\ [][Next]_vars

(* A started run keeps executing: it is one thread that blocks on nothing. *)
FairSpec == Spec /\ WF_vars(Step)

-----------------------------------------------------------------------------
(* Properties.                                                             *)

(* A passing diff in the report is about the intent the run goes on with:  *)
(* no repair, finished or not, separates the two.                          *)
PassingDiffIsOfRun == diff.is = "ok" => diff.on = run

(* Stage C and the mutation run only ever exercise an intent that agreed   *)
(* with source execution, and a mutation run has a certificate to kill by. *)
VerificationFollowsAgreement ==
    /\ extra # {} => diff.is = "ok" /\ diff.on = run
    /\ "mutation" \in extra => cert # "none"

Seeds == {runSeed[d] : d \in Dir} \cup {cacheSeed}

(* Whatever raises, is killed or is copied, a seed marked trusted holds an *)
(* intent that itself agreed with source execution in the run that wrote   *)
(* it, never one a half-done repair left behind.                           *)
TrustedSeedAgreed == \A s \in Seeds : s.status = "trusted" => s.diffed

(* A trusted seed whose intent was not replaced after the diff was itself  *)
(* statically validated.                                                   *)
UnrepairedSeedChecked ==
    \A s \in Seeds :
        s.status = "trusted" /\ s.src \in {"llm1", "llm2", "llm6"} => s.checked

(* In auto mode a run replays only what an earlier run found to agree      *)
(* (the docstring of _is_seed_trusted_for_auto); what the descriptor then  *)
(* puts in its place comes from no seed.                                   *)
AutoReplaysAgreed == cacheUsed /\ Policy = "auto" => runSeed[dir].diffed

(* A run that replays a seed, or is forced to, never calls the LLM.        *)
ReplayIsLLMFree == cacheUsed \/ ~ShouldTryLLM => llmCalls = 0 /\ ~llmGenerated

(* Both verdicts of a finished run passing means the MLIR was emitted from *)
(* the intent that was executed.                                           *)
AcceptedEmission ==
    pc = "done" /\ diff.is = "ok" /\ sv.is = "ok" => emitted.mlir = diff.on

(* Once a deterministic intent stands in, the run makes no further LLM     *)
(* call and writes no seed of its own.                                     *)
FallbackEndsLLM ==
    [][fallbackUsed /\ pc' \in Stages \cup {"done"} /\ pc \in Stages =>
          /\ llmCalls' = llmCalls
          /\ pc = "save" => runSeed' = runSeed]_vars

(* A seed is only ever promoted for a kernel with a certificate whose      *)
(* contract, when the certificate carries it, is not out of scope, even    *)
(* if the promoted intent is not the one that was statically validated.    *)
PromotionInScope ==
    [][pc = "save" /\ runSeed' # runSeed =>
          /\ cert # "none"
          /\ cert \in {"v1", "v2"} => contract # "OUT_OF_SCOPE"]_vars

(* The seeds as certified records, and the runs that write them as the     *)
(* steps of CertifiedStore: the only new record is the intent that the     *)
(* diff of the same run accepted.                                          *)
Held(s) == IF s.status = "absent" THEN None
           ELSE IF s.status = "trusted" THEN s.src ELSE "junk"

Certified == INSTANCE CertifiedStore WITH
    Place    <- Dir \cup {CacheDir},
    Artifact <- Cand,
    Junk     <- "junk",
    agreed   <- IF diff.is = "ok" THEN diff.on ELSE None,
    store    <- [p \in Dir \cup {CacheDir} |->
                    IF p = CacheDir THEN Held(cacheSeed) ELSE Held(runSeed[p])]

StoresOnlyCertified == Certified!Spec

(* Every run ends.                                                         *)
RunEnds == pc = "launch" ~> pc \in Rest

(* What the docs say and the code does not do.                             *)

(* "Only replay cache in auto mode when previous run proved it correct":   *)
(* trusted seeds were statically validated as well.                        *)
TrustedSeedChecked == \A s \in Seeds : s.status = "trusted" => s.checked
==============================================================================
