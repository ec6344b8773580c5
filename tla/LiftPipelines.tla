---------------------------- MODULE LiftPipelines ----------------------------
(***************************************************************************)
(* run_pipeline_for_spec of the two other frontends, pipeline/tilelang/     *)
(* core.py and pipeline/cuda/core.py.  Each is a pipeline of its own: no    *)
(* seeds, one LLM proposal, at most two repairs that swallow every          *)
(* exception, and for CUDA a deterministic intent as a last resort.  Runs   *)
(* follow each other in one directory, in which the CUDA pipeline keeps the *)
(* baseline of the kernel's source; the source may be edited in between,    *)
(* and a run may raise or be killed at any stage.                          *)
(*                                                                         *)
(* The TileLang runtime may give way in the middle of a comparison, which   *)
(* then goes on against the numpy reference.                               *)
(***************************************************************************)
EXTENDS Naturals

CONSTANTS
    Configs,    \* how runs may be configured
    MaxEdits    \* bound: how often the kernel's source changes

None == "none"
Frontends == {"tilelang", "cuda"}

(* strict: INTENTIR_STRICT_LLM_ONLY.  runtime: the TileLang runtime is      *)
(* asked for and supports the kernel.  reuse: INTENTIR_CUDA_REUSE_BASELINE_ *)
(* NPZ.  net: a kernel with a deterministic intent to fall back on.        *)
Config == [frontend : Frontends, llm : BOOLEAN, strict : BOOLEAN, runtime : BOOLEAN,
           reuse : BOOLEAN, net : BOOLEAN]
ASSUME ConfigsAssumption == Configs \subseteq Config
ASSUME MaxEditsAssumption == MaxEdits \in Nat

(* An intent is named for the place that produced it.                      *)
Cand == {"llm", "builder", "static", "dynamic", "fallback"}
References == {"runtime", "numpy"}
Sources == {"tilelang_runtime", "numpy_reference", "numpy_reference_fallback",
            "mixed_runtime_fallback", "npz_cache", "cuda_runtime"}

(* A verdict of the report.  `on' and `against' are history: the intent it  *)
(* is about, and the references that intent was compared with.             *)
Verdict == [is : {"absent", "ok", "fail"}, on : Cand \cup {None}, against : SUBSET References]
NoVerdict == [is |-> "absent", on |-> None, against |-> {}]
Judge(ok, c, refs) == [is |-> IF ok THEN "ok" ELSE "fail", on |-> c, against |-> refs]

Versions == 0 .. MaxEdits
Absent == MaxEdits + 1      \* no file
Torn == MaxEdits + 2        \* a file that does not parse
Files == Versions \cup {Absent, Torn}

VARIABLES
    pc, cfg,
    version,            \* which text the kernel's source has
    npz, meta,          \* of which source .baseline.npz and .baseline.meta.json are
    baseline,           \* of which source baseline_io is
    source,             \* baseline_source
    recorded,           \* report["baseline"]["source"]
    available,          \* runtime_available
    level,              \* contract.level
    cand, exp, run,     \* cand, cand_expanded, cand_for_run
    sv, diff,           \* report["static_validation"], report["diff"]
    diffsIn,            \* diffs_in: all ok, some failed, or no result
    llmCalls,
    extra,              \* which of stage C and the mutation run were executed
    emitted             \* the intent the MLIR was emitted from; whether LLVM IR was kept

diskVars == <<version, npz, meta>>
baseVars == <<baseline, source, recorded, available>>
candVars == <<cand, exp, run>>
checkVars == <<sv, diff, diffsIn, extra>>
vars == <<pc, cfg, diskVars, baseVars, level, candVars, checkVars, llmCalls, emitted>>

Rest == {"idle", "done", "raised", "killed"}
Stages == {"baseline", "saveNpz", "saveMeta", "certify", "lift", "expand", "static",
           "staticRepair", "diff", "diffRepair", "net", "stageC", "persist", "emit"}

TypeOK ==
    /\ pc \in Rest \cup Stages /\ cfg \in Configs
    /\ version \in Versions /\ npz \in Files /\ meta \in Files
    /\ baseline \in Versions \cup {Absent}
    /\ source \in Sources \cup {None} /\ recorded \in Sources \cup {None}
    /\ available \in BOOLEAN
    /\ level \in {"IN_SCOPE", "OUT_OF_SCOPE", None}
    /\ cand \in Cand \cup {None} /\ exp \in Cand \cup {None} /\ run \in Cand \cup {None}
    /\ sv \in Verdict /\ diff \in Verdict /\ diffsIn \in {"empty", "ok", "fail"}
    /\ llmCalls \in 0 .. 3
    /\ extra \subseteq {"stageC", "mutation"}
    /\ emitted \in [mlir : Cand \cup {None}, llvm : BOOLEAN]

Forget ==
    /\ baseline' = Absent /\ source' = None /\ recorded' = None /\ available' = FALSE
    /\ level' = None
    /\ cand' = None /\ exp' = None /\ run' = None
    /\ sv' = NoVerdict /\ diff' = NoVerdict /\ diffsIn' = "empty"
    /\ llmCalls' = 0 /\ extra' = {}
    /\ emitted' = [mlir |-> None, llvm |-> FALSE]

Init ==
    /\ pc = "idle" /\ cfg \in Configs
    /\ version = 0 /\ npz = Absent /\ meta = Absent
    /\ baseline = Absent /\ source = None /\ recorded = None /\ available = FALSE
    /\ level = None
    /\ cand = None /\ exp = None /\ run = None
    /\ sv = NoVerdict /\ diff = NoVerdict /\ diffsIn = "empty"
    /\ llmCalls = 0 /\ extra = {}
    /\ emitted = [mlir |-> None, llvm |-> FALSE]

At(frontend, stage) == pc = stage /\ cfg.frontend = frontend

-----------------------------------------------------------------------------
(* Between runs.                                                           *)

StartRun(c) ==
    /\ pc \in Rest
    /\ pc' = "baseline" /\ cfg' = c
    /\ Forget
    /\ UNCHANGED diskVars

(* The kernel's source gets a text it never had before (external).         *)
EditSource ==
    /\ pc \in Rest /\ version < MaxEdits
    /\ version' = version + 1
    /\ UNCHANGED <<pc, cfg, npz, meta, baseVars, level, candVars, checkVars, llmCalls, emitted>>

-----------------------------------------------------------------------------
(* Stages 1 to 3: the kernel is run once, for the baseline.                *)

Record(name) == source' = name /\ recorded' = name /\ baseline' = version

(* The runtime of TileLang, or numpy; in strict mode a runtime that is      *)
(* asked for and fails ends the run.                                       *)
TileLangBaseline ==
    /\ At("tilelang", "baseline")
    /\ \/ cfg.runtime /\ Record("tilelang_runtime") /\ available' = TRUE
       \/ cfg.runtime /\ ~cfg.strict /\ Record("numpy_reference_fallback") /\ available' = FALSE
       \/ ~cfg.runtime /\ Record("numpy_reference") /\ available' = FALSE
    /\ pc' = "certify"
    /\ UNCHANGED <<cfg, diskVars, level, candVars, checkVars, llmCalls, emitted>>

(* The baseline of an earlier run stands for this one's when its record     *)
(* names the source's present text.                                        *)
Reusable_unnamed == cfg.reuse /\ npz \in Versions /\ meta \in Versions
Reusable == cfg.reuse /\ npz \in Versions /\ meta = version

CudaBaseline ==
    /\ At("cuda", "baseline")
    /\ IF Reusable
       THEN /\ source' = "npz_cache" /\ recorded' = "npz_cache" /\ baseline' = npz
            /\ pc' = "certify"
       ELSE Record("cuda_runtime") /\ pc' = "saveNpz"
    /\ UNCHANGED <<cfg, diskVars, available, level, candVars, checkVars, llmCalls, emitted>>

(* The arrays first, then the record of what they belong to; only the       *)
(* record's failure is swallowed.                                          *)
SaveNpz ==
    /\ At("cuda", "saveNpz")
    /\ npz' = baseline
    /\ pc' = "saveMeta"
    /\ UNCHANGED <<cfg, version, meta, baseVars, level, candVars, checkVars, llmCalls, emitted>>
SaveMeta ==
    /\ At("cuda", "saveMeta")
    /\ meta' \in {version, meta, Torn}
    /\ pc' = "certify"
    /\ UNCHANGED <<cfg, version, npz, baseVars, level, candVars, checkVars, llmCalls, emitted>>

-----------------------------------------------------------------------------
(* Stages 4 and 5: certificate and contract, the proposal, its expansion.  *)

Certify ==
    /\ pc = "certify"
    /\ level' \in {"IN_SCOPE", "OUT_OF_SCOPE"}
    /\ pc' = "lift"
    /\ UNCHANGED <<cfg, diskVars, baseVars, candVars, checkVars, llmCalls, emitted>>

Propose(c) == cand' = c /\ pc' = "expand" /\ UNCHANGED <<exp, run>>

(* Without the LLM, the intent the spec itself can build.                  *)
TileLangLift ==
    /\ At("tilelang", "lift")
    /\ IF cfg.llm THEN Propose("llm") /\ llmCalls' = llmCalls + 1
       ELSE Propose("builder") /\ UNCHANGED llmCalls
    /\ UNCHANGED <<cfg, diskVars, baseVars, level, checkVars, emitted>>

(* Without the LLM, the intent of an earlier snapshot or a deterministic    *)
(* one; a failing LLM is never replaced.                                   *)
CudaLift ==
    /\ At("cuda", "lift")
    /\ IF cfg.llm
       THEN /\ llmCalls' = llmCalls + 1
            /\ \/ Propose("llm")
               \/ pc' = "raised" /\ UNCHANGED candVars
       ELSE /\ \/ Propose("builder")
               \/ ~cfg.net /\ pc' = "raised" /\ UNCHANGED candVars
            /\ UNCHANGED llmCalls
    /\ UNCHANGED <<cfg, diskVars, baseVars, level, checkVars, emitted>>

(* An intent that cannot be expanded goes on without its expansion.        *)
Expanded == exp' \in {cand, None} /\ pc' = "static"

TileLangExpand ==
    /\ At("tilelang", "expand")
    /\ Expanded
    /\ UNCHANGED <<cfg, diskVars, baseVars, level, cand, run, checkVars, llmCalls, emitted>>
CudaExpand ==
    /\ At("cuda", "expand")
    /\ Expanded
    /\ UNCHANGED <<cfg, diskVars, baseVars, level, cand, run, checkVars, llmCalls, emitted>>

-----------------------------------------------------------------------------
(* Stage 6: static validation against the certificate, and one repair.     *)

(* An out-of-scope contract fails every intent.                            *)
StaticOutcome == IF level = "OUT_OF_SCOPE" THEN {FALSE} ELSE BOOLEAN
Either(expansion, candidate) == IF expansion = None THEN candidate ELSE expansion

Validate ==
    /\ \E ok \in StaticOutcome :
          /\ sv' = Judge(ok, Either(exp, cand), {})
          /\ pc' = IF cfg.llm /\ ~ok THEN "staticRepair" ELSE "diff"
    /\ UNCHANGED <<cfg, diskVars, baseVars, level, candVars, diff, diffsIn, extra, llmCalls, emitted>>

TileLangStatic == At("tilelang", "static") /\ Validate
CudaStatic == At("cuda", "static") /\ Validate

(* The repair assigns as it goes and swallows every exception: it may stop  *)
(* at the call, after cand, after cand_expanded, or finish.                *)
RepairStatic_again ==       \* validates and repairs until it passes
    /\ llmCalls' = llmCalls + 1
    /\ pc' = "static" /\ cand' = "static" /\ exp' = "static"
    /\ UNCHANGED <<cfg, diskVars, baseVars, level, run, sv, diff, diffsIn, extra, emitted>>
RepairStatic ==
    /\ llmCalls' = llmCalls + 1
    /\ pc' = "diff"
    /\ \/ UNCHANGED <<cand, exp, sv>>
       \/ cand' = "static" /\ UNCHANGED <<exp, sv>>
       \/ cand' = "static" /\ exp' = "static" /\ UNCHANGED sv
       \/ /\ cand' = "static" /\ exp' = "static"
          /\ \E ok \in StaticOutcome : sv' = Judge(ok, "static", {})
    /\ UNCHANGED <<cfg, diskVars, baseVars, level, run, diff, diffsIn, extra, emitted>>

TileLangStaticRepair == At("tilelang", "staticRepair") /\ RepairStatic
CudaStaticRepair == At("cuda", "staticRepair") /\ RepairStatic

-----------------------------------------------------------------------------
(* Stage 7: comparison with the kernel, and the repairs after it.          *)

DiffOutcome == {"ok", "fail", "empty"}
InScopeRuntime == available /\ level # "OUT_OF_SCOPE"

(* run_ref_fn, over the cases of one comparison: against the runtime, or    *)
(* numpy, or first one and then the other.  In strict mode the runtime's    *)
(* failure is that case's result.                                          *)
GiveWay_unnamed == available' = FALSE /\ UNCHANGED source
GiveWay ==
    /\ available' = FALSE
    /\ source' = IF source = "tilelang_runtime" THEN "mixed_runtime_fallback"
                 ELSE "numpy_reference_fallback"
RunRef(out, refs) ==
    \/ out = "empty" /\ refs = {} /\ UNCHANGED <<available, source>>
    \/ out # "empty" /\ ~InScopeRuntime /\ refs = {"numpy"} /\ UNCHANGED <<available, source>>
    \/ out # "empty" /\ InScopeRuntime /\ refs = {"runtime"} /\ UNCHANGED <<available, source>>
    \/ /\ out # "empty" /\ InScopeRuntime /\ ~cfg.strict
       /\ refs \in {{"numpy"}, References}
       /\ GiveWay

(* An intent that has no expansion fails every case without running it.    *)
Outcomes == IF exp = None THEN {"fail", "empty"} ELSE DiffOutcome

Settle(out, refs, c) == diffsIn' = out /\ diff' = Judge(out = "ok", c, refs)

TileLangDiff ==
    /\ At("tilelang", "diff")
    /\ run' = Either(exp, cand)
    /\ \E out \in Outcomes, refs \in SUBSET References :
          /\ IF exp = None THEN refs = {} /\ UNCHANGED <<available, source>> ELSE RunRef(out, refs)
          /\ Settle(out, refs, run')
          /\ pc' = IF cfg.llm /\ out = "fail" THEN "diffRepair" ELSE "net"
    /\ UNCHANGED <<cfg, diskVars, baseline, recorded, level, cand, exp, sv, extra, llmCalls, emitted>>

(* The CUDA kernel, or the snapshot's own reference, runs every case.      *)
CudaDiff ==
    /\ At("cuda", "diff")
    /\ run' = Either(exp, cand)
    /\ \E out \in Outcomes :
          /\ Settle(out, {}, run')
          /\ pc' = IF cfg.llm /\ out = "fail" THEN "diffRepair" ELSE "net"
    /\ UNCHANGED <<cfg, diskVars, baseVars, level, cand, exp, sv, extra, llmCalls, emitted>>

(* One repair with the counterexample as feedback; every exception is       *)
(* swallowed: at the call, after cand, after cand_expanded, once the repair *)
(* is the intent to run but before its verdict.  Static validation is not   *)
(* repeated, and the new cases are at most four.                           *)
TileLangDiffRepair ==
    /\ At("tilelang", "diffRepair")
    /\ llmCalls' = llmCalls + 1
    /\ pc' = "net"
    /\ \/ UNCHANGED <<candVars, diff, diffsIn, available, source>>
       \/ /\ cand' = "dynamic"
          /\ exp' \in {exp, "dynamic"}
          /\ UNCHANGED <<run, diff, diffsIn, available, source>>
       \/ /\ cand' = "dynamic" /\ exp' = "dynamic" /\ run' = "dynamic"
          /\ \/ UNCHANGED <<available, source>>
             \/ InScopeRuntime /\ ~cfg.strict /\ GiveWay
          /\ UNCHANGED <<diff, diffsIn>>
       \/ /\ cand' = "dynamic" /\ exp' = "dynamic" /\ run' = "dynamic"
          /\ \E out \in DiffOutcome, refs \in SUBSET References :
                RunRef(out, refs) /\ Settle(out, refs, "dynamic")
    /\ UNCHANGED <<cfg, diskVars, baseline, recorded, level, sv, extra, emitted>>

(* Here the repair is validated again before it runs, on the same cases.   *)
CudaDiffRepair ==
    /\ At("cuda", "diffRepair")
    /\ llmCalls' = llmCalls + 1
    /\ pc' = "net"
    /\ \/ UNCHANGED <<candVars, sv, diff, diffsIn>>
       \/ /\ cand' = "dynamic"
          /\ exp' \in {exp, "dynamic"}
          /\ UNCHANGED <<run, sv, diff, diffsIn>>
       \/ /\ cand' = "dynamic" /\ exp' = "dynamic"
          /\ \E ok \in StaticOutcome : sv' = Judge(ok, "dynamic", {})
          /\ \/ run' \in {run, "dynamic"} /\ UNCHANGED <<diff, diffsIn>>
             \/ /\ run' = "dynamic"
                /\ \E out \in DiffOutcome : Settle(out, {}, "dynamic")
    /\ UNCHANGED <<cfg, diskVars, baseVars, level, extra, emitted>>

(* What disagreed is looked at once more, which may cost the runtime.      *)
TileLangDiffDebug ==
    /\ At("tilelang", "net")
    /\ pc' = "stageC"
    /\ \/ UNCHANGED <<available, source>>
       \/ diffsIn = "fail" /\ InScopeRuntime /\ ~cfg.strict /\ GiveWay
    /\ UNCHANGED <<cfg, diskVars, baseline, recorded, level, candVars, checkVars, llmCalls, emitted>>

(* Six kernels have a deterministic intent to end up with.  Its comparison  *)
(* replaces the report's whatever comes out, the intent itself only when    *)
(* it agrees; an exception before that changes nothing.  Between the two    *)
(* the code only turns the intent, by then written out as MLIR, into JSON,  *)
(* which does not fail: they are one step.                                 *)
CudaSafetyNet_reported ==       \* the report's verdict replaced, the intent not
    /\ At("cuda", "net")
    /\ pc' = "stageC"
    /\ \/ UNCHANGED <<run, diff, diffsIn>>
       \/ /\ cfg.net /\ diffsIn # "ok"
          /\ \E out \in DiffOutcome : Settle(out, {}, "fallback")
          /\ UNCHANGED run
    /\ UNCHANGED <<cfg, diskVars, baseVars, level, cand, exp, sv, extra, llmCalls, emitted>>
CudaSafetyNet ==
    /\ At("cuda", "net")
    /\ pc' = "stageC"
    /\ \/ UNCHANGED <<run, diff, diffsIn>>
       \/ /\ cfg.net /\ diffsIn # "ok"
          /\ \E out \in DiffOutcome :
                /\ Settle(out, {}, "fallback")
                /\ run' = IF out = "ok" THEN "fallback" ELSE run
    /\ UNCHANGED <<cfg, diskVars, baseVars, level, cand, exp, sv, extra, llmCalls, emitted>>

-----------------------------------------------------------------------------
(* Stage C, the baseline file of the TileLang pipeline, emission.          *)

(* The caller may disable either.                                          *)
Exercise ==
    /\ extra' \in SUBSET (IF diffsIn = "ok" THEN {"stageC", "mutation"} ELSE {})
    /\ UNCHANGED <<cfg, diskVars, baseVars, level, candVars, sv, diff, diffsIn, llmCalls, emitted>>

TileLangStageC == At("tilelang", "stageC") /\ pc' = "persist" /\ Exercise
CudaStageC == At("cuda", "stageC") /\ pc' = "emit" /\ Exercise

(* Saving may fail, and then no source is on record.                       *)
PersistBaseline_early == \* keeps the source on record since stage 3
    /\ At("tilelang", "persist")
    /\ recorded' \in {recorded, None}
    /\ pc' = "emit"
    /\ UNCHANGED <<cfg, diskVars, baseline, source, available, level, candVars, checkVars, llmCalls, emitted>>
PersistBaseline ==
    /\ At("tilelang", "persist")
    /\ recorded' \in {source, None}
    /\ pc' = "emit"
    /\ UNCHANGED <<cfg, diskVars, baseline, source, available, level, candVars, checkVars, llmCalls, emitted>>

(* LLVM IR is kept when its text came out of the translation chain and the  *)
(* tools that were run accepted it; no translation is needed when ensure_   *)
(* llvm_ir_text says that the text is LLVM IR already.                     *)
Row == {"not run", "ok", "failed"}
LLVMKept(translate, ensure, origin, tools) ==
    /\ ensure = "ok" /\ origin \in {"translated", "already_llvm"}
    /\ translate \in {"ok", "not run"}
    /\ "failed" \notin tools
LLVMOutcome ==
    {LLVMKept(translate, ensure, origin, tools) :
        translate \in Row, ensure \in Row, tools \in SUBSET Row,
        origin \in {"translated", "already_llvm", "synthesized"}}

(* Whatever the comparison said, MLIR is emitted from the intent to run;    *)
(* an exception on the way is only noted.                                  *)
EmitFrom(c) ==
    /\ pc' = "done"
    /\ \/ \E kept \in LLVMOutcome : emitted' = [mlir |-> c, llvm |-> kept]
       \/ UNCHANGED emitted
    /\ UNCHANGED <<cfg, diskVars, baseVars, level, candVars, checkVars, llmCalls>>

TileLangEmit == At("tilelang", "emit") /\ EmitFrom(run)
CudaEmit == At("cuda", "emit") /\ EmitFrom(run)

-----------------------------------------------------------------------------
(* Failures.                                                               *)

(* A call that no try protects raises, and the report is lost.             *)
Unguarded == {"baseline", "saveNpz", "certify", "lift", "expand", "static", "diff", "stageC"}
Raise ==
    /\ pc \in Unguarded
    /\ pc' = "raised"
    /\ Forget
    /\ npz' \in (IF pc = "saveNpz" THEN {npz, Torn} ELSE {npz})
    /\ UNCHANGED <<cfg, version, meta>>

(* The process dies, and tears the file it was writing.                    *)
Kill ==
    /\ pc \in Stages
    /\ pc' = "killed"
    /\ Forget
    /\ npz' \in (IF pc = "saveNpz" THEN {npz, Torn} ELSE {npz})
    /\ meta' \in (IF pc = "saveMeta" THEN {meta, Torn} ELSE {meta})
    /\ UNCHANGED <<cfg, version>>

-----------------------------------------------------------------------------
TileLangStep ==
    \/ TileLangBaseline \/ TileLangLift \/ TileLangExpand \/ TileLangStatic \/ TileLangStaticRepair
    \/ TileLangDiff \/ TileLangDiffRepair \/ TileLangDiffDebug \/ TileLangStageC \/ PersistBaseline
    \/ TileLangEmit
CudaStep ==
    \/ CudaBaseline \/ SaveNpz \/ SaveMeta \/ CudaLift \/ CudaExpand \/ CudaStatic \/ CudaStaticRepair
    \/ CudaDiff \/ CudaDiffRepair \/ CudaSafetyNet \/ CudaStageC \/ CudaEmit

Next ==
    \/ \E c \in Configs : StartRun(c)
    \/ EditSource
    \/ Certify \/ TileLangStep \/ CudaStep
    \/ Raise \/ Kill

Spec == Init /\ [][Next]_vars

-----------------------------------------------------------------------------
(* Properties.                                                             *)

(* When the report says that the kernel and the intent agree, the intent    *)
(* that was compared is the one MLIR is emitted from: no repair, finished   *)
(* or broken off anywhere, and no fallback separates the two.              *)
PassingDiffIsOfEmitted ==
    diff.is = "ok" => diff.on = run /\ emitted.mlir \in {None, diff.on}

(* A report that names the TileLang runtime as its baseline's source does   *)
(* not rest on a comparison with anything else, however late the runtime    *)
(* gave way, except where the contract is out of scope; in strict mode no   *)
(* run that asked for the runtime does.                                    *)
ReferenceIsNamed ==
    /\ pc = "done" /\ recorded = "tilelang_runtime" /\ level = "IN_SCOPE"
          => "numpy" \notin diff.against
    /\ cfg.strict /\ cfg.runtime /\ level = "IN_SCOPE" => "numpy" \notin diff.against

(* The baseline a CUDA run goes by, taken from the directory or not, is of  *)
(* the source it lifts: no kill between the two files and no failed record  *)
(* makes an older one pass, as long as an edit does not bring back a text   *)
(* the source had before.                                                  *)
BaselineIsOfSource == baseline # Absent /\ pc \in Stages => baseline = version
==============================================================================
