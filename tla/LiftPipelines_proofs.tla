------------------------ MODULE LiftPipelines_proofs ------------------------
(***************************************************************************)
(* Proofs about LiftPipelines, for every set of configurations and any      *)
(* number of edits.                                                        *)
(***************************************************************************)
EXTENDS LiftPipelines, TLAPS

(* The conjuncts of TypeOK, by what they are about, and how often the LLM   *)
(* has been called by each stage.                                          *)
FilesTyped == /\ pc \in Rest \cup Stages /\ cfg \in Configs
              /\ version \in Versions /\ npz \in Files /\ meta \in Files
BaselineTyped == /\ baseline \in Versions \cup {Absent}
                 /\ source \in Sources \cup {None} /\ recorded \in Sources \cup {None}
                 /\ available \in BOOLEAN
                 /\ level \in {"IN_SCOPE", "OUT_OF_SCOPE", None}
IntentsTyped == cand \in Cand \cup {None} /\ exp \in Cand \cup {None} /\ run \in Cand \cup {None}
ChecksTyped == /\ sv \in Verdict /\ diff \in Verdict /\ diffsIn \in {"empty", "ok", "fail"}
               /\ extra \subseteq {"stageC", "mutation"}
               /\ emitted \in [mlir : Cand \cup {None}, llvm : BOOLEAN]
Calls == /\ llmCalls \in 0 .. 3
         /\ pc \in {"baseline", "saveNpz", "saveMeta", "certify", "lift"} => llmCalls = 0
         /\ pc \in {"expand", "static", "staticRepair"} => llmCalls \in 0 .. 1
         /\ pc \in {"diff", "diffRepair"} => llmCalls \in 0 .. 2

Typed == FilesTyped /\ BaselineTyped /\ IntentsTyped /\ ChecksTyped /\ Calls

(* The repairs run only on a verdict that failed, and only a finished run   *)
(* has emitted anything.                                                   *)
Compared == /\ diff.is = "ok" => diff.on = run
            /\ pc = "diffRepair" => diff.is # "ok"
            /\ emitted.mlir # None => pc = "done" /\ emitted.mlir = run

(* What the runtime gave way to is in baseline_source before it is in the   *)
(* verdict, and nothing of it is in the record but baseline_source.        *)
Unscoped == {"idle", "raised", "killed", "baseline", "saveNpz", "saveMeta", "certify"}
Uncompared == Unscoped \cup {"lift", "expand", "static", "staticRepair", "diff"}
Named ==
    /\ pc \notin Unscoped => level # None
    /\ pc \in Uncompared => diff.against = {}
    /\ source = "tilelang_runtime" => available
    /\ cfg.strict /\ cfg.runtime /\ cfg.frontend = "tilelang"
          /\ pc \in (Stages \ {"baseline"}) \cup {"done"} => available
    /\ "numpy" \in diff.against => cfg.frontend = "tilelang"
    /\ "numpy" \in diff.against /\ level = "IN_SCOPE" => ~available /\ source # "tilelang_runtime"
    /\ recorded = "tilelang_runtime" => cfg.frontend = "tilelang"
    /\ recorded = "tilelang_runtime" /\ pc \in {"emit", "done"} => source = "tilelang_runtime"

(* The record is never of a later text than the arrays.                    *)
OnDisk ==
    /\ npz \in Versions => npz <= version
    /\ meta \in Versions => meta <= version
    /\ npz \in Versions /\ meta \in Versions => meta <= npz
    /\ pc \in Stages /\ baseline # Absent => baseline = version
    /\ pc \in {"saveNpz", "saveMeta"} => baseline # Absent /\ cfg.frontend = "cuda"
    /\ pc = "saveMeta" => npz = version

IInv == Typed /\ Compared /\ Named /\ OnDisk

USE DEF None, Frontends, Cand, References, Sources, Rest, Stages

LEMMA FilesApart ==
    /\ Absent \notin Versions /\ Torn \notin Versions /\ Absent # Torn
    /\ Versions \subseteq Nat
BY MaxEditsAssumption DEF Versions, Absent, Torn

LEMMA VerdictTyped ==
    /\ NoVerdict \in Verdict
    /\ \A ok \in BOOLEAN, c \in Cand \cup {None}, refs \in SUBSET References : Judge(ok, c, refs) \in Verdict
BY DEF NoVerdict, Judge, Verdict

LEMMA InitHolds == Init => IInv
<1> USE MaxEditsAssumption, FilesApart
<1> SUFFICES ASSUME Init PROVE IInv OBVIOUS
<1>1. Typed
  <2>1. 0 \in Versions BY DEF Versions
  <2>2. FilesTyped BY <2>1 DEF Init, FilesTyped, Files
  <2>3. BaselineTyped BY DEF Init, BaselineTyped
  <2>4. IntentsTyped BY DEF Init, IntentsTyped
  <2>5. ChecksTyped BY VerdictTyped DEF Init, ChecksTyped
  <2>6. Calls BY DEF Init, Calls
  <2>7. QED BY <2>2, <2>3, <2>4, <2>5, <2>6 DEF Typed
<1>2. Compared BY DEF Init, Compared, NoVerdict
<1>3. Named BY DEF Init, Named, Unscoped, Uncompared, NoVerdict
<1>4. OnDisk BY DEF Init, OnDisk, Versions
<1>5. QED BY <1>1, <1>2, <1>3, <1>4 DEF IInv

(* What is typed stays typed, and no run calls the LLM more than thrice.   *)
LEMMA TypedStep == Typed /\ [Next]_vars => Typed'
<1> USE VerdictTyped, FilesApart DEF At, Forget, Files, diskVars, baseVars, candVars, checkVars
<1> SUFFICES ASSUME Typed, [Next]_vars PROVE Typed' OBVIOUS
<1>typed. FilesTyped /\ BaselineTyped /\ IntentsTyped /\ ChecksTyped /\ Calls BY DEF Typed
<1>judged. ASSUME NEW ok \in BOOLEAN, NEW c \in Cand \cup {None}, NEW refs \in SUBSET References
           PROVE  Judge(ok, c, refs) \in Verdict
  BY VerdictTyped
<1>bool. LLVMOutcome \subseteq BOOLEAN
  <2> SUFFICES ASSUME NEW x \in LLVMOutcome PROVE x \in BOOLEAN OBVIOUS
  <2>1. PICK translate \in Row, ensure \in Row, tools \in SUBSET Row,
             origin \in {"translated", "already_llvm", "synthesized"} :
             x = LLVMKept(translate, ensure, origin, tools)
    BY DEF LLVMOutcome
  <2>2. QED BY <2>1 DEF LLVMKept
<1>static. StaticOutcome \subseteq BOOLEAN BY DEF StaticOutcome
<1>1. ASSUME NEW c \in Configs, StartRun(c) PROVE Typed'
  <2>1. FilesTyped' BY <1>1, <1>typed DEF StartRun, FilesTyped
  <2>2. BaselineTyped' BY <1>1, <1>typed DEF StartRun, BaselineTyped
  <2>3. IntentsTyped' BY <1>1, <1>typed DEF StartRun, IntentsTyped
  <2>4. ChecksTyped' BY <1>1, <1>typed DEF StartRun, ChecksTyped
  <2>5. Calls' BY <1>1, <1>typed DEF StartRun, Calls
  <2>6. QED BY <2>1, <2>2, <2>3, <2>4, <2>5 DEF Typed
<1>2. CASE EditSource
  BY <1>2, <1>typed, MaxEditsAssumption DEF EditSource, Versions, Typed, FilesTyped, BaselineTyped, IntentsTyped, ChecksTyped, Calls
<1>3. CASE Certify
  BY <1>3, <1>typed DEF Certify, Typed, FilesTyped, BaselineTyped, IntentsTyped, ChecksTyped, Calls
<1>4. CASE TileLangBaseline
  <2>1. FilesTyped' BY <1>4, <1>typed DEF TileLangBaseline, Record, FilesTyped
  <2>2. BaselineTyped'
    <3>1. \/ Record("tilelang_runtime") \/ Record("numpy_reference_fallback") \/ Record("numpy_reference")
      BY <1>4 DEF TileLangBaseline
    <3>2. source' \in Sources /\ recorded' \in Sources /\ baseline' = version BY <3>1 DEF Record
    <3>3. QED BY <1>4, <1>typed, <3>2 DEF TileLangBaseline, FilesTyped, BaselineTyped
  <2>3. IntentsTyped' BY <1>4, <1>typed DEF TileLangBaseline, Record, IntentsTyped
  <2>4. ChecksTyped' BY <1>4, <1>typed DEF TileLangBaseline, Record, ChecksTyped
  <2>5. Calls' BY <1>4, <1>typed DEF TileLangBaseline, Record, Calls
  <2>6. QED BY <2>1, <2>2, <2>3, <2>4, <2>5 DEF Typed
<1>5. CASE CudaBaseline
  BY <1>5, <1>typed DEF CudaBaseline, Record, Reusable, Typed, FilesTyped, BaselineTyped, IntentsTyped, ChecksTyped, Calls
<1>6. CASE SaveNpz
  BY <1>6, <1>typed DEF SaveNpz, Typed, FilesTyped, BaselineTyped, IntentsTyped, ChecksTyped, Calls
<1>7. CASE SaveMeta
  BY <1>7, <1>typed DEF SaveMeta, Typed, FilesTyped, BaselineTyped, IntentsTyped, ChecksTyped, Calls
<1>8. CASE TileLangLift
  BY <1>8, <1>typed DEF TileLangLift, Propose, Typed, FilesTyped, BaselineTyped, IntentsTyped, ChecksTyped, Calls
<1>9. CASE CudaLift
  BY <1>9, <1>typed DEF CudaLift, Propose, Typed, FilesTyped, BaselineTyped, IntentsTyped, ChecksTyped, Calls
<1>10. CASE TileLangExpand
  BY <1>10, <1>typed DEF TileLangExpand, Expanded, Typed, FilesTyped, BaselineTyped, IntentsTyped, ChecksTyped, Calls
<1>11. CASE CudaExpand
  BY <1>11, <1>typed DEF CudaExpand, Expanded, Typed, FilesTyped, BaselineTyped, IntentsTyped, ChecksTyped, Calls
<1>12. CASE TileLangStatic
  <2>1. FilesTyped' BY <1>12, <1>typed DEF TileLangStatic, Validate, StaticOutcome, Either, FilesTyped
  <2>2. BaselineTyped' BY <1>12, <1>typed DEF TileLangStatic, Validate, StaticOutcome, Either, BaselineTyped
  <2>3. IntentsTyped' BY <1>12, <1>typed DEF TileLangStatic, Validate, StaticOutcome, Either, IntentsTyped
  <2>4. ChecksTyped'
    <3>1. PICK ok \in StaticOutcome : sv' = Judge(ok, Either(exp, cand), {}) BY <1>12 DEF TileLangStatic, Validate
    <3>2. Either(exp, cand) \in Cand \cup {None} BY <1>typed DEF Either, IntentsTyped
    <3>3. sv' \in Verdict BY <3>1, <3>2, <1>static, <1>judged
    <3>4. QED BY <1>12, <1>typed, <3>3 DEF TileLangStatic, Validate, ChecksTyped
  <2>5. Calls' BY <1>12, <1>typed DEF TileLangStatic, Validate, StaticOutcome, Either, Calls
  <2>6. QED BY <2>1, <2>2, <2>3, <2>4, <2>5 DEF Typed
<1>13. CASE CudaStatic
  <2>1. FilesTyped' BY <1>13, <1>typed DEF CudaStatic, Validate, StaticOutcome, Either, FilesTyped
  <2>2. BaselineTyped' BY <1>13, <1>typed DEF CudaStatic, Validate, StaticOutcome, Either, BaselineTyped
  <2>3. IntentsTyped' BY <1>13, <1>typed DEF CudaStatic, Validate, StaticOutcome, Either, IntentsTyped
  <2>4. ChecksTyped'
    <3>1. PICK ok \in StaticOutcome : sv' = Judge(ok, Either(exp, cand), {}) BY <1>13 DEF CudaStatic, Validate
    <3>2. Either(exp, cand) \in Cand \cup {None} BY <1>typed DEF Either, IntentsTyped
    <3>3. sv' \in Verdict BY <3>1, <3>2, <1>static, <1>judged
    <3>4. QED BY <1>13, <1>typed, <3>3 DEF CudaStatic, Validate, ChecksTyped
  <2>5. Calls' BY <1>13, <1>typed DEF CudaStatic, Validate, StaticOutcome, Either, Calls
  <2>6. QED BY <2>1, <2>2, <2>3, <2>4, <2>5 DEF Typed
<1>14. CASE TileLangStaticRepair
  <2>1. FilesTyped' BY <1>14, <1>typed DEF TileLangStaticRepair, RepairStatic, StaticOutcome, FilesTyped
  <2>2. BaselineTyped' BY <1>14, <1>typed DEF TileLangStaticRepair, RepairStatic, StaticOutcome, BaselineTyped
  <2>3. IntentsTyped' BY <1>14, <1>typed DEF TileLangStaticRepair, RepairStatic, StaticOutcome, IntentsTyped
  <2>4. ChecksTyped'
    <3>1. \A ok \in StaticOutcome : Judge(ok, "static", {}) \in Verdict BY <1>static, <1>judged
    <3>2. sv' \in Verdict BY <1>14, <1>typed, <3>1 DEF TileLangStaticRepair, RepairStatic, ChecksTyped
    <3>3. QED BY <1>14, <1>typed, <3>2 DEF TileLangStaticRepair, RepairStatic, ChecksTyped
  <2>5. Calls' BY <1>14, <1>typed DEF TileLangStaticRepair, RepairStatic, StaticOutcome, Calls
  <2>6. QED BY <2>1, <2>2, <2>3, <2>4, <2>5 DEF Typed
<1>15. CASE CudaStaticRepair
  <2>1. FilesTyped' BY <1>15, <1>typed DEF CudaStaticRepair, RepairStatic, StaticOutcome, FilesTyped
  <2>2. BaselineTyped' BY <1>15, <1>typed DEF CudaStaticRepair, RepairStatic, StaticOutcome, BaselineTyped
  <2>3. IntentsTyped' BY <1>15, <1>typed DEF CudaStaticRepair, RepairStatic, StaticOutcome, IntentsTyped
  <2>4. ChecksTyped'
    <3>1. \A ok \in StaticOutcome : Judge(ok, "static", {}) \in Verdict BY <1>static, <1>judged
    <3>2. sv' \in Verdict BY <1>15, <1>typed, <3>1 DEF CudaStaticRepair, RepairStatic, ChecksTyped
    <3>3. QED BY <1>15, <1>typed, <3>2 DEF CudaStaticRepair, RepairStatic, ChecksTyped
  <2>5. Calls' BY <1>15, <1>typed DEF CudaStaticRepair, RepairStatic, StaticOutcome, Calls
  <2>6. QED BY <2>1, <2>2, <2>3, <2>4, <2>5 DEF Typed
<1>16. CASE TileLangDiff
  <2>1. FilesTyped' BY <1>16, <1>typed DEF TileLangDiff, RunRef, GiveWay, Settle, Either, Outcomes, DiffOutcome, FilesTyped
  <2>2. BaselineTyped' BY <1>16, <1>typed DEF TileLangDiff, RunRef, GiveWay, Settle, Either, Outcomes, DiffOutcome, BaselineTyped
  <2>3. IntentsTyped' BY <1>16, <1>typed DEF TileLangDiff, RunRef, GiveWay, Settle, Either, Outcomes, DiffOutcome, IntentsTyped
  <2>4. ChecksTyped'
    <3>1. PICK out \in Outcomes, refs \in SUBSET References : Settle(out, refs, run') BY <1>16 DEF TileLangDiff
    <3>2. run' \in Cand \cup {None} BY <1>16, <1>typed DEF TileLangDiff, Either, IntentsTyped
    <3>3. Judge(out = "ok", run', refs) \in Verdict BY <3>2, <1>judged
    <3>4. diff' \in Verdict /\ diffsIn' \in {"empty", "ok", "fail"}
      BY <3>1, <3>3 DEF Settle, Outcomes, DiffOutcome
    <3>5. QED BY <1>16, <1>typed, <3>4 DEF TileLangDiff, ChecksTyped
  <2>5. Calls' BY <1>16, <1>typed DEF TileLangDiff, RunRef, GiveWay, Settle, Either, Outcomes, DiffOutcome, Calls
  <2>6. QED BY <2>1, <2>2, <2>3, <2>4, <2>5 DEF Typed
<1>17. CASE CudaDiff
  <2>1. FilesTyped' BY <1>17, <1>typed DEF CudaDiff, Settle, Either, Outcomes, DiffOutcome, FilesTyped
  <2>2. BaselineTyped' BY <1>17, <1>typed DEF CudaDiff, Settle, Either, Outcomes, DiffOutcome, BaselineTyped
  <2>3. IntentsTyped' BY <1>17, <1>typed DEF CudaDiff, Settle, Either, Outcomes, DiffOutcome, IntentsTyped
  <2>4. ChecksTyped'
    <3>1. PICK out \in Outcomes : Settle(out, {}, run') BY <1>17 DEF CudaDiff
    <3>2. run' \in Cand \cup {None} BY <1>17, <1>typed DEF CudaDiff, Either, IntentsTyped
    <3>3. Judge(out = "ok", run', {}) \in Verdict BY <3>2, <1>judged
    <3>4. diff' \in Verdict /\ diffsIn' \in {"empty", "ok", "fail"}
      BY <3>1, <3>3 DEF Settle, Outcomes, DiffOutcome
    <3>5. QED BY <1>17, <1>typed, <3>4 DEF CudaDiff, ChecksTyped
  <2>5. Calls' BY <1>17, <1>typed DEF CudaDiff, Settle, Either, Outcomes, DiffOutcome, Calls
  <2>6. QED BY <2>1, <2>2, <2>3, <2>4, <2>5 DEF Typed
<1>18. CASE TileLangDiffRepair
  <2>1. FilesTyped' BY <1>18, <1>typed DEF TileLangDiffRepair, RunRef, GiveWay, Settle, DiffOutcome, FilesTyped
  <2>2. BaselineTyped'
    <3>1. ASSUME NEW out, NEW refs, RunRef(out, refs)
          PROVE  available' \in BOOLEAN /\ source' \in Sources \cup {None}
      BY <3>1, <1>typed DEF RunRef, GiveWay, BaselineTyped
    <3>2. \/ available' = available /\ source' = source
          \/ GiveWay
          \/ \E out \in DiffOutcome, refs \in SUBSET References : RunRef(out, refs)
      BY <1>18 DEF TileLangDiffRepair
    <3>3. available' \in BOOLEAN /\ source' \in Sources \cup {None}
      BY <3>1, <3>2, <1>typed DEF BaselineTyped, GiveWay
    <3>4. QED BY <1>18, <1>typed, <3>3 DEF TileLangDiffRepair, BaselineTyped
  <2>3. IntentsTyped' BY <1>18, <1>typed DEF TileLangDiffRepair, RunRef, GiveWay, Settle, DiffOutcome, IntentsTyped
  <2>4. ChecksTyped'
    <3>1. ASSUME NEW out \in DiffOutcome, NEW refs \in SUBSET References, Settle(out, refs, "dynamic")
          PROVE  diff' \in Verdict /\ diffsIn' \in {"empty", "ok", "fail"}
      <4>1. Judge(out = "ok", "dynamic", refs) \in Verdict BY <1>judged
      <4>2. QED BY <3>1, <4>1 DEF Settle, DiffOutcome
    <3>2. \/ diff' = diff /\ diffsIn' = diffsIn
          \/ \E out \in DiffOutcome, refs \in SUBSET References : Settle(out, refs, "dynamic")
      BY <1>18 DEF TileLangDiffRepair
    <3>3. diff' \in Verdict /\ diffsIn' \in {"empty", "ok", "fail"} BY <3>1, <3>2, <1>typed DEF ChecksTyped
    <3>4. QED BY <1>18, <1>typed, <3>3 DEF TileLangDiffRepair, ChecksTyped
  <2>5. Calls' BY <1>18, <1>typed DEF TileLangDiffRepair, RunRef, GiveWay, Settle, DiffOutcome, Calls
  <2>6. QED BY <2>1, <2>2, <2>3, <2>4, <2>5 DEF Typed
<1>19. CASE CudaDiffRepair
  <2>1. FilesTyped' BY <1>19, <1>typed DEF CudaDiffRepair, Settle, StaticOutcome, DiffOutcome, FilesTyped
  <2>2. BaselineTyped' BY <1>19, <1>typed DEF CudaDiffRepair, Settle, StaticOutcome, DiffOutcome, BaselineTyped
  <2>3. IntentsTyped' BY <1>19, <1>typed DEF CudaDiffRepair, Settle, StaticOutcome, DiffOutcome, IntentsTyped
  <2>4. ChecksTyped'
    <3>1. ASSUME NEW out \in DiffOutcome, Settle(out, {}, "dynamic")
          PROVE  diff' \in Verdict /\ diffsIn' \in {"empty", "ok", "fail"}
      <4>1. Judge(out = "ok", "dynamic", {}) \in Verdict BY <1>judged
      <4>2. QED BY <3>1, <4>1 DEF Settle, DiffOutcome
    <3>2. \/ diff' = diff /\ diffsIn' = diffsIn
          \/ \E out \in DiffOutcome : Settle(out, {}, "dynamic")
      BY <1>19 DEF CudaDiffRepair
    <3>3. diff' \in Verdict /\ diffsIn' \in {"empty", "ok", "fail"} BY <3>1, <3>2, <1>typed DEF ChecksTyped
    <3>4. \A ok \in StaticOutcome : Judge(ok, "dynamic", {}) \in Verdict BY <1>static, <1>judged
    <3>5. sv' = sv \/ \E ok \in StaticOutcome : sv' = Judge(ok, "dynamic", {}) BY <1>19 DEF CudaDiffRepair
    <3>6. sv' \in Verdict BY <3>4, <3>5, <1>typed DEF ChecksTyped
    <3>7. QED BY <1>19, <1>typed, <3>3, <3>6 DEF CudaDiffRepair, ChecksTyped
  <2>5. Calls' BY <1>19, <1>typed DEF CudaDiffRepair, Settle, StaticOutcome, DiffOutcome, Calls
  <2>6. QED BY <2>1, <2>2, <2>3, <2>4, <2>5 DEF Typed
<1>20. CASE TileLangDiffDebug
  <2>1. FilesTyped' BY <1>20, <1>typed DEF TileLangDiffDebug, GiveWay, FilesTyped
  <2>2. BaselineTyped' BY <1>20, <1>typed DEF TileLangDiffDebug, GiveWay, BaselineTyped
  <2>3. IntentsTyped' BY <1>20, <1>typed DEF TileLangDiffDebug, GiveWay, IntentsTyped
  <2>4. ChecksTyped' BY <1>20, <1>typed DEF TileLangDiffDebug, GiveWay, ChecksTyped
  <2>5. Calls' BY <1>20, <1>typed DEF TileLangDiffDebug, GiveWay, Calls
  <2>6. QED BY <2>1, <2>2, <2>3, <2>4, <2>5 DEF Typed
<1>21. CASE CudaSafetyNet
  <2>1. FilesTyped' BY <1>21, <1>typed DEF CudaSafetyNet, Settle, DiffOutcome, FilesTyped
  <2>2. BaselineTyped' BY <1>21, <1>typed DEF CudaSafetyNet, Settle, DiffOutcome, BaselineTyped
  <2>3. IntentsTyped' BY <1>21, <1>typed DEF CudaSafetyNet, Settle, DiffOutcome, IntentsTyped
  <2>4. ChecksTyped'
    <3>1. ASSUME NEW out \in DiffOutcome, Settle(out, {}, "fallback")
          PROVE  diff' \in Verdict /\ diffsIn' \in {"empty", "ok", "fail"}
      <4>1. Judge(out = "ok", "fallback", {}) \in Verdict BY <1>judged
      <4>2. QED BY <3>1, <4>1 DEF Settle, DiffOutcome
    <3>2. \/ diff' = diff /\ diffsIn' = diffsIn
          \/ \E out \in DiffOutcome : Settle(out, {}, "fallback")
      BY <1>21 DEF CudaSafetyNet
    <3>3. diff' \in Verdict /\ diffsIn' \in {"empty", "ok", "fail"} BY <3>1, <3>2, <1>typed DEF ChecksTyped
    <3>4. QED BY <1>21, <1>typed, <3>3 DEF CudaSafetyNet, ChecksTyped
  <2>5. Calls' BY <1>21, <1>typed DEF CudaSafetyNet, Settle, DiffOutcome, Calls
  <2>6. QED BY <2>1, <2>2, <2>3, <2>4, <2>5 DEF Typed
<1>22. CASE TileLangStageC
  BY <1>22, <1>typed DEF TileLangStageC, Exercise, Typed, FilesTyped, BaselineTyped, IntentsTyped, ChecksTyped, Calls
<1>23. CASE CudaStageC
  BY <1>23, <1>typed DEF CudaStageC, Exercise, Typed, FilesTyped, BaselineTyped, IntentsTyped, ChecksTyped, Calls
<1>24. CASE PersistBaseline
  BY <1>24, <1>typed DEF PersistBaseline, Typed, FilesTyped, BaselineTyped, IntentsTyped, ChecksTyped, Calls
<1>25. CASE TileLangEmit
  BY <1>25, <1>typed, <1>bool DEF TileLangEmit, EmitFrom, Typed, FilesTyped, BaselineTyped, IntentsTyped, ChecksTyped, Calls
<1>26. CASE CudaEmit
  BY <1>26, <1>typed, <1>bool DEF CudaEmit, EmitFrom, Typed, FilesTyped, BaselineTyped, IntentsTyped, ChecksTyped, Calls
<1>27. CASE Raise
  <2>1. FilesTyped' BY <1>27, <1>typed DEF Raise, FilesTyped
  <2>2. BaselineTyped' BY <1>27, <1>typed DEF Raise, BaselineTyped
  <2>3. IntentsTyped' BY <1>27, <1>typed DEF Raise, IntentsTyped
  <2>4. ChecksTyped' BY <1>27, <1>typed DEF Raise, ChecksTyped
  <2>5. Calls' BY <1>27, <1>typed DEF Raise, Calls
  <2>6. QED BY <2>1, <2>2, <2>3, <2>4, <2>5 DEF Typed
<1>28. CASE Kill
  <2>1. FilesTyped' BY <1>28, <1>typed DEF Kill, FilesTyped
  <2>2. BaselineTyped' BY <1>28, <1>typed DEF Kill, BaselineTyped
  <2>3. IntentsTyped' BY <1>28, <1>typed DEF Kill, IntentsTyped
  <2>4. ChecksTyped' BY <1>28, <1>typed DEF Kill, ChecksTyped
  <2>5. Calls' BY <1>28, <1>typed DEF Kill, Calls
  <2>6. QED BY <2>1, <2>2, <2>3, <2>4, <2>5 DEF Typed
<1>29. CASE UNCHANGED vars BY <1>29, <1>typed DEF vars, Typed, FilesTyped, BaselineTyped, IntentsTyped, ChecksTyped, Calls
<1>30. QED
  BY <1>1, <1>2, <1>3, <1>4, <1>5, <1>6, <1>7, <1>8, <1>9, <1>10, <1>11, <1>12, <1>13, <1>14,
     <1>15, <1>16, <1>17, <1>18, <1>19, <1>20, <1>21, <1>22, <1>23, <1>24, <1>25, <1>26, <1>27,
     <1>28, <1>29
     DEF Next, TileLangStep, CudaStep

(* Only a verdict that failed gives way to a repair or to the fallback.     *)
LEMMA ComparedStep == Compared /\ [Next]_vars => Compared'
<1> SUFFICES ASSUME Compared, [Next]_vars PROVE Compared' OBVIOUS
<1> USE DEF Compared, At, Forget, NoVerdict, Judge, diskVars, baseVars, candVars, checkVars
<1>1. ASSUME NEW c \in Configs, StartRun(c) PROVE Compared' BY <1>1 DEF StartRun
<1>2. CASE EditSource BY <1>2 DEF EditSource
<1>3. CASE Certify BY <1>3 DEF Certify
<1>4. CASE TileLangBaseline BY <1>4 DEF TileLangBaseline, Record
<1>5. CASE CudaBaseline BY <1>5 DEF CudaBaseline, Record, Reusable
<1>6. CASE SaveNpz BY <1>6 DEF SaveNpz
<1>7. CASE SaveMeta BY <1>7 DEF SaveMeta
<1>8. CASE TileLangLift BY <1>8 DEF TileLangLift, Propose
<1>9. CASE CudaLift BY <1>9 DEF CudaLift, Propose
<1>10. CASE TileLangExpand BY <1>10 DEF TileLangExpand, Expanded
<1>11. CASE CudaExpand BY <1>11 DEF CudaExpand, Expanded
<1>12. CASE TileLangStatic BY <1>12 DEF TileLangStatic, Validate
<1>13. CASE CudaStatic BY <1>13 DEF CudaStatic, Validate
<1>14. CASE TileLangStaticRepair BY <1>14 DEF TileLangStaticRepair, RepairStatic
<1>15. CASE CudaStaticRepair BY <1>15 DEF CudaStaticRepair, RepairStatic
<1>16. CASE TileLangDiff BY <1>16 DEF TileLangDiff, RunRef, GiveWay, Settle
<1>17. CASE CudaDiff BY <1>17 DEF CudaDiff, Settle
<1>18. CASE TileLangDiffRepair BY <1>18 DEF TileLangDiffRepair, RunRef, GiveWay, Settle
<1>19. CASE CudaDiffRepair BY <1>19 DEF CudaDiffRepair, Settle
<1>20. CASE TileLangDiffDebug BY <1>20 DEF TileLangDiffDebug, GiveWay
<1>21. CASE CudaSafetyNet BY <1>21 DEF CudaSafetyNet, Settle
<1>22. CASE TileLangStageC BY <1>22 DEF TileLangStageC, Exercise
<1>23. CASE CudaStageC BY <1>23 DEF CudaStageC, Exercise
<1>24. CASE PersistBaseline BY <1>24 DEF PersistBaseline
<1>25. CASE TileLangEmit BY <1>25 DEF TileLangEmit, EmitFrom
<1>26. CASE CudaEmit BY <1>26 DEF CudaEmit, EmitFrom
<1>27. CASE Raise BY <1>27 DEF Raise
<1>28. CASE Kill BY <1>28 DEF Kill
<1>29. CASE UNCHANGED vars BY <1>29 DEF vars
<1>30. QED
  BY <1>1, <1>2, <1>3, <1>4, <1>5, <1>6, <1>7, <1>8, <1>9, <1>10, <1>11, <1>12, <1>13, <1>14,
     <1>15, <1>16, <1>17, <1>18, <1>19, <1>20, <1>21, <1>22, <1>23, <1>24, <1>25, <1>26, <1>27,
     <1>28, <1>29
     DEF Next, TileLangStep, CudaStep

(* No runtime that gave way, in this comparison or an earlier one, keeps its *)
(* name in baseline_source.                                                *)
LEMMA NamedStep == Typed /\ Named /\ [Next]_vars => Named'
<1> SUFFICES ASSUME Typed /\ Named, [Next]_vars PROVE Named' OBVIOUS
<1> USE DEF Named, Unscoped, Uncompared, At, Forget, NoVerdict, Judge, diskVars, baseVars, candVars, checkVars
<1>1. ASSUME NEW c \in Configs, StartRun(c) PROVE Named' BY <1>1 DEF StartRun
<1>2. CASE EditSource BY <1>2 DEF EditSource
<1>3. CASE Certify BY <1>3 DEF Certify
<1>4. CASE TileLangBaseline BY <1>4 DEF TileLangBaseline, Record
<1>5. CASE CudaBaseline BY <1>5 DEF CudaBaseline, Record, Reusable
<1>6. CASE SaveNpz BY <1>6 DEF SaveNpz
<1>7. CASE SaveMeta BY <1>7 DEF SaveMeta
<1>8. CASE TileLangLift BY <1>8 DEF TileLangLift, Propose
<1>9. CASE CudaLift BY <1>9 DEF CudaLift, Propose
<1>10. CASE TileLangExpand BY <1>10 DEF TileLangExpand, Expanded
<1>11. CASE CudaExpand BY <1>11 DEF CudaExpand, Expanded
<1>12. CASE TileLangStatic BY <1>12 DEF TileLangStatic, Validate
<1>13. CASE CudaStatic BY <1>13 DEF CudaStatic, Validate
<1>14. CASE TileLangStaticRepair BY <1>14 DEF TileLangStaticRepair, RepairStatic
<1>15. CASE CudaStaticRepair BY <1>15 DEF CudaStaticRepair, RepairStatic
<1>16. CASE TileLangDiff
  BY <1>16 DEF TileLangDiff, RunRef, GiveWay, Settle, InScopeRuntime, Typed, BaselineTyped
<1>17. CASE CudaDiff BY <1>17 DEF CudaDiff, Settle
<1>18. CASE TileLangDiffRepair
  BY <1>18 DEF TileLangDiffRepair, RunRef, GiveWay, Settle, InScopeRuntime, Typed, BaselineTyped
<1>19. CASE CudaDiffRepair BY <1>19 DEF CudaDiffRepair, Settle
<1>20. CASE TileLangDiffDebug BY <1>20 DEF TileLangDiffDebug, GiveWay, InScopeRuntime
<1>21. CASE CudaSafetyNet BY <1>21 DEF CudaSafetyNet, Settle
<1>22. CASE TileLangStageC BY <1>22 DEF TileLangStageC, Exercise
<1>23. CASE CudaStageC BY <1>23 DEF CudaStageC, Exercise
<1>24. CASE PersistBaseline BY <1>24 DEF PersistBaseline
<1>25. CASE TileLangEmit BY <1>25 DEF TileLangEmit, EmitFrom
<1>26. CASE CudaEmit BY <1>26 DEF CudaEmit, EmitFrom
<1>27. CASE Raise BY <1>27 DEF Raise
<1>28. CASE Kill BY <1>28 DEF Kill
<1>29. CASE UNCHANGED vars BY <1>29 DEF vars
<1>30. QED
  BY <1>1, <1>2, <1>3, <1>4, <1>5, <1>6, <1>7, <1>8, <1>9, <1>10, <1>11, <1>12, <1>13, <1>14,
     <1>15, <1>16, <1>17, <1>18, <1>19, <1>20, <1>21, <1>22, <1>23, <1>24, <1>25, <1>26, <1>27,
     <1>28, <1>29
     DEF Next, TileLangStep, CudaStep

(* The arrays are always written before the record that names them.        *)
LEMMA OnDiskStep == Typed /\ OnDisk /\ [Next]_vars => OnDisk'
<1> SUFFICES ASSUME Typed /\ OnDisk, [Next]_vars PROVE OnDisk' OBVIOUS
<1> USE FilesApart, MaxEditsAssumption DEF OnDisk, At, Forget, Files, Typed, FilesTyped, diskVars, baseVars, candVars, checkVars
<1>1. ASSUME NEW c \in Configs, StartRun(c) PROVE OnDisk' BY <1>1 DEF StartRun
<1>2. CASE EditSource BY <1>2 DEF EditSource, Versions
<1>3. CASE Certify BY <1>3 DEF Certify
<1>4. CASE TileLangBaseline BY <1>4 DEF TileLangBaseline, Record
<1>5. CASE CudaBaseline BY <1>5 DEF CudaBaseline, Record, Reusable
<1>6. CASE SaveNpz BY <1>6 DEF SaveNpz
<1>7. CASE SaveMeta BY <1>7 DEF SaveMeta
<1>8. CASE TileLangLift BY <1>8 DEF TileLangLift, Propose
<1>9. CASE CudaLift BY <1>9 DEF CudaLift, Propose
<1>10. CASE TileLangExpand BY <1>10 DEF TileLangExpand, Expanded
<1>11. CASE CudaExpand BY <1>11 DEF CudaExpand, Expanded
<1>12. CASE TileLangStatic BY <1>12 DEF TileLangStatic, Validate
<1>13. CASE CudaStatic BY <1>13 DEF CudaStatic, Validate
<1>14. CASE TileLangStaticRepair BY <1>14 DEF TileLangStaticRepair, RepairStatic
<1>15. CASE CudaStaticRepair BY <1>15 DEF CudaStaticRepair, RepairStatic
<1>16. CASE TileLangDiff BY <1>16 DEF TileLangDiff, RunRef, GiveWay, Settle
<1>17. CASE CudaDiff BY <1>17 DEF CudaDiff, Settle
<1>18. CASE TileLangDiffRepair BY <1>18 DEF TileLangDiffRepair, RunRef, GiveWay, Settle
<1>19. CASE CudaDiffRepair BY <1>19 DEF CudaDiffRepair, Settle
<1>20. CASE TileLangDiffDebug BY <1>20 DEF TileLangDiffDebug, GiveWay
<1>21. CASE CudaSafetyNet BY <1>21 DEF CudaSafetyNet, Settle
<1>22. CASE TileLangStageC BY <1>22 DEF TileLangStageC, Exercise
<1>23. CASE CudaStageC BY <1>23 DEF CudaStageC, Exercise
<1>24. CASE PersistBaseline BY <1>24 DEF PersistBaseline
<1>25. CASE TileLangEmit BY <1>25 DEF TileLangEmit, EmitFrom
<1>26. CASE CudaEmit BY <1>26 DEF CudaEmit, EmitFrom
<1>27. CASE Raise BY <1>27 DEF Raise
<1>28. CASE Kill BY <1>28 DEF Kill
<1>29. CASE UNCHANGED vars BY <1>29 DEF vars
<1>30. QED
  BY <1>1, <1>2, <1>3, <1>4, <1>5, <1>6, <1>7, <1>8, <1>9, <1>10, <1>11, <1>12, <1>13, <1>14,
     <1>15, <1>16, <1>17, <1>18, <1>19, <1>20, <1>21, <1>22, <1>23, <1>24, <1>25, <1>26, <1>27,
     <1>28, <1>29
     DEF Next, TileLangStep, CudaStep

LEMMA Invariance == Spec => []IInv
<1>1. Init => IInv BY InitHolds
<1>2. IInv /\ [Next]_vars => IInv' BY TypedStep, ComparedStep, NamedStep, OnDiskStep DEF IInv
<1>3. QED BY <1>1, <1>2, PTL DEF Spec

(***************************************************************************)
(* In every reachable state the variables have their types, and no run of   *)
(* either pipeline makes more than three LLM calls.                         *)
(***************************************************************************)
THEOREM TypeCorrect == Spec => []TypeOK
<1>1. IInv => TypeOK
  BY DEF IInv, Typed, FilesTyped, BaselineTyped, IntentsTyped, ChecksTyped, Calls, TypeOK
<1>2. QED BY <1>1, Invariance, PTL

(***************************************************************************)
(* A passing diff of either pipeline's report is of the intent from which    *)
(* MLIR is emitted, wherever a repair stopped and whatever was edited.      *)
(***************************************************************************)
THEOREM DiffIsOfEmitted == Spec => []PassingDiffIsOfEmitted
<1>1. IInv => PassingDiffIsOfEmitted BY DEF IInv, Compared, PassingDiffIsOfEmitted
<1>2. QED BY <1>1, Invariance, PTL

(***************************************************************************)
(* The reference that the TileLang report names is the one the intent was   *)
(* compared with, in every comparison and under every configuration.        *)
(***************************************************************************)
THEOREM ReferenceNamed == Spec => []ReferenceIsNamed
<1>1. IInv => ReferenceIsNamed
  BY DEF IInv, Typed, FilesTyped, Named, Unscoped, Uncompared, ReferenceIsNamed
<1>2. QED BY <1>1, Invariance, PTL

(***************************************************************************)
(* A CUDA run that takes the baseline from its directory takes one of the   *)
(* very text it lifts, after any number of edits and of kills between the   *)
(* two files.                                                              *)
(***************************************************************************)
THEOREM BaselineCurrent == Spec => []BaselineIsOfSource
<1>1. IInv => BaselineIsOfSource BY DEF IInv, OnDisk, BaselineIsOfSource
<1>2. QED BY <1>1, Invariance, PTL
=============================================================================
