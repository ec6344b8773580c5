----------------------- MODULE TritonPipeline_proofs -----------------------
(***************************************************************************)
(* Proofs about TritonPipeline, for every set of run directories, kernels  *)
(* and configurations.                                                     *)
(***************************************************************************)
EXTENDS TritonPipeline, TLAPS

-----------------------------------------------------------------------------
(* Type correctness.                                                       *)

(* A run that forgets its locals leaves them well typed.                   *)
LEMMA ForgetTypes ==
    Forget =>
        /\ cert' \in {"none", "v1", "v2bare", "v2"}
        /\ contract' \in Level \cup {None}
        /\ cand' \in Cand \cup {None} /\ exp' \in Cand \cup {None} /\ run' \in Cand \cup {None}
        /\ llmCalls' \in Nat /\ llmGenerated' \in BOOLEAN
        /\ cacheUsed' \in BOOLEAN /\ fallbackUsed' \in BOOLEAN /\ repairAllowed' \in BOOLEAN
        /\ sv' \in Verdict /\ diff' \in Verdict
        /\ diffsIn' \in {"empty", "ok", "fail"}
        /\ extra' \subseteq {"stageC", "mutation"}
        /\ emitted' \in [mlir : Cand \cup {None}, org : Cand \cup {None}]
<1>1. NoVerdict \in Verdict
  BY DEF NoVerdict, Verdict
<1>2. [mlir |-> None, org |-> None] \in [mlir : Cand \cup {None}, org : Cand \cup {None}]
  OBVIOUS
<1>3. ASSUME Forget
      PROVE  llmGenerated' \in BOOLEAN /\ cacheUsed' \in BOOLEAN /\ fallbackUsed' \in BOOLEAN
             /\ repairAllowed' \in BOOLEAN
  BY <1>3, Zenon DEF Forget
<1>4. ASSUME Forget
      PROVE  /\ llmCalls' \in Nat
             /\ cand' \in Cand \cup {None} /\ exp' \in Cand \cup {None} /\ run' \in Cand \cup {None}
             /\ cert' = "none" /\ contract' = None /\ diffsIn' = "empty" /\ extra' = {}
             /\ sv' \in Verdict /\ diff' \in Verdict
             /\ emitted' \in [mlir : Cand \cup {None}, org : Cand \cup {None}]
  BY <1>1, <1>2, <1>4 DEF Forget
<1>5. QED
  BY <1>3, <1>4

(* The seeds a run can write are well typed.                               *)
LEMMA SeedTypes == NoSeed \in Seed /\ TornSeed \in Seed /\ OldSeed \in Seed
BY DEF NoSeed, TornSeed, OldSeed, Seed, Cand, None

LEMMA JudgeType == ASSUME NEW ok \in BOOLEAN, NEW c \in Cand \cup {None}
                   PROVE  Judge(ok, c) \in Verdict
BY DEF Judge, Verdict

LEMMA NormalizedType == ASSUME NEW c \in Cand \cup {None}
                        PROVE  Normalized(c) \in Cand \cup {None}
BY DEF Normalized, Cand

LEMMA SavedSeedType == TypeOK => SavedSeed \in Seed
BY DEF SavedSeed, Seed, TypeOK

LEMMA StaticOutcomeType == StaticOutcome \subseteq BOOLEAN
BY DEF StaticOutcome

(* Every action keeps every variable in its type.                          *)
THEOREM TypeCorrect == Spec => []TypeOK
<1>1. Init => TypeOK
  <2>1. NoVerdict \in Verdict
    BY DEF NoVerdict, Verdict
  <2>2. [mlir |-> None, org |-> None] \in [mlir : Cand \cup {None}, org : Cand \cup {None}]
    OBVIOUS
  <2>3. ASSUME Init PROVE runSeed \in [Dir -> Seed] /\ cacheSeed \in Seed
    BY <2>3, SeedTypes DEF Init
  <2>4. ASSUME Init
        PROVE  llmGenerated \in BOOLEAN /\ cacheUsed \in BOOLEAN /\ fallbackUsed \in BOOLEAN
               /\ repairAllowed \in BOOLEAN
    BY <2>4, Zenon DEF Init
  <2>5. ASSUME Init
        PROVE  /\ kernel \in Kernels /\ pc \in Rest /\ dir \in Dir /\ cfg \in Configs
               /\ cert = "none" /\ contract = None /\ cand = None /\ exp = None /\ run = None
               /\ llmCalls \in Nat /\ sv \in Verdict /\ diff \in Verdict
               /\ diffsIn = "empty" /\ extra = {}
               /\ emitted \in [mlir : Cand \cup {None}, org : Cand \cup {None}]
    BY <2>1, <2>2, <2>5 DEF Init, Rest
  <2>6. QED
    BY <2>3, <2>4, <2>5 DEF TypeOK
<1>2. TypeOK /\ [Next]_vars => TypeOK'
  <2> SUFFICES ASSUME TypeOK, [Next]_vars PROVE TypeOK'
    OBVIOUS
  <2>1. CASE \E d \in Dir, c \in Configs : StartRun(d, c)
    BY <2>1, ForgetTypes DEF TypeOK, StartRun, Stages, storeVars
  <2>2. CASE Launch
    BY <2>2 DEF TypeOK, Launch, Stages, setupVars, certVars, candVars, flagVars, checkVars, storeVars
  <2>3. CASE Certify
    BY <2>3 DEF TypeOK, Certify, Stages, setupVars, candVars, flagVars, checkVars, storeVars
  <2>4. CASE TraditionalReturn
    BY <2>4 DEF TypeOK, TraditionalReturn, Rest, Verdict, None, setupVars, certVars, candVars,
                flagVars, storeVars
  <2>5. CASE SyncIn
    <3>1. runSeed' \in [Dir -> Seed]
      BY <2>5 DEF TypeOK, SyncIn
    <3>2. QED
      BY <2>5, <3>1 DEF TypeOK, SyncIn, Stages, Rest, setupVars, certVars, candVars, flagVars, checkVars
  <2>6. CASE PrefillProvider
    <3>1. /\ cand' \in Cand \cup {None} /\ exp' \in Cand \cup {None} /\ run' \in Cand \cup {None}
      BY <2>6 DEF TypeOK, PrefillProvider, Cand, candVars, Propose
    <3>2. QED
      BY <2>6, <3>1 DEF TypeOK, PrefillProvider, Stages, setupVars, certVars, checkVars, storeVars
  <2>7. CASE ReplaySeed
    <3>1. /\ cand' \in Cand \cup {None} /\ exp' \in Cand \cup {None} /\ run' \in Cand \cup {None}
      BY <2>7 DEF TypeOK, ReplaySeed, RepairCandidateForDescriptor, Cand, candVars, Propose
    <3>2. QED
      BY <2>7, <3>1 DEF TypeOK, ReplaySeed, Stages, setupVars, certVars, Rest, checkVars, storeVars
  <2>8. CASE SpecialCandidate
    <3>1. /\ cand' \in Cand \cup {None} /\ exp' \in Cand \cup {None} /\ run' \in Cand \cup {None}
      BY <2>8 DEF TypeOK, SpecialCandidate, Cand, candVars, Propose
    <3>2. QED
      BY <2>8, <3>1 DEF TypeOK, SpecialCandidate, Stages, setupVars, certVars, checkVars, storeVars
  <2>9. CASE LLMAttempt
    <3>1. /\ cand' \in Cand \cup {None} /\ exp' \in Cand \cup {None} /\ run' \in Cand \cup {None}
      BY <2>9 DEF TypeOK, LLMAttempt, Cand, candVars, Propose
    <3>2. llmGenerated' \in BOOLEAN
      BY <2>9, Zenon DEF TypeOK, LLMAttempt
    <3>3. llmCalls' = llmCalls + 1 /\ pc' \in {"llm", "prepare", "fallback"}
      BY <2>9, Zenon DEF LLMAttempt
    <3>4. QED
      BY <2>9, <3>1, <3>2, <3>3 DEF TypeOK, LLMAttempt, Stages, setupVars, certVars, checkVars, storeVars
  <2>10. CASE DeterministicFallback
    <3>1. /\ cand' \in Cand \cup {None} /\ exp' \in Cand \cup {None} /\ run' \in Cand \cup {None}
      BY <2>10 DEF TypeOK, DeterministicFallback, Cand, candVars, Propose
    <3>2. QED
      BY <2>10, <3>1 DEF TypeOK, DeterministicFallback, Stages, setupVars, certVars, Rest, checkVars, storeVars
  <2>11. CASE Prepare
    BY <2>11, NormalizedType DEF TypeOK, Prepare, Propose, RepairAllowed, ShouldTryLLM, Stages,
                 setupVars, certVars, checkVars, storeVars
  <2>12. CASE StaticValidate
    BY <2>12, JudgeType, StaticOutcomeType DEF TypeOK, StaticValidate, Stages, setupVars, certVars,
                 candVars, flagVars, storeVars
  <2>13. CASE StaticRepair
    <3>1. /\ cand' \in Cand \cup {None} /\ exp' \in Cand \cup {None} /\ run' \in Cand \cup {None}
      BY <2>13, NormalizedType DEF TypeOK, StaticRepair, Cand, candVars, Propose
    <3>2. sv' \in Verdict
      BY <2>13, <3>1, JudgeType, StaticOutcomeType DEF TypeOK, StaticRepair
    <3>3. llmGenerated' \in BOOLEAN
      BY <2>13, Zenon DEF TypeOK, StaticRepair
    <3>4. QED
      BY <2>13, <3>1, <3>2, <3>3 DEF TypeOK, StaticRepair, Stages, setupVars, certVars, storeVars
  <2>14. CASE Diff
    <3>1. /\ cand' \in Cand \cup {None} /\ exp' \in Cand \cup {None} /\ run' \in Cand \cup {None}
      BY <2>14 DEF TypeOK, Diff, Cand, candVars
    <3>2. diff' \in Verdict /\ diffsIn' \in {"empty", "ok", "fail"}
      BY <2>14, <3>1, JudgeType DEF TypeOK, Diff, DiffOutcome
    <3>3. QED
      BY <2>14, <3>1, <3>2 DEF TypeOK, Diff, Stages, setupVars, certVars, flagVars, storeVars
  <2>15. CASE DiffRepair
    <3>1. /\ cand' \in Cand \cup {None} /\ exp' \in Cand \cup {None} /\ run' \in Cand \cup {None}
      BY <2>15, NormalizedType DEF TypeOK, DiffRepair, Cand, candVars
    <3>2. diff' \in Verdict /\ diffsIn' \in {"empty", "ok", "fail"}
      BY <2>15, <3>1, JudgeType, NormalizedType DEF TypeOK, DiffRepair, DiffOutcome, Cand
    <3>3. llmGenerated' \in BOOLEAN
      BY <2>15, Zenon DEF TypeOK, DiffRepair
    <3>4. QED
      BY <2>15, <3>1, <3>2, <3>3 DEF TypeOK, DiffRepair, Stages, setupVars, certVars, storeVars
  <2>16. CASE ProviderRepair
    <3>1. /\ cand' \in Cand \cup {None} /\ exp' \in Cand \cup {None} /\ run' \in Cand \cup {None}
      BY <2>16 DEF TypeOK, ProviderRepair, Cand, candVars, Replace
    <3>2. diff' \in Verdict /\ diffsIn' \in {"empty", "ok", "fail"}
      BY <2>16, <3>1, JudgeType DEF TypeOK, ProviderRepair, Replace, Cand
    <3>3. QED
      BY <2>16, <3>1, <3>2 DEF TypeOK, ProviderRepair, Stages, setupVars, certVars, flagVars, storeVars
  <2>17. CASE MacroRepair
    <3>1. /\ cand' \in Cand \cup {None} /\ exp' \in Cand \cup {None} /\ run' \in Cand \cup {None}
      BY <2>17 DEF TypeOK, MacroRepair, Cand, candVars, Replace
    <3>2. diff' \in Verdict /\ diffsIn' \in {"empty", "ok", "fail"}
      BY <2>17, <3>1, JudgeType DEF TypeOK, MacroRepair, Replace, Cand
    <3>3. QED
      BY <2>17, <3>1, <3>2 DEF TypeOK, MacroRepair, Stages, setupVars, certVars, storeVars
  <2>18. CASE StageC
    BY <2>18 DEF TypeOK, StageC, StageCRuns, Stages, setupVars, certVars, candVars, flagVars, storeVars
  <2>19. CASE SaveSeed
    BY <2>19, SeedTypes, SavedSeedType DEF TypeOK, SaveSeed, Stages, setupVars, certVars, candVars,
                 flagVars, checkVars
  <2>20. CASE SyncOut
    BY <2>20, SeedTypes DEF TypeOK, SyncOut, Stages, setupVars, certVars, candVars, flagVars, checkVars
  <2>21. CASE Emit
    BY <2>21 DEF TypeOK, Emit, Rest, setupVars, certVars, candVars, flagVars, checkVars, storeVars
  <2>22. CASE Raise
    BY <2>22, ForgetTypes DEF TypeOK, Raise, Rest, setupVars, storeVars
  <2>23. CASE Kill
    <3>1. runSeed' \in [Dir -> Seed] /\ cacheSeed' \in Seed
      BY <2>23, SeedTypes DEF TypeOK, Kill, storeVars
    <3>2. QED
      BY <2>23, <3>1, ForgetTypes DEF TypeOK, Kill, Rest, setupVars
  <2>24. CASE UNCHANGED vars
    BY <2>24 DEF TypeOK, vars, setupVars, certVars, candVars, flagVars, checkVars, storeVars
  <2>25. QED
    BY <2>1, <2>2, <2>3, <2>4, <2>5, <2>6, <2>7, <2>8, <2>9, <2>10, <2>11, <2>12, <2>13, <2>14,
       <2>15, <2>16, <2>17, <2>18, <2>19, <2>20, <2>21, <2>22, <2>23, <2>24 DEF Next, Step
<1>3. QED
  BY <1>1, <1>2, PTL DEF Spec

-----------------------------------------------------------------------------
(* The evidence a run holds, as an inductive invariant.                    *)

BeforeStatic == {"launch", "certify", "traditional", "syncin", "prefill", "replay",
                 "special", "llm", "fallback", "prepare", "static"}
BeforeDiff == BeforeStatic \cup {"staticRepair", "diff"}

(* No verdict is there before its stage; static validation has a           *)
(* certificate; a repair starts from a failure.                            *)
VerdictsInOrder ==
    /\ pc \in {"static", "staticRepair"} => cert # "none"
    /\ pc \in BeforeStatic => sv.is = "absent"
    /\ pc \in BeforeDiff => diff.is = "absent" /\ diffsIn = "empty" /\ extra = {}
    /\ pc = "staticRepair" => sv.is = "fail"
    /\ pc = "diffRepair" => diff.is = "fail" /\ diffsIn = "fail"

(* Only a run that failed static validation can hold two intents.          *)
SplitFailed == cand # exp => sv.is = "fail"

(* The verdict of the report and the local results speak of one intent,    *)
(* the expansion the run holds.                                            *)
AgreedRun == diff.is = "ok" => diff.on = run /\ run = exp
ResultsReported == diffsIn = "ok" => diff.is = "ok"

(* A passing static verdict had a certificate in scope, and is about the   *)
(* intent held unless that intent came from stage 7.                       *)
Stage7Cand == {"llm7", "canonical", "macro"}
CheckedIntent ==
    sv.is = "ok" =>
        /\ cert # "none"
        /\ cert \in {"v1", "v2"} => contract # "OUT_OF_SCOPE"
        /\ sv.on = exp \/ exp \in Stage7Cand

ExtraLate ==
    extra # {} => /\ diffsIn = "ok" /\ pc \in {"save", "syncout", "emit", "done"}
                  /\ "mutation" \in extra => cert # "none"

Evidence ==
    /\ VerdictsInOrder /\ SplitFailed /\ AgreedRun /\ ResultsReported
    /\ CheckedIntent /\ ExtraLate

IInv == TypeOK /\ Evidence /\ TrustedSeedAgreed /\ UnrepairedSeedChecked /\ AcceptedEmission

(* What a verdict says of the judgement it records.                        *)
LEMMA JudgeSays == ASSUME NEW ok \in BOOLEAN, NEW c
                   PROVE  /\ Judge(ok, c).on = c
                          /\ ok => Judge(ok, c).is = "ok"
                          /\ ~ok => Judge(ok, c).is = "fail"
BY DEF Judge

(* Only an intent in scope passes static validation.                       *)
LEMMA PassesInScope ==
    TRUE \in StaticOutcome => (cert \in {"v1", "v2"} => contract # "OUT_OF_SCOPE")
BY DEF StaticOutcome

LEMMA EvidenceInit == Init => Evidence
BY DEF Init, Evidence, VerdictsInOrder, SplitFailed, AgreedRun, ResultsReported, CheckedIntent,
       ExtraLate, BeforeStatic, BeforeDiff, NoVerdict, Rest

LEMMA EvidenceStep == TypeOK /\ Evidence /\ [Next]_vars => Evidence'
<1> SUFFICES ASSUME TypeOK, Evidence, [Next]_vars PROVE Evidence'
  OBVIOUS
<1> USE DEF Evidence, VerdictsInOrder, SplitFailed, AgreedRun, ResultsReported, CheckedIntent,
            ExtraLate, BeforeStatic, BeforeDiff
<1>0. CASE Forget /\ pc' \in {"launch", "raised", "killed"}
  BY <1>0 DEF Forget, NoVerdict
<1>1. CASE \E d \in Dir, c \in Configs : StartRun(d, c)
  BY <1>0, <1>1 DEF StartRun
<1>2. CASE Raise
  BY <1>0, <1>2 DEF Raise
<1>3. CASE Kill
  BY <1>0, <1>3 DEF Kill
<1>4. CASE Launch
  BY <1>4 DEF Launch, setupVars, certVars, candVars, flagVars, checkVars, storeVars
<1>5. CASE Certify
  BY <1>5 DEF Certify, setupVars, certVars, candVars, flagVars, checkVars, storeVars
<1>6. CASE TraditionalReturn
  BY <1>6 DEF TraditionalReturn, setupVars, certVars, candVars, flagVars, checkVars, storeVars
<1>7. CASE SyncIn
  BY <1>7 DEF SyncIn, setupVars, certVars, candVars, flagVars, checkVars, storeVars
<1>8. CASE PrefillProvider
  BY <1>8 DEF PrefillProvider, Propose, setupVars, certVars, candVars, flagVars, checkVars, storeVars
<1>9. CASE ReplaySeed
  BY <1>9 DEF ReplaySeed, RepairCandidateForDescriptor, Propose, setupVars, certVars, candVars, flagVars, checkVars, storeVars
<1>10. CASE SpecialCandidate
  BY <1>10 DEF SpecialCandidate, Propose, setupVars, certVars, candVars, flagVars, checkVars, storeVars
<1>11. CASE LLMAttempt
  BY <1>11 DEF LLMAttempt, Propose, setupVars, certVars, candVars, flagVars, checkVars, storeVars
<1>12. CASE DeterministicFallback
  BY <1>12 DEF DeterministicFallback, Propose, setupVars, certVars, candVars, flagVars, checkVars, storeVars
<1>13. CASE Prepare
  BY <1>13 DEF Prepare, Propose, setupVars, certVars, candVars, flagVars, checkVars, storeVars
<1>14. CASE StaticValidate
  <2>1. PICK ok \in StaticOutcome : /\ sv' = Judge(ok, exp)
                                    /\ pc' = IF repairAllowed /\ ~ok THEN "staticRepair" ELSE "diff"
    BY <1>14 DEF StaticValidate
  <2>2. ok \in BOOLEAN
    BY StaticOutcomeType
  <2>3. CASE ok = TRUE
    <3>1. sv'.on = exp /\ sv'.is = "ok" /\ pc' = "diff"
      BY <2>1, <2>3, JudgeSays
    <3>2. QED
      BY <1>14, <2>1, <2>3, <3>1, PassesInScope DEF StaticValidate, setupVars, certVars, candVars, flagVars, checkVars, storeVars
  <2>4. CASE ok = FALSE
    <3>1. sv'.is = "fail" /\ pc' \in {"staticRepair", "diff"}
      BY <2>1, <2>4, JudgeSays
    <3>2. QED
      BY <1>14, <3>1 DEF StaticValidate, setupVars, certVars, candVars, flagVars, checkVars, storeVars
  <2>5. QED
    BY <2>2, <2>3, <2>4
<1>15. CASE StaticRepair
  <2>1. CASE UNCHANGED sv /\ (cand' = exp' \/ sv.is = "fail")
    BY <1>15, <2>1 DEF StaticRepair, setupVars, certVars, candVars, flagVars, checkVars, storeVars
  <2>2. CASE \E ok \in StaticOutcome : sv' = Judge(ok, exp') /\ cand' = exp'
    <3>1. PICK ok \in StaticOutcome : sv' = Judge(ok, exp') /\ cand' = exp'
      BY <2>2
    <3>2. /\ sv'.on = exp'
          /\ sv'.is = "ok" => (cert \in {"v1", "v2"} => contract # "OUT_OF_SCOPE")
      BY <3>1, JudgeSays, StaticOutcomeType, PassesInScope
    <3>3. QED
      BY <1>15, <3>1, <3>2 DEF StaticRepair, setupVars, certVars, candVars, flagVars, checkVars, storeVars
  <2>3. QED
    BY <1>15, <2>1, <2>2 DEF StaticRepair, Propose
<1>16. CASE Diff
  BY <1>16 DEF Diff, Judge, DiffOutcome, setupVars, certVars, candVars, flagVars, checkVars, storeVars
<1>17. CASE DiffRepair
  <2> DEFINE fix == Normalized("llm7")
  <2>1. fix \in Stage7Cand
    BY DEF Normalized, Stage7Cand
  <2>2. CASE UNCHANGED <<candVars, diff, diffsIn>>
    BY <1>17, <2>2 DEF DiffRepair, setupVars, certVars, candVars, flagVars, checkVars, storeVars
  <2>3. CASE cand' = fix /\ exp' = fix /\ UNCHANGED <<diff, diffsIn>>
    BY <1>17, <2>1, <2>3 DEF DiffRepair, setupVars, certVars, candVars, flagVars, checkVars, storeVars
  <2>4. CASE /\ cand' = fix /\ exp' = fix /\ run' = fix
             /\ \E out \in DiffOutcome :
                   /\ diffsIn' = out
                   /\ diff' = IF out = "empty" THEN diff ELSE Judge(out = "ok", fix)
    <3>1. /\ diff'.is = "ok" => diff'.on = fix
          /\ diffsIn' = "ok" => diff'.is = "ok"
      BY <1>17, <2>4 DEF DiffRepair, DiffOutcome, Judge
    <3>2. QED
      BY <1>17, <2>1, <2>4, <3>1 DEF DiffRepair, setupVars, certVars, candVars, flagVars, checkVars, storeVars
  <2>5. QED
    BY <1>17, <2>2, <2>3, <2>4 DEF DiffRepair
<1>18. CASE ProviderRepair
  BY <1>18 DEF ProviderRepair, Replace, Judge, Stage7Cand, setupVars, certVars, candVars, flagVars, checkVars, storeVars
<1>19. CASE MacroRepair
  BY <1>19 DEF MacroRepair, Replace, Judge, Stage7Cand, setupVars, certVars, candVars, flagVars, checkVars, storeVars
<1>20. CASE StageC
  BY <1>20 DEF StageC, StageCRuns, setupVars, certVars, candVars, flagVars, checkVars, storeVars
<1>21. CASE SaveSeed
  BY <1>21 DEF SaveSeed, setupVars, certVars, candVars, flagVars, checkVars, storeVars
<1>22. CASE SyncOut
  BY <1>22 DEF SyncOut, setupVars, certVars, candVars, flagVars, checkVars, storeVars
<1>23. CASE Emit
  BY <1>23 DEF Emit, setupVars, certVars, candVars, flagVars, checkVars, storeVars
<1>24. CASE UNCHANGED vars
  BY <1>24 DEF vars, setupVars, certVars, candVars, flagVars, checkVars, storeVars
<1>25. QED
  BY <1>1, <1>2, <1>3, <1>4, <1>5, <1>6, <1>7, <1>8, <1>9, <1>10, <1>11, <1>12, <1>13, <1>14, <1>15, <1>16, <1>17, <1>18, <1>19, <1>20, <1>21, <1>22, <1>23, <1>24 DEF Next, Step

-----------------------------------------------------------------------------
(* The seeds.                                                              *)

(* A trusted seed holds an intent that agreed, and that was validated      *)
(* unless it came from stage 7.                                            *)
SeedOK(s) ==
    s.status = "trusted" => s.diffed /\ (s.src \in {"llm1", "llm2", "llm6"} => s.checked)

StoresOK == (\A d \in Dir : SeedOK(runSeed[d])) /\ SeedOK(cacheSeed)

LEMMA StoresOKMeans == StoresOK <=> TrustedSeedAgreed /\ UnrepairedSeedChecked
BY DEF StoresOK, SeedOK, TrustedSeedAgreed, UnrepairedSeedChecked, Seeds

LEMMA TornSeedOK == SeedOK(TornSeed) /\ SeedOK(NoSeed) /\ SeedOK(OldSeed)
BY DEF SeedOK, TornSeed, NoSeed, OldSeed

(* A verdict that passes on c is the verdict Judge(TRUE, c).               *)
LEMMA PassingVerdict ==
    ASSUME NEW v \in Verdict, NEW c, v.is = "ok", v.on = c
    PROVE  v = Judge(TRUE, c)
BY DEF Verdict, Judge

(* What a run may promote is a seed worth trusting: both verdicts pass, so *)
(* cand, its expansion and the intent that was run are the same.           *)
LEMMA PromotedSeedOK == TypeOK /\ Evidence /\ Promotable => SeedOK(SavedSeed)
<1> SUFFICES ASSUME TypeOK, Evidence, Promotable PROVE SeedOK(SavedSeed)
  OBVIOUS
<1>1. sv.is = "ok" /\ diff.is = "ok"
  BY DEF Promotable
<1>2. diff.on = cand
  BY <1>1 DEF Evidence, SplitFailed, AgreedRun
<1>3. diff = Judge(TRUE, cand)
  BY <1>1, <1>2, PassingVerdict DEF TypeOK
<1>4. cand \in {"llm1", "llm2", "llm6"} => sv = Judge(TRUE, cand)
  <2>1. cand \in {"llm1", "llm2", "llm6"} => sv.on = cand
    BY <1>1 DEF Evidence, SplitFailed, CheckedIntent, Stage7Cand
  <2>2. QED
    BY <1>1, <2>1, PassingVerdict DEF TypeOK
<1>5. QED
  BY <1>3, <1>4 DEF SeedOK, SavedSeed

LEMMA StoresStep == TypeOK /\ Evidence /\ StoresOK /\ [Next]_vars => StoresOK'
<1> SUFFICES ASSUME TypeOK, Evidence, StoresOK, [Next]_vars PROVE StoresOK'
  OBVIOUS
<1>1. CASE UNCHANGED storeVars
  BY <1>1 DEF StoresOK, storeVars
<1>2. CASE \E d \in Dir, c \in Configs : StartRun(d, c)
  BY <1>1, <1>2 DEF StartRun
<1>3. CASE Raise
  BY <1>1, <1>3 DEF Raise
<1>4. CASE Kill
  <2>1. CASE \E s \in {TornSeed} : runSeed' = [runSeed EXCEPT ![dir] = s] /\ UNCHANGED cacheSeed
    BY <2>1, TornSeedOK DEF StoresOK, TypeOK
  <2>2. CASE cacheSeed' = TornSeed /\ UNCHANGED runSeed
    BY <2>2, TornSeedOK DEF StoresOK
  <2>3. QED
    BY <1>1, <1>4, <2>1, <2>2 DEF Kill
<1>5. CASE SyncIn
  <2>1. runSeed' \in {runSeed, [runSeed EXCEPT ![dir] = cacheSeed]} /\ UNCHANGED cacheSeed
    BY <1>5 DEF SyncIn
  <2>2. QED
    BY <2>1 DEF StoresOK, TypeOK
<1>6. CASE SaveSeed
  <2>1. CASE Promotable
    <3>1. PICK s \in {SavedSeed, runSeed[dir], TornSeed} : runSeed' = [runSeed EXCEPT ![dir] = s]
      BY <1>6, <2>1 DEF SaveSeed
    <3>2. SeedOK(s)
      BY <2>1, PromotedSeedOK, TornSeedOK DEF StoresOK, TypeOK
    <3>3. QED
      BY <1>6, <3>1, <3>2 DEF StoresOK, TypeOK, SaveSeed
  <2>2. CASE ~Promotable
    BY <1>6, <2>2 DEF SaveSeed, StoresOK
  <2>3. QED
    BY <2>1, <2>2
<1>7. CASE SyncOut
  <2>1. cacheSeed' \in {runSeed[dir], cacheSeed, TornSeed} /\ UNCHANGED runSeed
    BY <1>7 DEF SyncOut
  <2>2. QED
    BY <2>1, TornSeedOK DEF StoresOK, TypeOK
<1>8. CASE Launch
  BY <1>1, <1>8 DEF Launch
<1>9. CASE Certify
  BY <1>1, <1>9 DEF Certify
<1>10. CASE TraditionalReturn
  BY <1>1, <1>10 DEF TraditionalReturn
<1>11. CASE PrefillProvider
  BY <1>1, <1>11 DEF PrefillProvider
<1>12. CASE ReplaySeed
  BY <1>1, <1>12 DEF ReplaySeed
<1>13. CASE SpecialCandidate
  BY <1>1, <1>13 DEF SpecialCandidate
<1>14. CASE LLMAttempt
  BY <1>1, <1>14 DEF LLMAttempt
<1>15. CASE DeterministicFallback
  BY <1>1, <1>15 DEF DeterministicFallback
<1>16. CASE Prepare
  BY <1>1, <1>16 DEF Prepare
<1>17. CASE StaticValidate
  BY <1>1, <1>17 DEF StaticValidate
<1>18. CASE StaticRepair
  BY <1>1, <1>18 DEF StaticRepair
<1>19. CASE Diff
  BY <1>1, <1>19 DEF Diff
<1>20. CASE DiffRepair
  BY <1>1, <1>20 DEF DiffRepair
<1>21. CASE ProviderRepair
  BY <1>1, <1>21 DEF ProviderRepair
<1>22. CASE MacroRepair
  BY <1>1, <1>22 DEF MacroRepair
<1>23. CASE StageC
  BY <1>1, <1>23 DEF StageC
<1>24. CASE Emit
  BY <1>1, <1>24 DEF Emit
<1>25. CASE UNCHANGED vars
  BY <1>1, <1>25 DEF vars
<1>26. QED
  BY <1>2, <1>3, <1>4, <1>5, <1>6, <1>7, <1>8, <1>9, <1>10, <1>11, <1>12, <1>13, <1>14, <1>15, <1>16, <1>17, <1>18, <1>19, <1>20, <1>21, <1>22, <1>23, <1>24, <1>25 DEF Next, Step

-----------------------------------------------------------------------------
(* Emission.                                                               *)

LEMMA EmissionStep == TypeOK /\ Evidence /\ AcceptedEmission /\ [Next]_vars => AcceptedEmission'
<1> SUFFICES ASSUME TypeOK, Evidence, AcceptedEmission, [Next]_vars PROVE AcceptedEmission'
  OBVIOUS
<1>1. CASE Emit
  BY <1>1 DEF Emit, AcceptedEmission, Evidence, SplitFailed, AgreedRun, checkVars
<1>2. CASE TraditionalReturn
  BY <1>2 DEF TraditionalReturn, AcceptedEmission
<1>3. CASE UNCHANGED vars
  BY <1>3 DEF vars, checkVars, AcceptedEmission
<1>4. CASE ~Emit /\ ~TraditionalReturn /\ Next
  <2>1. pc' # "done"
    BY <1>4 DEF Next, Step, StartRun, Launch, Certify, SyncIn, PrefillProvider, ReplaySeed,
       SpecialCandidate, LLMAttempt, DeterministicFallback, Prepare, StaticValidate, StaticRepair,
       Diff, DiffRepair, ProviderRepair, MacroRepair, StageC, SaveSeed, SyncOut, Raise, Kill
  <2>2. QED
    BY <2>1 DEF AcceptedEmission
<1>5. QED
  BY <1>1, <1>2, <1>3, <1>4

-----------------------------------------------------------------------------
(* The inductive invariant and what follows from it.                       *)

(* What a run knows, and every seed file, is consistent at every moment.   *)
THEOREM Inductive == Spec => []IInv
<1>1. Init => Evidence /\ StoresOK /\ AcceptedEmission
  <2>1. Init => StoresOK
    BY TornSeedOK DEF Init, StoresOK
  <2>2. Init => AcceptedEmission
    BY DEF Init, AcceptedEmission
  <2>3. QED
    BY <2>1, <2>2, EvidenceInit
<1>2. TypeOK /\ Evidence /\ StoresOK /\ AcceptedEmission /\ [Next]_vars
      => (Evidence /\ StoresOK /\ AcceptedEmission)'
  BY EvidenceStep, StoresStep, EmissionStep
<1>3. Spec => [](Evidence /\ StoresOK /\ AcceptedEmission)
  BY <1>1, <1>2, TypeCorrect, PTL DEF Spec
<1>4. TypeOK /\ Evidence /\ StoresOK /\ AcceptedEmission => IInv
  BY StoresOKMeans DEF IInv
<1>5. QED
  BY <1>3, <1>4, TypeCorrect, PTL

(* No seed is ever trusted whose intent did not itself agree with source   *)
(* execution: not after a repair that stopped half-way, a raise, a kill or *)
(* a copy.                                                                 *)
THEOREM SeedsAgree == Spec => []TrustedSeedAgreed
<1>1. IInv => TrustedSeedAgreed
  BY DEF IInv
<1>2. QED
  BY <1>1, Inductive, PTL

(* No seed is ever trusted whose intent skipped static validation, except  *)
(* the intents stage 7 puts in place.                                      *)
THEOREM SeedsChecked == Spec => []UnrepairedSeedChecked
<1>1. IInv => UnrepairedSeedChecked
  BY DEF IInv
<1>2. QED
  BY <1>1, Inductive, PTL

(* A passing diff in the report is about the intent the run goes on with.  *)
THEOREM DiffIsOfRun == Spec => []PassingDiffIsOfRun
<1>1. IInv => PassingDiffIsOfRun
  BY DEF IInv, Evidence, AgreedRun, PassingDiffIsOfRun
<1>2. QED
  BY <1>1, Inductive, PTL

(* Stage C and the mutation run only exercise an intent that agreed.       *)
THEOREM VerificationJustified == Spec => []VerificationFollowsAgreement
<1>1. IInv => VerificationFollowsAgreement
  BY DEF IInv, Evidence, ExtraLate, ResultsReported, AgreedRun, VerificationFollowsAgreement
<1>2. QED
  BY <1>1, Inductive, PTL

(* When both verdicts of a finished run pass, MLIR was emitted from the    *)
(* intent that was executed.                                               *)
THEOREM EmissionAccepted == Spec => []AcceptedEmission
<1>1. IInv => AcceptedEmission
  BY DEF IInv
<1>2. QED
  BY <1>1, Inductive, PTL

(* Promotion needs a certificate whose contract does not rule the kernel   *)
(* out.                                                                    *)
THEOREM PromotesInScope == Spec => PromotionInScope
<1>1. IInv /\ [Next]_vars =>
        (pc = "save" /\ runSeed' # runSeed =>
            cert # "none" /\ (cert \in {"v1", "v2"} => contract # "OUT_OF_SCOPE"))
  <2> SUFFICES ASSUME IInv, [Next]_vars, pc = "save", runSeed' # runSeed PROVE sv.is = "ok"
    BY DEF IInv, Evidence, CheckedIntent
  <2>1. CASE SaveSeed
    BY <2>1 DEF SaveSeed, Promotable
  <2>2. CASE Kill
    BY <2>2 DEF Kill, Promotable, storeVars
  <2>3. CASE ~SaveSeed /\ ~Kill
    BY <2>3 DEF Next, Step, StartRun, Launch, Certify, SyncIn, PrefillProvider, ReplaySeed,
       SpecialCandidate, LLMAttempt, DeterministicFallback, Prepare, StaticValidate, StaticRepair,
       Diff, DiffRepair, ProviderRepair, MacroRepair, StageC, SyncOut, Raise, TraditionalReturn,
       Emit, Rest, Unguarded, vars, storeVars
  <2>4. QED
    BY <2>1, <2>2, <2>3
<1>2. QED
  BY <1>1, Inductive, PTL DEF Spec, PromotionInScope

-----------------------------------------------------------------------------
(* Where the candidate comes from, as an inductive invariant.              *)

BeforeReplay == {"launch", "certify", "traditional", "syncin", "prefill", "replay"}
HoldsCandidate == Stages \ (BeforeReplay \cup {"special", "llm", "fallback"})

(* No LLM is asked before the seed was looked at; a run that replayed a    *)
(* seed, or fell back, has a candidate and so never comes to the LLM; and  *)
(* a candidate of either kind is not repaired by the LLM.                  *)
CandidateSources ==
    /\ pc \in BeforeReplay => ~cacheUsed /\ ~repairAllowed
    /\ pc \in BeforeReplay \cup {"special"} => llmCalls = 0 /\ ~llmGenerated
    /\ cacheUsed \/ fallbackUsed => cand # None
    /\ pc \in HoldsCandidate => cand # None
    /\ pc \in {"llm", "fallback"} => cand = None
    /\ pc = "llm" => ShouldTryLLM
    /\ repairAllowed => ShouldTryLLM /\ ~cacheUsed
    /\ pc \in {"static", "staticRepair", "diff", "diffRepair"} /\ repairAllowed => ~fallbackUsed
    /\ pc \in {"staticRepair", "diffRepair"} => repairAllowed

SourcesInv == CandidateSources /\ ReplayIsLLMFree

LEMMA SourcesInit == Init => SourcesInv
BY DEF Init, SourcesInv, CandidateSources, ReplayIsLLMFree, BeforeReplay, HoldsCandidate, Stages

(* The policy is that of the configuration.                                *)
LEMMA PolicyKept == UNCHANGED cfg => (ShouldTryLLM' <=> ShouldTryLLM)
BY DEF ShouldTryLLM, Policy

LEMMA SourcesStep == TypeOK /\ SourcesInv /\ [Next]_vars => SourcesInv'
<1> SUFFICES ASSUME TypeOK, SourcesInv, [Next]_vars PROVE SourcesInv'
  OBVIOUS
<1> USE DEF SourcesInv, CandidateSources, ReplayIsLLMFree, BeforeReplay, HoldsCandidate, Stages,
            TypeOK, Cand, None
<1>0. CASE Forget /\ pc' \in {"launch", "raised", "killed"}
  BY <1>0 DEF Forget
<1>1. CASE \E d \in Dir, c \in Configs : StartRun(d, c)
  BY <1>0, <1>1 DEF StartRun
<1>2. CASE Raise
  BY <1>0, <1>2 DEF Raise
<1>3. CASE Kill
  BY <1>0, <1>3 DEF Kill
<1>4. CASE Launch
  BY <1>4, PolicyKept DEF Launch, setupVars, certVars, candVars, flagVars
<1>5. CASE Certify
  BY <1>5, PolicyKept DEF Certify, setupVars, certVars, candVars, flagVars
<1>6. CASE TraditionalReturn
  BY <1>6, PolicyKept DEF TraditionalReturn, setupVars, certVars, candVars, flagVars
<1>7. CASE SyncIn
  BY <1>7, PolicyKept DEF SyncIn, setupVars, certVars, candVars, flagVars
<1>8. CASE PrefillProvider
  BY <1>8, PolicyKept DEF PrefillProvider, Propose, setupVars, certVars, candVars, flagVars
<1>9. CASE ReplaySeed
  BY <1>9, PolicyKept DEF ReplaySeed, RepairCandidateForDescriptor, Propose, setupVars, certVars, candVars, flagVars
<1>10. CASE SpecialCandidate
  BY <1>10, PolicyKept DEF SpecialCandidate, Propose, setupVars, certVars, candVars, flagVars
<1>11. CASE LLMAttempt
  BY <1>11, PolicyKept DEF LLMAttempt, Propose, setupVars, certVars, candVars, flagVars
<1>12. CASE DeterministicFallback
  BY <1>12, PolicyKept DEF DeterministicFallback, Propose, setupVars, certVars, candVars, flagVars
<1>13. CASE Prepare
  BY <1>13, PolicyKept DEF Prepare, Propose, Normalized, RepairAllowed, setupVars, certVars, candVars, flagVars
<1>14. CASE StaticValidate
  BY <1>14, PolicyKept DEF StaticValidate, setupVars, certVars, candVars, flagVars
<1>15. CASE StaticRepair
  BY <1>15, PolicyKept DEF StaticRepair, Propose, Normalized, setupVars, certVars, candVars, flagVars
<1>16. CASE Diff
  BY <1>16, PolicyKept DEF Diff, setupVars, certVars, candVars, flagVars
<1>17. CASE DiffRepair
  BY <1>17, PolicyKept DEF DiffRepair, Normalized, setupVars, certVars, candVars, flagVars
<1>18. CASE ProviderRepair
  BY <1>18, PolicyKept DEF ProviderRepair, Replace, setupVars, certVars, candVars, flagVars
<1>19. CASE MacroRepair
  BY <1>19, PolicyKept DEF MacroRepair, Replace, setupVars, certVars, candVars, flagVars
<1>20. CASE StageC
  BY <1>20, PolicyKept DEF StageC, setupVars, certVars, candVars, flagVars
<1>21. CASE SaveSeed
  BY <1>21, PolicyKept DEF SaveSeed, setupVars, certVars, candVars, flagVars
<1>22. CASE SyncOut
  BY <1>22, PolicyKept DEF SyncOut, setupVars, certVars, candVars, flagVars
<1>23. CASE Emit
  BY <1>23, PolicyKept DEF Emit, setupVars, certVars, candVars, flagVars
<1>24. CASE UNCHANGED vars
  BY <1>24, PolicyKept DEF vars, setupVars, certVars, candVars, flagVars
<1>25. QED
  BY <1>1, <1>2, <1>3, <1>4, <1>5, <1>6, <1>7, <1>8, <1>9, <1>10, <1>11, <1>12, <1>13, <1>14, <1>15, <1>16, <1>17, <1>18, <1>19, <1>20, <1>21, <1>22, <1>23, <1>24 DEF Next, Step

(* A run that replays a seed, or may not ask the LLM, has no LLM call.     *)
THEOREM ReplayAsksNobody == Spec => []ReplayIsLLMFree
<1>1. SourcesInv => ReplayIsLLMFree
  BY DEF SourcesInv
<1>2. QED
  BY <1>1, SourcesInit, SourcesStep, TypeCorrect, PTL DEF Spec

(* Once a deterministic intent stands in, the run asks no LLM any more and *)
(* promotes nothing.                                                       *)
THEOREM FallbackIsFinal == Spec => FallbackEndsLLM
<1>1. TypeOK /\ SourcesInv /\ [Next]_vars =>
        (fallbackUsed /\ pc' \in Stages \cup {"done"} /\ pc \in Stages =>
            llmCalls' = llmCalls /\ (pc = "save" => runSeed' = runSeed))
  <2> SUFFICES ASSUME TypeOK, SourcesInv, [Next]_vars, fallbackUsed,
                      pc' \in Stages \cup {"done"}, pc \in Stages
               PROVE  llmCalls' = llmCalls /\ (pc = "save" => runSeed' = runSeed)
    OBVIOUS
  <2>1. ~LLMAttempt /\ ~StaticRepair /\ ~DiffRepair
    BY DEF SourcesInv, CandidateSources, LLMAttempt, StaticRepair, DiffRepair
  <2>2. ~Raise /\ ~Kill
    BY DEF Raise, Kill, Stages
  <2>3. ~\E d \in Dir, c \in Configs : StartRun(d, c)
    BY DEF StartRun, Rest, Stages
  <2>4. llmCalls' = llmCalls
    BY <2>1, <2>2, <2>3 DEF Next, Step, Launch, Certify, TraditionalReturn, SyncIn, PrefillProvider,
       ReplaySeed, SpecialCandidate, DeterministicFallback, Prepare, StaticValidate, Diff,
       ProviderRepair, MacroRepair, StageC, SaveSeed, SyncOut, Emit, vars, flagVars
  <2>5. CASE SaveSeed
    BY <2>4, <2>5 DEF SaveSeed, Promotable
  <2>6. CASE ~SaveSeed /\ pc = "save"
    BY <2>4, <2>6, <2>2, <2>3 DEF Next, Step, Launch, Certify, TraditionalReturn, SyncIn, PrefillProvider,
       ReplaySeed, SpecialCandidate, LLMAttempt, DeterministicFallback, Prepare, StaticValidate,
       StaticRepair, Diff, DiffRepair, ProviderRepair, MacroRepair, StageC, SyncOut, Emit, vars,
       storeVars
  <2>7. QED
    BY <2>4, <2>5, <2>6
<1>2. QED
  BY <1>1, SourcesInit, SourcesStep, TypeCorrect, PTL DEF Spec, FallbackEndsLLM

-----------------------------------------------------------------------------
(* What auto mode replays.                                                 *)

(* Only the copy in, promotion and a kill touch the run directory's seed,  *)
(* and none of them does once a seed was replayed: the copy comes before,  *)
(* and promotion needs an LLM proposal.                                    *)
LEMMA ReplayedSeedStays ==
    TypeOK /\ SourcesInv /\ [Next]_vars /\ cacheUsed' /\ cacheUsed
        => UNCHANGED <<runSeed, dir, cfg>>
<1> SUFFICES ASSUME TypeOK, SourcesInv, [Next]_vars, cacheUsed', cacheUsed
             PROVE  UNCHANGED <<runSeed, dir, cfg>>
  OBVIOUS
<1>1. ~\E d \in Dir, c \in Configs : StartRun(d, c)
  BY DEF StartRun, Forget
<1>2. ~Raise /\ ~Kill
  BY DEF Raise, Kill, Forget
<1>3. ~SyncIn
  BY DEF SourcesInv, CandidateSources, BeforeReplay, SyncIn
<1>4. CASE SaveSeed
  <2>1. ~Promotable
    BY DEF SourcesInv, ReplayIsLLMFree, Promotable
  <2>2. QED
    BY <1>4, <2>1 DEF SaveSeed, setupVars
<1>5. CASE ~SaveSeed
  BY <1>1, <1>2, <1>3, <1>5 DEF Next, Step, Launch, Certify, TraditionalReturn, PrefillProvider,
     ReplaySeed, SpecialCandidate, LLMAttempt, DeterministicFallback, Prepare, StaticValidate,
     StaticRepair, Diff, DiffRepair, ProviderRepair, MacroRepair, StageC, SyncOut, Emit, vars,
     setupVars, storeVars
<1>6. QED
  BY <1>4, <1>5

LEMMA AutoReplayStep ==
    TypeOK /\ TrustedSeedAgreed /\ SourcesInv /\ AutoReplaysAgreed /\ [Next]_vars => AutoReplaysAgreed'
<1> SUFFICES ASSUME TypeOK, TrustedSeedAgreed, SourcesInv, AutoReplaysAgreed, [Next]_vars, cacheUsed',
                    Policy' = "auto"
             PROVE  runSeed'[dir'].diffed
  BY DEF AutoReplaysAgreed
<1>1. CASE cacheUsed
  <2>1. UNCHANGED <<runSeed, dir, cfg>>
    BY <1>1, ReplayedSeedStays
  <2>2. QED
    BY <1>1, <2>1 DEF AutoReplaysAgreed, Policy
<1>2. CASE ~cacheUsed
  <2>1. ReplaySeed
    BY <1>2 DEF Next, Step, StartRun, Forget, Launch, Certify, TraditionalReturn, SyncIn,
       PrefillProvider, SpecialCandidate, LLMAttempt, DeterministicFallback, Prepare, StaticValidate,
       StaticRepair, Diff, DiffRepair, ProviderRepair, MacroRepair, StageC, SaveSeed, SyncOut, Emit,
       Raise, Kill, vars, flagVars
  <2>2. UNCHANGED <<runSeed, dir, cfg>>
    BY <2>1 DEF ReplaySeed, setupVars, storeVars
  <2>3. Policy = "auto"
    BY <2>2 DEF Policy
  <2>4. IsSeedTrustedForAuto(runSeed[dir])
    BY <1>2, <2>1, <2>3 DEF ReplaySeed
  <2>5. runSeed[dir].diffed
    BY <2>4 DEF IsSeedTrustedForAuto, TrustedSeedAgreed, Seeds, TypeOK
  <2>6. QED
    BY <2>2, <2>5
<1>3. QED
  BY <1>1, <1>2

(* A run in auto mode replays only an intent that an earlier run found to  *)
(* agree with source execution, as long as it goes on.                     *)
THEOREM AutoReplaysProved == Spec => []AutoReplaysAgreed
<1>1. Init => AutoReplaysAgreed
  BY DEF Init, AutoReplaysAgreed
<1>2. Spec => [](TypeOK /\ TrustedSeedAgreed /\ SourcesInv)
  BY SourcesInit, SourcesStep, TypeCorrect, SeedsAgree, PTL DEF Spec
<1>3. QED
  BY <1>1, <1>2, AutoReplayStep, PTL DEF Spec

-----------------------------------------------------------------------------
(* The runs implement CertifiedStore.                                      *)

(* A trusted seed holds an intent.                                         *)
NamedSeed(s) == s.status = "trusted" => s.src \in Cand
SeedsNamed == (\A d \in Dir : NamedSeed(runSeed[d])) /\ NamedSeed(cacheSeed)

LEMMA PlainSeedsNamed == NamedSeed(NoSeed) /\ NamedSeed(TornSeed) /\ NamedSeed(OldSeed)
BY DEF NamedSeed, NoSeed, TornSeed, OldSeed

LEMMA SavedSeedNamed == TypeOK /\ SourcesInv /\ pc = "save" => NamedSeed(SavedSeed)
BY DEF TypeOK, SourcesInv, CandidateSources, HoldsCandidate, Stages, BeforeReplay, NamedSeed, SavedSeed

(* What a step does to the seeds, and to the intent that agrees: a run     *)
(* either promotes the intent that agrees, or copies a seed, or tears one, *)
(* or leaves them all.                                                     *)
Promotes == /\ pc = "save" /\ Promotable /\ diff' = diff
            /\ runSeed' = [runSeed EXCEPT ![dir] = SavedSeed] /\ UNCHANGED cacheSeed
CopiesIn == /\ HasSeed(cacheSeed) /\ diff' = diff
            /\ runSeed' = [runSeed EXCEPT ![dir] = cacheSeed] /\ UNCHANGED cacheSeed
CopiesOut == HasSeed(runSeed[dir]) /\ cacheSeed' = runSeed[dir] /\ UNCHANGED <<runSeed, diff>>
TearsRun == /\ runSeed' = [runSeed EXCEPT ![dir] = TornSeed] /\ UNCHANGED cacheSeed
            /\ diff' \in {diff, NoVerdict}
TearsCache == cacheSeed' = TornSeed /\ UNCHANGED runSeed /\ diff' \in {diff, NoVerdict}

LEMMA StoreSteps ==
    TypeOK /\ [Next]_vars =>
        UNCHANGED storeVars \/ Promotes \/ CopiesIn \/ CopiesOut \/ TearsRun \/ TearsCache
<1> SUFFICES ASSUME TypeOK, [Next]_vars
             PROVE  UNCHANGED storeVars \/ Promotes \/ CopiesIn \/ CopiesOut \/ TearsRun \/ TearsCache
  OBVIOUS
<1>1. CASE SyncIn
  BY <1>1 DEF SyncIn, CopiesIn, storeVars, checkVars
<1>2. CASE SaveSeed
  <2>1. CASE Promotable
    <3>1. PICK s \in {SavedSeed, runSeed[dir], TornSeed} : runSeed' = [runSeed EXCEPT ![dir] = s]
      BY <1>2, <2>1 DEF SaveSeed
    <3>2. pc = "save" /\ UNCHANGED <<cacheSeed, diff>>
      BY <1>2 DEF SaveSeed, checkVars
    <3>3. CASE s = runSeed[dir]
      BY <3>1, <3>2, <3>3 DEF TypeOK, storeVars
    <3>4. CASE s # runSeed[dir]
      BY <2>1, <3>1, <3>2, <3>4 DEF Promotes, TearsRun
    <3>5. QED
      BY <3>3, <3>4
  <2>2. CASE ~Promotable
    BY <1>2, <2>2 DEF SaveSeed, storeVars
  <2>3. QED
    BY <2>1, <2>2
<1>3. CASE SyncOut
  BY <1>3 DEF SyncOut, CopiesOut, TearsCache, storeVars, checkVars
<1>4. CASE Kill
  BY <1>4 DEF Kill, Forget, TearsRun, TearsCache, storeVars
<1>5. CASE ~SyncIn /\ ~SaveSeed /\ ~SyncOut /\ ~Kill
  BY <1>5 DEF Next, Step, StartRun, Launch, Certify, TraditionalReturn, PrefillProvider, ReplaySeed,
     SpecialCandidate, LLMAttempt, DeterministicFallback, Prepare, StaticValidate, StaticRepair,
     Diff, DiffRepair, ProviderRepair, MacroRepair, StageC, Emit, Raise, vars
<1>6. QED
  BY <1>1, <1>2, <1>3, <1>4, <1>5

LEMMA SeedsNamedStep == TypeOK /\ SourcesInv /\ SeedsNamed /\ [Next]_vars => SeedsNamed'
<1> SUFFICES ASSUME TypeOK, SourcesInv, SeedsNamed, [Next]_vars PROVE SeedsNamed'
  OBVIOUS
<1> USE DEF SeedsNamed, TypeOK
<1>1. CASE UNCHANGED storeVars
  BY <1>1 DEF storeVars
<1>2. CASE Promotes
  BY <1>2, SavedSeedNamed DEF Promotes
<1>3. CASE CopiesIn
  BY <1>3 DEF CopiesIn
<1>4. CASE CopiesOut
  BY <1>4 DEF CopiesOut
<1>5. CASE TearsRun
  BY <1>5, PlainSeedsNamed DEF TearsRun
<1>6. CASE TearsCache
  BY <1>6, PlainSeedsNamed DEF TearsCache
<1>7. QED
  BY <1>1, <1>2, <1>3, <1>4, <1>5, <1>6, StoreSteps

(* The abstract state: the intent that agrees and what each place holds.   *)
Places == Dir \cup {CacheDir}
Agreed == IF diff.is = "ok" THEN diff.on ELSE None
Store == [p \in Places |-> IF p = CacheDir THEN Held(cacheSeed) ELSE Held(runSeed[p])]

LEMMA HeldValues ==
    /\ \A s : NamedSeed(s) /\ HasSeed(s) => Held(s) # None
    /\ Held(TornSeed) = "junk" /\ Held(NoSeed) = None /\ Held(OldSeed) = "junk"
    /\ Held(SavedSeed) = cand
BY DEF NamedSeed, HasSeed, Held, TornSeed, NoSeed, OldSeed, SavedSeed, Cand, None

(* One seed written is one record written.                                 *)
LEMMA RunSeedRecorded ==
    ASSUME TypeOK, NEW s, runSeed' = [runSeed EXCEPT ![dir] = s], UNCHANGED cacheSeed
    PROVE  Store' = [Store EXCEPT ![dir] = Held(s)]
BY DirAssumption DEF TypeOK, Store, Places

LEMMA CacheSeedRecorded ==
    ASSUME UNCHANGED runSeed
    PROVE  Store' = [Store EXCEPT ![CacheDir] = Held(cacheSeed')]
BY DEF Store, Places

LEMMA AbstractStep ==
    TypeOK /\ TypeOK' /\ Evidence /\ SourcesInv /\ SeedsNamed /\ [Next]_vars =>
        \/ UNCHANGED Store /\ Agreed' \in Cand \cup {None}
        \/ \E p \in Places : /\ Store' = [Store EXCEPT ![p] = Agreed]
                              /\ Agreed # None /\ UNCHANGED Agreed
        \/ \E p \in Places : /\ Store' = [Store EXCEPT ![p] = "junk"]
                              /\ Agreed' \in {Agreed, None}
        \/ \E p, q \in Places : /\ Store[p] # None
                                 /\ Store' = [Store EXCEPT ![q] = Store[p]]
                                 /\ UNCHANGED Agreed
<1> SUFFICES ASSUME TypeOK, TypeOK', Evidence, SourcesInv, SeedsNamed, [Next]_vars
             PROVE  \/ UNCHANGED Store /\ Agreed' \in Cand \cup {None}
                    \/ \E p \in Places : /\ Store' = [Store EXCEPT ![p] = Agreed]
                                          /\ Agreed # None /\ UNCHANGED Agreed
                    \/ \E p \in Places : /\ Store' = [Store EXCEPT ![p] = "junk"]
                                          /\ Agreed' \in {Agreed, None}
                    \/ \E p, q \in Places : /\ Store[p] # None
                                             /\ Store' = [Store EXCEPT ![q] = Store[p]]
                                             /\ UNCHANGED Agreed
  OBVIOUS
<1>1. dir \in Places /\ CacheDir \in Places /\ dir # CacheDir
  BY DirAssumption DEF TypeOK, Places
<1>2. Store[dir] = Held(runSeed[dir]) /\ Store[CacheDir] = Held(cacheSeed)
  BY <1>1 DEF Store
<1>3. CASE UNCHANGED storeVars
  <2>1. UNCHANGED Store
    BY <1>3 DEF Store, storeVars
  <2>2. Agreed' \in Cand \cup {None}
    BY DEF TypeOK, Verdict, Agreed
  <2>3. QED
    BY <2>1, <2>2
<1>4. CASE Promotes
  <2>1. Agreed = cand /\ cand # None
    BY <1>4 DEF Promotes, Promotable, Evidence, SplitFailed, AgreedRun, Agreed, SourcesInv,
       CandidateSources, HoldsCandidate, Stages, BeforeReplay
  <2>2. Store' = [Store EXCEPT ![dir] = Agreed]
    BY <1>4, <2>1, RunSeedRecorded, HeldValues DEF Promotes
  <2>3. UNCHANGED Agreed
    BY <1>4 DEF Promotes, Agreed
  <2>4. QED
    BY <1>1, <2>1, <2>2, <2>3
<1>5. CASE CopiesIn
  <2>1. Store[CacheDir] # None
    BY <1>2, <1>5, HeldValues DEF CopiesIn, SeedsNamed
  <2>2. Store' = [Store EXCEPT ![dir] = Store[CacheDir]]
    BY <1>2, <1>5, RunSeedRecorded DEF CopiesIn
  <2>3. UNCHANGED Agreed
    BY <1>5 DEF CopiesIn, Agreed
  <2>4. QED
    BY <1>1, <2>1, <2>2, <2>3
<1>6. CASE CopiesOut
  <2>1. Store[dir] # None
    BY <1>2, <1>6, HeldValues DEF CopiesOut, SeedsNamed, TypeOK
  <2>2. Store' = [Store EXCEPT ![CacheDir] = Store[dir]]
    BY <1>2, <1>6, CacheSeedRecorded DEF CopiesOut
  <2>3. UNCHANGED Agreed
    BY <1>6 DEF CopiesOut, Agreed
  <2>4. QED
    BY <1>1, <2>1, <2>2, <2>3
<1>7. CASE TearsRun
  <2>1. Store' = [Store EXCEPT ![dir] = "junk"]
    BY <1>7, RunSeedRecorded, HeldValues DEF TearsRun
  <2>2. Agreed' \in {Agreed, None}
    BY <1>7 DEF TearsRun, Agreed, NoVerdict
  <2>3. QED
    BY <1>1, <2>1, <2>2
<1>8. CASE TearsCache
  <2>1. Store' = [Store EXCEPT ![CacheDir] = "junk"]
    BY <1>8, CacheSeedRecorded, HeldValues DEF TearsCache
  <2>2. Agreed' \in {Agreed, None}
    BY <1>8 DEF TearsCache, Agreed, NoVerdict
  <2>3. QED
    BY <1>1, <2>1, <2>2
<1>9. QED
  BY <1>3, <1>4, <1>5, <1>6, <1>7, <1>8, StoreSteps

(* Whatever is raised, killed, torn or copied: the only new record a run   *)
(* ever makes is the intent its own diff accepted.                         *)
THEOREM RunsCertify == Spec => StoresOnlyCertified
<1>1. Init => Certified!Init
  BY HeldValues DEF Init, Certified!Init, NoVerdict
<1>2. TypeOK /\ TypeOK' /\ Evidence /\ SourcesInv /\ SeedsNamed /\ [Next]_vars
        => [Certified!Next]_Certified!vars
  BY AbstractStep DEF Agreed, Store, Places, Certified!Next, Certified!vars, Certified!Agree,
     Certified!Certify, Certified!Damage, Certified!Copy
<1>3. Init => SeedsNamed
  BY PlainSeedsNamed DEF Init, SeedsNamed
<1>4. IInv => Evidence
  BY DEF IInv
<1>5. Spec => [](TypeOK /\ Evidence /\ SourcesInv /\ SeedsNamed)
  BY <1>3, <1>4, SeedsNamedStep, SourcesInit, SourcesStep, TypeCorrect, Inductive, PTL DEF Spec
<1>6. QED
  BY <1>1, <1>2, <1>5, PTL DEF Spec, StoresOnlyCertified, Certified!Spec
=============================================================================
