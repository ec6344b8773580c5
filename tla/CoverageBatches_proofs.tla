----------------------- MODULE CoverageBatches_proofs -----------------------
(***************************************************************************)
(* Proofs about CoverageBatches, for any families, any command lines and   *)
(* any number of kills.                                                    *)
(***************************************************************************)
EXTENDS CoverageBatches, FiniteSetTheorems, TLAPS

-----------------------------------------------------------------------------
(* What the operators return.                                              *)

LEMMA HomesAreSlots == \A g \in Family : <<g, 0>> \in Slots
<1>1. Cardinality(Ops) \in Nat
  BY OpsAssumption, FS_CardinalityType
<1>2. QED
  BY <1>1 DEF Slots

(* The family worked on is one of the scope.                               *)
LEMMA FamilyOfStep ==
    ASSUME opt \in Options, fi \in 1..Len(opt.families)
    PROVE  f \in Family /\ <<f, 0>> \in Slots /\ SemanticOps[f] \subseteq Ops
<1>1. opt.families \in Seq(Family)
  BY OptionsAssumption
<1>2. f \in Family
  BY <1>1 DEF f
<1>3. QED
  BY <1>2, HomesAreSlots DEF Ops

(* A chunk runs in a directory of its own or in the family's; never in     *)
(* that of another family.                                                 *)
LEMMA SlotsOfChunks ==
    ASSUME NEW k, NEW g, Slot(k) = <<g, 0>>
    PROVE  g = f
BY DEF Slot, Home

LEMMA FilesTyped ==
    /\ Torn \in [file : {"none", "torn", "whole"}, entries : [Ops -> Entry]]
    /\ \A e \in [Ops -> Entry] :
          Whole(e) \in [file : {"none", "torn", "whole"}, entries : [Ops -> Entry]]
    /\ FamilyEntries \in [Ops -> Entry]
BY DEF Torn, Whole, NoEntries, FamilyEntries, Entry

LEMMA WholeFile == ASSUME NEW e PROVE Whole(e).file = "whole" /\ Whole(e).entries = e
BY DEF Whole

(* A family that is ok and demands dual_pass has it in every merged entry. *)
LEMMA MergedProven ==
    ASSUME FamilyOk, opt.require_dual_pass, SemanticOps[f] \subseteq Ops
    PROVE  \A op \in SemanticOps[f] : FamilyEntries[op] = "dual_pass"
BY DEF FamilyOk, Good, FamilyEntries

-----------------------------------------------------------------------------
(* Type correctness, with the place an invocation has reached.             *)

Working == {"chunk", "matrix", "summarize", "record"}

InPlace ==
    /\ pc \in Working => fi <= Len(opt.families)
    /\ exit # "none" => pc = "exited"

LEMMA RowsGrow ==
    ASSUME NEW s \in Seq(BOOLEAN), NEW b \in BOOLEAN
    PROVE  Append(s, b) \in Seq(BOOLEAN) /\ Len(Append(s, b)) = Len(s) + 1
OBVIOUS

LEMMA ChunkEnds ==
    ASSUME TypeOK, pc \in {"chunk", "matrix", "summarize"}, NEW ok \in BOOLEAN, EndChunk(ok)
    PROVE  pc' = "chunk" /\ ci' = ci + 1 /\ rows' \in Seq(BOOLEAN) /\ Len(rows') = ci' - 1
<1>1. rows \in Seq(BOOLEAN) /\ Len(rows) = ci - 1 /\ ci \in Nat
  BY DEF TypeOK
<1>2. rows' = Append(rows, ok) /\ ci' = ci + 1 /\ pc' = "chunk"
  BY DEF EndChunk
<1>3. Append(rows, ok) \in Seq(BOOLEAN) /\ Len(Append(rows, ok)) = Len(rows) + 1
  BY <1>1, RowsGrow, Zenon
<1>4. QED
  BY <1>1, <1>2, <1>3

LEMMA FamilyOkIsBoolean == FamilyOk \in BOOLEAN
BY Zenon DEF FamilyOk

LEMMA TypesInit == Init => TypeOK /\ InPlace
BY OptionsAssumption DEF Init, TypeOK, InPlace, Working, NoEntries, Entry

LEMMA TypesStep == TypeOK /\ InPlace /\ [Next]_vars => TypeOK' /\ InPlace'
<1> SUFFICES ASSUME TypeOK, InPlace, [Next]_vars PROVE TypeOK' /\ InPlace'
  OBVIOUS
<1> USE DEF TypeOK, InPlace, Working
<1>0. Len(opt.families) \in Nat
  BY OptionsAssumption
<1>1. CASE Invoke
  <2>1. PICK o \in Options : Start(o)
    BY <1>1 DEF Invoke
  <2>2. Len(o.families) \in Nat
    BY OptionsAssumption
  <2>3. QED
    BY <2>1, <2>2 DEF Start, files
<1>2. CASE FamilyStep
  <2>1. CASE UNCHANGED <<pc, ci, rows>>
    <3>1. (familyOk' = Append(familyOk, chunks # << >>) /\ fi' = fi + 1) \/ UNCHANGED <<familyOk, fi>>
      BY <1>2, Zenon DEF FamilyStep
    <3>2. (chunks # << >>) \in BOOLEAN /\ familyOk \in Seq(BOOLEAN)
      BY Zenon
    <3>3. /\ Append(familyOk, chunks # << >>) \in Seq(BOOLEAN)
          /\ Len(Append(familyOk, chunks # << >>)) = Len(familyOk) + 1
      BY <3>2, RowsGrow, Zenon
    <3>4. CASE familyOk' = Append(familyOk, chunks # << >>) /\ fi' = fi + 1
      <4>1. familyOk' \in Seq(BOOLEAN) /\ Len(familyOk') = Len(familyOk) + 1 /\ fi' = fi + 1
        BY <3>3, <3>4, Zenon
      <4>2. /\ pc = "family" /\ fi <= Len(opt.families)
            /\ UNCHANGED <<pc, ci, rows, summary, status, opt, exit, kills>>
        BY <1>2, <2>1 DEF FamilyStep, files
      <4>3. QED
        BY <1>0, <4>1, <4>2
    <3>5. CASE UNCHANGED <<familyOk, fi>>
      BY <1>0, <1>2, <2>1, <3>5 DEF FamilyStep, files
    <3>6. QED
      BY <3>1, <3>4, <3>5
  <2>2. CASE pc' = "chunk" /\ ci' = 1 /\ rows' = << >> /\ UNCHANGED <<familyOk, fi>>
    BY <1>0, <1>2, <2>2 DEF FamilyStep, files
  <2>3. QED
    BY <1>2, <2>1, <2>2, Zenon DEF FamilyStep
<1>3. CASE ChunkStep
  <2>1. CASE EndChunk(TRUE)
    <3>1. pc' = "chunk" /\ ci' = ci + 1 /\ rows' \in Seq(BOOLEAN) /\ Len(rows') = ci' - 1
      BY <1>3, <2>1, ChunkEnds, Zenon DEF ChunkStep
    <3>2. pc = "chunk" /\ UNCHANGED <<summary, status, opt, fi, familyOk, exit, kills>>
      BY <1>3 DEF ChunkStep, files
    <3>3. QED
      BY <3>1, <3>2
  <2>2. CASE pc' = "matrix" /\ UNCHANGED <<rows, ci>>
    BY <1>3, <2>2 DEF ChunkStep, files
  <2>3. QED
    BY <1>3, <2>1, <2>2 DEF ChunkStep
<1>4. CASE Converges
  <2>1. PICK entries \in Entries(chunks[ci]) : Converge(entries)
    BY <1>4 DEF Converges
  <2>2. Whole(entries) \in [file : {"none", "torn", "whole"}, entries : [Ops -> Entry]]
    BY FilesTyped DEF Entries
  <2>3. QED
    BY <2>1, <2>2 DEF Converge
<1>5. CASE \E ok \in BOOLEAN : Summarize(ok)
  <2>1. PICK ok \in BOOLEAN : Summarize(ok)
    BY <1>5
  <2>2. pc' = "chunk" /\ ci' = ci + 1 /\ rows' \in Seq(BOOLEAN) /\ Len(rows') = ci' - 1
    BY <2>1, ChunkEnds, Zenon DEF Summarize
  <2>3. summary' \in [Slots -> {"none", "matrix", "family"}]
    BY <2>1 DEF Summarize
  <2>4. QED
    BY <2>1, <2>2, <2>3 DEF Summarize
<1>6. CASE ConvergeFails
  <2>1. pc' = "chunk" /\ ci' = ci + 1 /\ rows' \in Seq(BOOLEAN) /\ Len(rows') = ci' - 1
    BY <1>6, ChunkEnds, Zenon DEF ConvergeFails
  <2>2. summary' \in [Slots -> {"none", "matrix", "family"}]
    BY <1>6 DEF ConvergeFails
  <2>3. pc = "matrix" /\ UNCHANGED <<status, opt, fi, familyOk, exit, kills>>
    BY <1>6 DEF ConvergeFails
  <2>4. QED
    BY <2>1, <2>2, <2>3
<1>7. CASE MatrixDies
  <2>1. /\ summary' \in [Slots -> {"none", "matrix", "family"}]
        /\ status' \in [Slots -> [file : {"none", "torn", "whole"}, entries : [Ops -> Entry]]]
    BY <1>7, FilesTyped DEF MatrixDies, TornStatus, TornSummary, files
  <2>2. pc' = "chunk" /\ ci' = ci + 1 /\ rows' \in Seq(BOOLEAN) /\ Len(rows') = ci' - 1
    BY <1>7, ChunkEnds, Zenon DEF MatrixDies
  <2>3. QED
    BY <1>7, <2>1, <2>2 DEF MatrixDies
<1>8. CASE Materialize
  <2>1. Whole(FamilyEntries) \in [file : {"none", "torn", "whole"}, entries : [Ops -> Entry]]
    BY FilesTyped
  <2>2. Append(familyOk, FamilyOk) \in Seq(BOOLEAN) /\ Len(Append(familyOk, FamilyOk)) = Len(familyOk) + 1
    BY FamilyOkIsBoolean, RowsGrow, Zenon
  <2>3. /\ familyOk' \in Seq(BOOLEAN) /\ Len(familyOk') = Len(familyOk) + 1
        /\ status' \in [Slots -> [file : {"none", "torn", "whole"}, entries : [Ops -> Entry]]]
    <3>1. familyOk' = Append(familyOk, FamilyOk)
      BY <1>8, Zenon DEF Materialize
    <3>2. familyOk' \in Seq(BOOLEAN) /\ Len(familyOk') = Len(familyOk) + 1
      BY <2>2, <3>1, Zenon
    <3>3. status' \in [Slots -> [file : {"none", "torn", "whole"}, entries : [Ops -> Entry]]]
      BY <1>8, <2>1 DEF Materialize
    <3>4. QED
      BY <3>2, <3>3
  <2>4. /\ pc = "chunk" /\ pc' = "record" /\ UNCHANGED <<summary, opt, fi, ci, rows, exit, kills>>
    BY <1>8 DEF Materialize
  <2>5. QED
    BY <2>3, <2>4
<1>9. CASE Record
  <2>1. summary' \in [Slots -> {"none", "matrix", "family"}]
    BY <1>9 DEF Record
  <2>2. /\ pc = "record" /\ pc' = "family" /\ fi' = fi + 1
        /\ UNCHANGED <<status, opt, ci, rows, familyOk, exit, kills>>
    BY <1>9 DEF Record
  <2>3. QED
    BY <1>0, <2>1, <2>2
<1>10. CASE Finish
  BY <1>0, <1>10 DEF Finish, files
<1>11. CASE Kill
  <2>1. /\ summary' \in [Slots -> {"none", "matrix", "family"}]
        /\ status' \in [Slots -> [file : {"none", "torn", "whole"}, entries : [Ops -> Entry]]]
    <3>1. \/ UNCHANGED files \/ \E s : TornStatus(s) \/ TornSummary(s)
      BY <1>11 DEF Kill
    <3>2. QED
      BY <3>1, FilesTyped DEF TornStatus, TornSummary, files
  <2>2. kills' \in 0..MaxKills
    BY <1>11, OptionsAssumption DEF Kill
  <2>3. QED
    BY <1>0, <1>11, <2>1, <2>2 DEF Kill
<1>12. CASE UNCHANGED vars
  BY <1>12 DEF vars
<1>13. QED
  BY <1>1, <1>2, <1>3, <1>4, <1>5, <1>6, <1>7, <1>8, <1>9, <1>10, <1>11, <1>12 DEF Next, Step

THEOREM TypeCorrect == Spec => []TypeOK
<1>1. QED
  BY TypesInit, TypesStep, PTL DEF Spec

-----------------------------------------------------------------------------
(* Exit code 0 is backed by the files.                                     *)

(* A status file is written only while its family is worked on.            *)
LEMMA StatusWrites ==
    TypeOK /\ [Next]_vars /\ status' # status =>
        /\ pc \in {"chunk", "matrix", "summarize"}
        /\ \E s \in {Home, Slot(ci)} : \E v : status' = [status EXCEPT ![s] = v]
<1> SUFFICES ASSUME TypeOK, [Next]_vars, status' # status
             PROVE  /\ pc \in {"chunk", "matrix", "summarize"}
                    /\ \E s \in {Home, Slot(ci)} : \E v : status' = [status EXCEPT ![s] = v]
  OBVIOUS
<1>1. CASE Converges
  BY <1>1 DEF Converges, Converge
<1>2. CASE MatrixDies
  BY <1>2 DEF MatrixDies, TornStatus, TornSummary, files
<1>3. CASE Materialize
  BY <1>3 DEF Materialize
<1>4. CASE Kill
  BY <1>4 DEF Kill, TornStatus, TornSummary, files
<1>5. CASE ~Converges /\ ~MatrixDies /\ ~Materialize /\ ~Kill
  BY <1>5 DEF Next, Step, Invoke, Start, FamilyStep, ChunkStep, Summarize, ConvergeFails, Record,
     Finish, files, vars
<1>6. QED
  BY <1>1, <1>2, <1>3, <1>4, <1>5

(* So a family keeps its evidence until it is worked on again.             *)
LEMMA EvidenceStays ==
    ASSUME TypeOK, [Next]_vars, NEW g \in Family, Proven(g),
           pc \in {"chunk", "matrix", "summarize"} => g # f
    PROVE  Proven(g)'
<1>1. CASE status' = status
  BY <1>1 DEF Proven
<1>2. CASE status' # status
  <2>1. PICK s \in {Home, Slot(ci)} : \E v : status' = [status EXCEPT ![s] = v]
    BY <1>2, StatusWrites
  <2>2. s # <<g, 0>>
    BY <1>2, StatusWrites, SlotsOfChunks DEF Home
  <2>3. status'[<<g, 0>>] = status[<<g, 0>>]
    BY <2>1, <2>2
  <2>4. QED
    BY <2>3 DEF Proven
<1>3. QED
  BY <1>1, <1>2

(* Without anything taken from earlier invocations, every family that this *)
(* one left behind as ok is proven, save one that it is working on again.  *)
Backed ==
    opt.require_dual_pass /\ ~opt.resume /\ (\A j \in DOMAIN familyOk : familyOk[j])
      => \A j \in 1..(fi - 1) :
            Proven(opt.families[j]) \/ (pc \in Working /\ opt.families[j] = f)

RecordBacked == pc = "record" /\ opt.require_dual_pass /\ familyOk[fi] => Proven(f)

EvidenceInv == Backed /\ RecordBacked /\ EvidenceHolds

(* What is materialized as ok is proven.                                   *)
LEMMA MaterializedProven ==
    ASSUME TypeOK, InPlace, Materialize, opt.require_dual_pass, FamilyOk
    PROVE  Proven(f)'
<1>1. /\ f \in Family /\ Home \in Slots /\ SemanticOps[f] \subseteq Ops
      /\ f' = f
  BY FamilyOfStep DEF TypeOK, InPlace, Working, Materialize, Home, f
<1>2. status'[<<f, 0>>] = Whole(FamilyEntries)
  BY <1>1 DEF Materialize, Home, TypeOK
<1>3. QED
  BY <1>1, <1>2, MergedProven, WholeFile DEF Proven

LEMMA RecordBackedStep == TypeOK /\ InPlace /\ RecordBacked /\ [Next]_vars => RecordBacked'
<1> SUFFICES ASSUME TypeOK, InPlace, [Next]_vars, RecordBacked, pc' = "record",
                    opt'.require_dual_pass, familyOk'[fi']
             PROVE  Proven(f)'
  BY DEF RecordBacked
<1>1. CASE Materialize
  <2>1. familyOk'[fi'] = FamilyOk
    <3>1. Len(familyOk) = fi - 1 /\ familyOk' = Append(familyOk, FamilyOk) /\ fi' = fi
      BY <1>1, Zenon DEF TypeOK, Materialize
    <3>2. fi \in Nat /\ fi >= 1 /\ familyOk \in Seq(BOOLEAN)
      BY OptionsAssumption DEF TypeOK
    <3>3. Append(familyOk, FamilyOk)[Len(familyOk) + 1] = FamilyOk
      BY <3>2
    <3>4. fi = Len(familyOk) + 1
      BY <3>1, <3>2
    <3>5. QED
      BY <3>1, <3>3, <3>4, Zenon
  <2>2. FamilyOk
    BY <2>1, Zenon
  <2>3. opt.require_dual_pass
    BY <1>1 DEF Materialize
  <2>4. QED
    BY <1>1, <2>2, <2>3, MaterializedProven
<1>2. CASE UNCHANGED vars
  BY <1>2 DEF vars, RecordBacked, Proven, f
<1>3. CASE ~Materialize /\ Next
  BY <1>3 DEF Next, Step, Invoke, Start, FamilyStep, ChunkStep, Converges, Converge, Summarize,
     ConvergeFails, MatrixDies, EndChunk, Record, Finish, Kill
<1>4. QED
  BY <1>1, <1>2, <1>3

LEMMA BackedStep == TypeOK /\ InPlace /\ Backed /\ RecordBacked /\ [Next]_vars => Backed'
<1> SUFFICES ASSUME TypeOK, InPlace, Backed, RecordBacked, [Next]_vars,
                    opt'.require_dual_pass, ~opt'.resume, \A j \in DOMAIN familyOk' : familyOk'[j],
                    NEW j \in 1..(fi' - 1)
             PROVE  Proven(opt.families[j])' \/ (pc' \in Working /\ opt'.families[j] = f')
  BY DEF Backed
<1>0. Len(opt.families) \in Nat /\ fi \in Nat /\ fi >= 1 /\ fi <= Len(opt.families) + 1
  BY OptionsAssumption DEF TypeOK
<1>1. CASE fi' = 1
  BY <1>1
<1>2. ASSUME opt' = opt, fi' = fi, familyOk' = familyOk, fi' # 1
      PROVE  Proven(opt.families[j])' \/ (pc' \in Working /\ opt'.families[j] = f')
  <2>1. Proven(opt.families[j]) \/ (pc \in Working /\ opt.families[j] = f)
    BY <1>2 DEF Backed
  <2>2. opt.families[j] \in Family
    BY <1>0, <1>2, OptionsAssumption DEF TypeOK
  <2>3. pc \in Working => pc' \in Working
    <3>1. ~Kill /\ ~Invoke /\ ~Record
      BY <1>0, <1>2 DEF Kill, Invoke, Start, Record
    <3>2. QED
      BY <3>1 DEF Working, Next, Step, FamilyStep, ChunkStep, Converges, Converge, Summarize,
         ConvergeFails, MatrixDies, EndChunk, Materialize, Finish, vars
  <2>4. CASE pc \in Working /\ opt.families[j] = f
    BY <1>2, <2>3, <2>4 DEF f
  <2>5. CASE Proven(opt.families[j]) /\ ~(pc \in Working /\ opt.families[j] = f)
    <3>1. Proven(opt.families[j])'
      <4>1. pc \in {"chunk", "matrix", "summarize"} => opt.families[j] # f
        BY <2>5 DEF Working
      <4> DEFINE g == opt.families[j]
      <4>2. g \in Family /\ Proven(g) /\ (pc \in {"chunk", "matrix", "summarize"} => g # f)
        BY <2>2, <2>5, <4>1
      <4>3. \A x \in Family : Proven(x) /\ (pc \in {"chunk", "matrix", "summarize"} => x # f)
                               => Proven(x)'
        BY EvidenceStays
      <4>4. opt'.families[j] = g
        BY <1>2
      <4> HIDE DEF g
      <4>5. Proven(g)' /\ g' = g
        BY <1>2, <4>2, <4>3 DEF g
      <4>6. QED
        BY <4>4, <4>5 DEF Proven
    <3>2. QED
      BY <3>1
  <2>6. QED
    BY <2>1, <2>4, <2>5
<1>3. CASE Invoke
  BY <1>1, <1>3 DEF Invoke, Start
<1>4. CASE Kill
  BY <1>1, <1>4 DEF Kill
<1>5. CASE FamilyStep
  <2>1. CASE chunks = << >> \/ ResumeHit(Home)
    <3>1. ~ResumeHit(Home)
      BY <1>5 DEF FamilyStep, ResumeHit
    <3>2. familyOk' = Append(familyOk, FALSE)
      BY <1>5, <2>1, <3>1, Zenon DEF FamilyStep
    <3>3. familyOk \in Seq(BOOLEAN)
      BY Zenon DEF TypeOK
    <3>4. /\ Len(familyOk) + 1 \in DOMAIN Append(familyOk, FALSE)
          /\ Append(familyOk, FALSE)[Len(familyOk) + 1] = FALSE
      BY <3>3
    <3>5. QED
      BY <3>2, <3>4, Zenon
  <2>2. CASE ~(chunks = << >> \/ ResumeHit(Home))
    BY <1>1, <1>2, <1>5, <2>2 DEF FamilyStep
  <2>3. QED
    BY <2>1, <2>2
<1>6. CASE Materialize
  <2>1. familyOk' = Append(familyOk, FamilyOk) /\ familyOk \in Seq(BOOLEAN) /\ Len(familyOk) = fi - 1
    BY <1>6, Zenon DEF TypeOK, Materialize
  <2>2. UNCHANGED <<opt, fi>> /\ pc = "chunk" /\ pc' = "record" /\ f' = f
    BY <1>6 DEF Materialize, f
  <2>3. \A i \in DOMAIN familyOk : i \in DOMAIN Append(familyOk, FamilyOk)
                                 /\ Append(familyOk, FamilyOk)[i] = familyOk[i]
    <3>1. familyOk \in Seq(BOOLEAN)
      BY <2>1, Zenon
    <3>2. QED
      BY <3>1
  <2>4. \A i \in DOMAIN familyOk : familyOk[i]
    BY <2>1, <2>3, Zenon
  <2>5. Proven(opt.families[j]) \/ opt.families[j] = f
    BY <2>2, <2>4 DEF Backed
  <2>6. opt.families[j] \in Family
    BY <1>0, <2>2, OptionsAssumption DEF TypeOK
  <2>7. CASE opt.families[j] = f
    BY <2>2, <2>7 DEF Working
  <2>8. CASE opt.families[j] # f
    <3>1. \A x \in Family : Proven(x) /\ x # f => Proven(x)'
      BY EvidenceStays
    <3>2. QED
      BY <2>2, <2>5, <2>6, <2>8, <3>1 DEF Proven
  <2>9. QED
    BY <2>7, <2>8
<1>7. CASE Record
  <2>1. UNCHANGED <<opt, familyOk, status>> /\ pc = "record" /\ fi' = fi + 1
    BY <1>7 DEF Record
  <2>2. familyOk \in Seq(BOOLEAN) /\ Len(familyOk) = fi
    BY <2>1 DEF TypeOK
  <2>3. familyOk[fi]
    <3>1. fi \in DOMAIN familyOk
      BY <1>0, <2>2
    <3>2. QED
      BY <2>1, <3>1, Zenon
  <2>4. Proven(f)
    BY <2>1, <2>3 DEF RecordBacked
  <2>5. j \in 1..(fi - 1) \/ j = fi
    BY <1>0, <2>1
  <2>6. Proven(opt.families[j]) \/ opt.families[j] = f
    BY <2>1, <2>5 DEF Backed, f
  <2>7. QED
    BY <2>1, <2>4, <2>6 DEF Proven
<1>8. CASE ~Invoke /\ ~Kill /\ ~FamilyStep /\ ~Materialize /\ ~Record
  <2>1. UNCHANGED <<opt, fi, familyOk>>
    BY <1>8 DEF Next, Step, ChunkStep, Converges, Converge, Summarize, ConvergeFails, MatrixDies,
       Finish, vars
  <2>2. QED
    BY <1>1, <1>2, <2>1
<1>9. QED
  BY <1>3, <1>4, <1>5, <1>6, <1>7, <1>8

LEMMA EvidenceHoldsStep ==
    TypeOK /\ InPlace /\ Backed /\ EvidenceHolds /\ [Next]_vars => EvidenceHolds'
<1> SUFFICES ASSUME TypeOK, InPlace, Backed, EvidenceHolds, [Next]_vars, exit' = "ok",
                    opt'.require_dual_pass, (ScopeFull \/ ~opt.resume)',
                    NEW j \in DOMAIN opt'.families
             PROVE  Proven(opt.families[j])'
  BY DEF EvidenceHolds
<1>1. CASE Finish
  <2>1. /\ pc = "family" /\ fi > Len(opt.families) /\ UNCHANGED <<opt, status, fi>>
        /\ \A i \in DOMAIN familyOk : familyOk[i]
        /\ ScopeFull => AggregateOk
    BY <1>1 DEF Finish, files
  <2>2. Proven(opt.families[j])
    <3>0. j \in DOMAIN opt.families /\ opt.families \in Seq(Family)
      BY <2>1, OptionsAssumption DEF TypeOK
    <3>1. CASE ScopeFull
      BY <2>1, <3>0, <3>1 DEF AggregateOk, Good, Proven
    <3>2. CASE ~opt.resume
      <4>1. j \in 1..(fi - 1)
        BY <2>1, <3>0 DEF TypeOK
      <4>2. QED
        BY <2>1, <3>2, <4>1 DEF Backed, Working
    <3>3. QED
      BY <2>1, <3>1, <3>2 DEF ScopeFull
  <2>3. QED
    BY <2>1, <2>2 DEF Proven
<1>2. CASE ~Finish
  <2>1. UNCHANGED <<status, opt, exit>>
    <3>1. (exit = "ok" /\ pc = "exited") \/ exit = "none" \/ exit = "failed"
      BY DEF TypeOK, InPlace
    <3>2. CASE ~Invoke /\ ~Finish
      BY <3>1, <3>2 DEF InPlace, Next, Step, FamilyStep, ChunkStep, Converges, Converge, Summarize,
         ConvergeFails, MatrixDies, Materialize, Record, Kill, files, vars
    <3>3. CASE Invoke
      BY <3>3 DEF Invoke, Start
    <3>4. QED
      BY <1>2, <3>2, <3>3
  <2>2. QED
    BY <2>1 DEF EvidenceHolds, ScopeFull, Proven
<1>3. QED
  BY <1>1, <1>2

(* An invocation that demands dual_pass and exits with 0 is backed by the  *)
(* status files of its families: over the whole scope because the          *)
(* aggregate reads them again, and without --resume because every family   *)
(* was materialized by this invocation.                                    *)
THEOREM ExitIsBacked == Spec => []EvidenceHolds
<1>1. Init => EvidenceInv
  BY OptionsAssumption DEF Init, EvidenceInv, Backed, RecordBacked, EvidenceHolds
<1>2. TypeOK /\ InPlace /\ EvidenceInv /\ [Next]_vars => EvidenceInv'
  BY BackedStep, RecordBackedStep, EvidenceHoldsStep DEF EvidenceInv
<1>3. EvidenceInv => EvidenceHolds
  BY DEF EvidenceInv
<1>4. QED
  BY <1>1, <1>2, <1>3, TypesInit, TypesStep, PTL DEF Spec

-----------------------------------------------------------------------------
(* A family's two files.                                                   *)

(* Every invocation resumes and demands dual_pass.                         *)
Resuming == \A o \in Options : o.resume /\ o.require_dual_pass

(* A family is worked on only while no record of it says ok, so that what  *)
(* its chunks write cannot contradict one.                                 *)
Unrecorded == pc \in Working => summary[Home] # "family"

RecordsInv == Unrecorded /\ RecordsAgree

LEMMA RecordsStep ==
    ASSUME Resuming
    PROVE  TypeOK /\ InPlace /\ RecordBacked /\ RecordsInv /\ [Next]_vars => RecordsInv'
<1> SUFFICES ASSUME TypeOK, InPlace, RecordBacked, RecordsInv, [Next]_vars PROVE RecordsInv'
  OBVIOUS
<1>0. opt.resume /\ opt.require_dual_pass
  BY DEF Resuming, TypeOK
<1>1. pc \in Working => f \in Family /\ Home \in Slots
  BY FamilyOfStep DEF TypeOK, InPlace, Home
<1>2. Unrecorded'
  <2>1. CASE FamilyStep
    <3>1. CASE pc' = "chunk"
      <4>1. ~ResumeHit(Home) /\ UNCHANGED <<fi, opt, summary>> /\ fi <= Len(opt.families)
        BY <2>1, <3>1 DEF FamilyStep, files
      <4>2. f \in Family /\ Home' = Home
        BY <4>1, FamilyOfStep DEF TypeOK, Home, f
      <4>3. summary[Home] # "family"
        BY <1>0, <4>1, <4>2 DEF ResumeHit, RecordsInv, RecordsAgree, Proven, Home
      <4>4. QED
        BY <4>1, <4>2, <4>3 DEF Unrecorded
    <3>2. CASE pc' # "chunk"
      BY <2>1, <3>2 DEF FamilyStep, Unrecorded, Working
    <3>3. QED
      BY <3>1, <3>2
  <2>2. CASE ChunkStep \/ Converges \/ Materialize \/ UNCHANGED vars
    <3>1. pc' \in Working => pc \in Working /\ UNCHANGED <<fi, opt, summary>>
      BY <2>2 DEF ChunkStep, Converges, Converge, Materialize, Working, files, vars
    <3>2. QED
      BY <3>1 DEF RecordsInv, Unrecorded, Home, f
  <2>3. CASE ConvergeFails \/ MatrixDies \/ \E ok \in BOOLEAN : Summarize(ok)
    <3>1. pc \in Working /\ UNCHANGED <<fi, opt>>
      BY <2>3 DEF ConvergeFails, MatrixDies, Summarize, Working
    <3>2. \/ summary' = summary
          \/ \E v \in {"none", "matrix"} : summary' = [summary EXCEPT ![Slot(ci)] = v]
      BY <2>3 DEF ConvergeFails, MatrixDies, Summarize, TornStatus, TornSummary, files
    <3>3. summary'[Home] # "family"
      BY <1>1, <3>1, <3>2 DEF RecordsInv, Unrecorded, TypeOK
    <3>4. QED
      BY <3>1, <3>3 DEF Unrecorded, Home, f
  <2>4. CASE Invoke \/ Record \/ Finish \/ Kill
    BY <2>4 DEF Invoke, Start, Record, Finish, Kill, Unrecorded, Working
  <2>5. QED
    BY <2>1, <2>2, <2>3, <2>4 DEF Next, Step
<1>3. RecordsAgree'
  <2> SUFFICES ASSUME NEW g \in Family, summary'[<<g, 0>>] = "family" PROVE Proven(g)'
    BY DEF RecordsAgree
  <2>1. CASE Record /\ g = f
    <3>1. familyOk[fi]
      BY <1>1, <2>1 DEF Record, Home, TypeOK, Working
    <3>2. QED
      BY <1>0, <2>1, <3>1 DEF RecordBacked, Record, Proven
  <2>2. CASE ~(Record /\ g = f)
    <3>1. summary[<<g, 0>>] = "family"
      <4>1. CASE Record
        BY <2>2, <4>1, <1>1 DEF Record, Home, Working, TypeOK
      <4>2. CASE ~Record
        <5>1. \/ summary' = summary
              \/ \E s : \E v \in {"none", "matrix"} : summary' = [summary EXCEPT ![s] = v]
          BY <4>2 DEF Next, Step, Invoke, Start, FamilyStep, ChunkStep, Converges, Converge,
             Summarize, ConvergeFails, MatrixDies, Materialize, Finish, Kill, TornStatus,
             TornSummary, files, vars
        <5>2. QED
          BY <5>1, HomesAreSlots DEF TypeOK
      <4>3. QED
        BY <4>1, <4>2
    <3>2. Proven(g)
      BY <3>1 DEF RecordsInv, RecordsAgree
    <3>3. pc \in {"chunk", "matrix", "summarize"} => g # f
      BY <3>1 DEF RecordsInv, Unrecorded, Working, Home
    <3>4. QED
      BY <3>2, <3>3, EvidenceStays
  <2>3. QED
    BY <2>1, <2>2
<1>4. QED
  BY <1>2, <1>3 DEF RecordsInv

(* As long as every invocation resumes and demands dual_pass, a family     *)
(* recorded as ok has its evidence, whatever fails or is killed.           *)
THEOREM RecordsBacked ==
    ASSUME Resuming
    PROVE  Spec => []RecordsAgree
<1>1. Init => RecordsInv
  BY HomesAreSlots DEF Init, RecordsInv, Unrecorded, RecordsAgree, Working
<1>2. Init => RecordBacked
  BY DEF Init, RecordBacked
<1>3. RecordsInv => RecordsAgree
  BY DEF RecordsInv
<1>4. QED
  BY <1>1, <1>2, <1>3, RecordsStep, RecordBackedStep, TypesInit, TypesStep, PTL DEF Spec
=============================================================================
