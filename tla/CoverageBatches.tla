-------------------------- MODULE CoverageBatches --------------------------
(***************************************************************************)
(* The coverage driver (scripts/flaggems/run_coverage_batches.py): it runs *)
(* the kernels of each family in chunks, one run of the multi-backend      *)
(* matrix per chunk, merges the chunks into one record of the family, and  *)
(* aggregates the families.  Every run leaves two files in its directory,  *)
(* status_converged.json and then run_summary.json; a later invocation     *)
(* skips what its summary calls ok.  It may be killed at any point.        *)
(***************************************************************************)
EXTENDS Naturals, Sequences, FiniteSets, Functions

CONSTANTS
    FamilyOrder,   \* the families of coverage_batches.json
    SemanticOps,   \* family |-> its semantic ops
    Options,       \* the command lines: [families, resume, require_dual_pass, chunks]
    OkMeansDual,   \* assumption on the matrix: no ok run leaves an op short of dual_pass
    MaxKills       \* bound: how often the driver is killed

Family == {FamilyOrder[j] : j \in DOMAIN FamilyOrder}
Ops    == UNION {SemanticOps[f] : f \in Family}
Slots  == Family \X (0..Cardinality(Ops))

(* coverage_batches.json is a finite file.                                 *)
ASSUME OpsAssumption == IsFiniteSet(Ops)
ASSUME OptionsAssumption ==
    /\ OkMeansDual \in BOOLEAN /\ MaxKills \in Nat
    /\ \A o \in Options :
          /\ o.families \in Seq(Family) /\ o.families # << >>
          /\ o.resume \in BOOLEAN /\ o.require_dual_pass \in BOOLEAN
          /\ \A f \in Family :
                /\ o.chunks[f] \in Seq(SUBSET Ops) /\ Len(o.chunks[f]) <= Cardinality(Ops)
                /\ UNION {o.chunks[f][k] : k \in DOMAIN o.chunks[f]} \subseteq SemanticOps[f]

(* The record of an op in a status file, worst first; the statuses short   *)
(* of dual_pass are one.                                                   *)
Entry == {"none", "other", "dual_pass"}
NoEntries == [op \in Ops |-> "none"]
Entries(ops) == {e \in [Ops -> Entry] : \A op \in Ops \ ops : e[op] = "none"}

VARIABLES
    summary,  \* slot |-> who wrote its run_summary.json: "matrix" or "family" if
              \* it says ok, else "none": no reader tells a missing one, a torn
              \* one and one that says it failed apart
    status,   \* slot |-> its status_converged.json
    opt,      \* the options of the invocation
    pc, fi, ci,
    rows,     \* chunk_rows of the family: is each ok
    familyOk, \* family_rows: is each ok
    exit,     \* "none", or how the last invocation ended
    kills

files == <<summary, status>>
vars == <<summary, status, opt, pc, fi, ci, rows, familyOk, exit, kills>>

TypeOK ==
    /\ summary \in [Slots -> {"none", "matrix", "family"}]
    /\ status \in [Slots -> [file : {"none", "torn", "whole"}, entries : [Ops -> Entry]]]
    /\ opt \in Options
    /\ pc \in {"idle", "family", "chunk", "matrix", "summarize", "record", "exited"}
    /\ fi \in 1..Len(opt.families) + 1 /\ ci \in Nat
    /\ rows \in Seq(BOOLEAN) /\ (pc \in {"chunk", "matrix", "summarize"} => Len(rows) = ci - 1)
    /\ familyOk \in Seq(BOOLEAN) /\ Len(familyOk) = IF pc = "record" THEN fi ELSE fi - 1
    /\ exit \in {"none", "ok", "failed"}
    /\ kills \in 0..MaxKills

f      == opt.families[fi]
chunks == opt.chunks[f]
Home   == <<f, 0>>

(* X_fault is a faulty form of the definition X it precedes; nothing uses  *)
(* it.                                                                     *)

(* A family of one chunk has no chunk directory: it runs in the family's.  *)
Slot(k) == IF Len(chunks) > 1 THEN <<f, k>> ELSE Home

Whole(entries) == [file |-> "whole", entries |-> entries]
Torn == [file |-> "torn", entries |-> NoEntries]

Init ==
    /\ summary = [s \in Slots |-> "none"]
    /\ status = [s \in Slots |-> [file |-> "none", entries |-> NoEntries]]
    /\ opt \in Options
    /\ pc = "idle" /\ fi = 1 /\ ci = 1 /\ rows = << >> /\ familyOk = << >>
    /\ exit = "none" /\ kills = 0

Start(o) ==
    /\ pc \in {"idle", "exited"}
    /\ pc' = "family" /\ opt' = o /\ fi' = 1 /\ ci' = 1
    /\ rows' = << >> /\ familyOk' = << >> /\ exit' = "none"
    /\ UNCHANGED <<files, kills>>

(* What an earlier invocation finished is skipped: its summary says ok and *)
(* the status file is there, whole or not.                                 *)
ResumeHit_status(s) == opt.resume /\ status[s].file # "none"
ResumeHit(s) == opt.resume /\ summary[s] # "none" /\ status[s].file # "none"

FamilyStep ==
    /\ pc = "family" /\ fi <= Len(opt.families)
    /\ IF chunks = << >> \/ ResumeHit(Home)
       THEN /\ familyOk' = Append(familyOk, chunks # << >>)
            /\ fi' = fi + 1
            /\ UNCHANGED <<pc, ci, rows>>
       ELSE /\ pc' = "chunk" /\ ci' = 1 /\ rows' = << >>
            /\ UNCHANGED <<familyOk, fi>>
    /\ UNCHANGED <<files, opt, exit, kills>>

EndChunk_okOnly(ok) == rows' = (IF ok THEN Append(rows, ok) ELSE rows) /\ ci' = ci + 1 /\ pc' = "chunk"
EndChunk(ok) == rows' = Append(rows, ok) /\ ci' = ci + 1 /\ pc' = "chunk"

ChunkStep ==
    /\ pc = "chunk" /\ ci <= Len(chunks)
    /\ IF ResumeHit(Slot(ci)) THEN EndChunk(TRUE)
       ELSE pc' = "matrix" /\ UNCHANGED <<rows, ci>>
    /\ UNCHANGED <<files, opt, fi, familyOk, exit, kills>>

-----------------------------------------------------------------------------
(* One run of the matrix: its stages, converge last of those that matter,  *)
(* and its summary.  It may fail or be stopped after either write.         *)

Converge(entries) ==
    /\ pc = "matrix" /\ pc' = "summarize"
    /\ status' = [status EXCEPT ![Slot(ci)] = Whole(entries)]
    /\ UNCHANGED <<summary, opt, fi, ci, rows, familyOk, exit, kills>>

Converges == pc = "matrix" /\ \E entries \in Entries(chunks[ci]) : Converge(entries)

ChunkDual == \A op \in chunks[ci] : status[Slot(ci)].entries[op] = "dual_pass"

Summarize(ok) ==
    /\ pc = "summarize"
    /\ ok /\ OkMeansDual => ChunkDual
    /\ summary' = [summary EXCEPT ![Slot(ci)] = IF ok THEN "matrix" ELSE "none"]
    /\ EndChunk(ok)
    /\ UNCHANGED <<status, opt, fi, familyOk, exit, kills>>

(* A stage failed before converge could write: the old status file stays.  *)
ConvergeFails ==
    /\ pc = "matrix"
    /\ summary' = [summary EXCEPT ![Slot(ci)] = "none"]
    /\ EndChunk(FALSE)
    /\ UNCHANGED <<status, opt, fi, familyOk, exit, kills>>

(* It ends with another code, before or in a write.                        *)
TornStatus(s)  == status' = [status EXCEPT ![s] = Torn] /\ UNCHANGED summary
TornSummary(s) == summary' = [summary EXCEPT ![s] = "none"] /\ UNCHANGED status

MatrixDies ==
    /\ pc \in {"matrix", "summarize"}
    /\ \/ UNCHANGED files
       \/ pc = "matrix" /\ TornStatus(Slot(ci))
       \/ pc = "summarize" /\ TornSummary(Slot(ci))
    /\ EndChunk(FALSE)
    /\ UNCHANGED <<opt, fi, familyOk, exit, kills>>

-----------------------------------------------------------------------------
(* _materialize_family_outputs: the best entry of each op over the chunks. *)

Merged(op) ==
    LET seen == {status[Slot(k)].entries[op] : k \in 1..Len(chunks)}
    IN  IF "dual_pass" \in seen THEN "dual_pass" ELSE IF "other" \in seen THEN "other" ELSE "none"

(* Every chunk is ok and left both files, which parse.                     *)
AllChunksOk ==
    \A k \in 1..Len(chunks) :
        rows[k] /\ summary[Slot(k)] # "none" /\ status[Slot(k)].file = "whole"

Good(entry) == entry = "dual_pass" \/ (entry = "other" /\ ~opt.require_dual_pass)

FamilyOk == AllChunksOk /\ \A op \in SemanticOps[f] : Good(Merged(op))

(* A missing op gets a placeholder.                                        *)
FamilyEntries_last == status[Slot(Len(chunks))].entries
FamilyEntries ==
    [op \in Ops |-> IF op \notin SemanticOps[f] THEN "none"
                    ELSE IF Merged(op) = "dual_pass" THEN "dual_pass" ELSE "other"]

Materialize ==
    /\ pc = "chunk" /\ ci > Len(chunks)
    /\ pc' = "record"
    /\ familyOk' = Append(familyOk, FamilyOk)
    /\ status' = [status EXCEPT ![Home] = Whole(FamilyEntries)]
    /\ UNCHANGED <<summary, opt, fi, ci, rows, exit, kills>>

Record ==
    /\ pc = "record" /\ pc' = "family" /\ fi' = fi + 1
    /\ summary' = [summary EXCEPT ![Home] = IF familyOk[fi] THEN "family" ELSE "none"]
    /\ UNCHANGED <<status, opt, ci, rows, familyOk, exit, kills>>

(* aggregate_coverage_batches.py looks at the files of every family again. *)
AggregateOk_summaries == \A g \in Family : summary[<<g, 0>>] # "none"
AggregateOk ==
    \A g \in Family :
        /\ summary[<<g, 0>>] # "none" /\ status[<<g, 0>>].file = "whole"
        /\ \A op \in SemanticOps[g] : Good(status[<<g, 0>>].entries[op])

ScopeFull == {opt.families[j] : j \in DOMAIN opt.families} = Family

Finish ==
    /\ pc = "family" /\ fi > Len(opt.families)
    /\ pc' = "exited"
    /\ exit' = IF (\A j \in DOMAIN familyOk : familyOk[j]) /\ (ScopeFull => AggregateOk)
               THEN "ok" ELSE "failed"
    /\ UNCHANGED <<files, opt, fi, ci, rows, familyOk, kills>>

(* The driver and its child are killed, in the middle of a write perhaps.  *)
Kill ==
    /\ pc \notin {"idle", "exited"} /\ kills < MaxKills
    /\ pc' = "idle" /\ kills' = kills + 1
    /\ \/ UNCHANGED files
       \/ pc = "matrix" /\ TornStatus(Slot(ci))
       \/ pc = "summarize" /\ TornSummary(Slot(ci))
       \/ pc = "chunk" /\ ci > Len(chunks) /\ TornStatus(Home)
       \/ pc = "record" /\ TornSummary(Home)
    /\ fi' = 1 /\ ci' = 1 /\ rows' = << >> /\ familyOk' = << >>
    /\ UNCHANGED <<opt, exit>>

Step ==
    \/ FamilyStep \/ ChunkStep \/ Converges \/ ConvergeFails \/ MatrixDies \/ Materialize \/ Record \/ Finish
    \/ \E ok \in BOOLEAN : Summarize(ok)

Invoke == \E o \in Options : Start(o)

Next == Invoke \/ Step \/ Kill

Spec == Init /\ [][Next]_vars

(* An invocation runs to its end unless killed, somebody invokes the       *)
(* driver until it exits with 0, and no chunk fails on the backends for    *)
(* ever.                                                                   *)
AllChunks == UNION {UNION {Range(o.chunks[g]) : g \in Family} : o \in Options}

GoodRun(ops) ==
    /\ pc = "matrix" /\ chunks[ci] = ops
    /\ \E e \in Entries(ops) : (\A op \in ops : e[op] = "dual_pass") /\ Converge(e)

FairSpec ==
    /\ Spec /\ WF_vars(Step) /\ WF_vars(exit # "ok" /\ Invoke)
    /\ SF_vars(Summarize(TRUE))
    /\ \A ops \in AllChunks : SF_vars(GoodRun(ops))

-----------------------------------------------------------------------------
(* The evidence of a family: its status file says dual_pass of every op.   *)
Proven(g) ==
    /\ status[<<g, 0>>].file = "whole"
    /\ \A op \in SemanticOps[g] : status[<<g, 0>>].entries[op] = "dual_pass"

(* An invocation that demands dual_pass and exits with 0 leaves, for every *)
(* family it was given, a status file where every op has it, if it is over *)
(* the whole scope, so that the aggregate looks at the files again, or     *)
(* takes nothing from earlier invocations.                                 *)
EvidenceHolds ==
    exit = "ok" /\ opt.require_dual_pass /\ (ScopeFull \/ ~opt.resume)
      => \A j \in DOMAIN opt.families : Proven(opt.families[j])

(* As long as nothing recorded is run again and every invocation demands   *)
(* dual_pass, a family's record and its status file never disagree, kills  *)
(* in the middle of a write included.                                      *)
RecordsAgree == \A g \in Family : summary[<<g, 0>>] = "family" => Proven(g)

(* Invoked again and again, the driver exits with 0 in the end: no file    *)
(* that a failed or killed run leaves makes it skip what is still to do.   *)
(* There is one exception, Stuck: a family's status torn on top of the ok  *)
(* summary its only chunk left is skipped for ever.                        *)
Stuck == \E g \in Family : summary[<<g, 0>>] = "matrix" /\ status[<<g, 0>>].file = "torn"
RetryConverges == pc = "family" ~> exit = "ok" \/ Stuck

(* "Always materialize a family-level summary/status from chunk outputs":  *)
(* an invocation that exits with 0 does not rest on a summary the matrix   *)
(* wrote for a chunk.                                                      *)
FamiliesMaterialized ==
    exit = "ok" => \A j \in DOMAIN opt.families : summary[<<opt.families[j], 0>>] = "family"
=============================================================================
