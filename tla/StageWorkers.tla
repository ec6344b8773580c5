------------------------------ MODULE StageWorkers ------------------------------
(***************************************************************************)
(* The CUDA smoke driver (scripts/cuda_backend_smoke.py): it takes the      *)
(* kernels one by one through a compile and a launch stage, each in a       *)
(* worker process that it keeps for the next kernels, under a timeout per   *)
(* stage.  An answer may come late, a worker may hang, crash, or be left    *)
(* with a broken CUDA context by the kernel it launched.                    *)
(***************************************************************************)
EXTENDS Naturals, Sequences

CONSTANTS
    Order,      \* the kernels, in the order of the command line
    Natures,    \* what the kernels do: [compile, launch, mlir], see Conduct
    MaxKills    \* bound: how often the environment kills a worker

Kernel == {Order[j] : j \in DOMAIN Order}
Stage == {"compile", "launch"}

(***************************************************************************)
(* What a kernel does in a stage, given an intact process: the stage ends   *)
(* well, its outputs differ, it raises, it raises and leaves the context    *)
(* broken (an illegal access, a device-side assert), it never returns, or   *)
(* it takes the process down.  "mlir": its report names a readable MLIR     *)
(* module, without which a stage that requires one raises.                 *)
(***************************************************************************)
Conduct == [compile : {"ok", "error", "hangs", "dies"},
            launch : {"ok", "diff", "error", "breaks", "hangs", "dies"},
            mlir : BOOLEAN]

ASSUME KernelAssumption ==
    /\ Order \in Seq(Kernel) /\ Natures \subseteq Conduct
    /\ MaxKills \in Nat

Reasons == {"ok", "diff", "error", "cuda", "noresult", "compile_timeout", "launch_timeout"}

(***************************************************************************)
(* A worker with its two queues; "at" is the task it hangs in, "mlir" the   *)
(* setting it was started with that not every start has in common: whether  *)
(* it requires MLIR artifacts.  A worker the driver has terminated and      *)
(* forgotten is NoWorker: SIGTERM need not end it at once, but nobody reads *)
(* its queues any more.                                                    *)
(***************************************************************************)
Tasks == [id : Nat, kernel : Kernel]
Verdicts == {"ok", "diff", "error", "cuda"}
Workers == [status : {"serving", "hung", "dead"}, broken : BOOLEAN,
            inbox : Seq(Tasks), outbox : Seq([id : Nat, verdict : Verdicts]), at : Nat,
            mlir : BOOLEAN]
NoWorker == [status |-> "none"]

VARIABLES
    nature,     \* kernel |-> what it does
    persistent, \* INTENTIR_CUDA_SMOKE_PERSISTENT_WORKER
    timed,      \* stage |-> does the command line give it a timeout above 0
    refine,     \* --refine-timeout-reason
    artifacts,  \* --require-mlir-artifacts
    worker,     \* _PERSISTENT_WORKERS; without them, the process of the task in hand
    seq,        \* _PERSISTENT_TASK_SEQ
    pc,         \* "ask", "wait", "end", "aborted"
    stage,
    probing,    \* is this the probe after a timeout
    results,    \* the reasons of the kernels done
    pending,    \* during the probe: the reason it will not change
    kills

options == <<nature, persistent, timed, refine, artifacts>>
vars == <<nature, persistent, timed, refine, artifacts, worker, seq, pc, stage, probing, results,
          pending, kills>>

TypeOK ==
    /\ nature \in [Kernel -> Natures]
    /\ persistent \in BOOLEAN /\ timed \in [Stage -> BOOLEAN]
    /\ refine \in BOOLEAN /\ artifacts \in BOOLEAN
    /\ worker \in [Stage -> Workers \cup {NoWorker}]
    /\ seq \in Nat /\ kills \in 0 .. MaxKills
    /\ pc \in {"ask", "wait", "end", "aborted"} /\ stage \in Stage /\ probing \in BOOLEAN
    /\ results \in Seq(Reasons) /\ pending \in Reasons
    /\ Len(results) <= Len(Order)
    /\ pc \in {"ask", "wait"} => Len(results) < Len(Order)

Current == Order[Len(results) + 1]
HasTimeout == probing \/ timed[stage]   \* the probe's timeouts are at least a second
Required == probing \/ artifacts        \* the probe requires the artifacts in any case

Init ==
    /\ nature \in [Kernel -> Natures]
    /\ persistent \in BOOLEAN /\ timed \in [Stage -> BOOLEAN]
    /\ refine \in BOOLEAN /\ artifacts \in BOOLEAN
    /\ worker = [s \in Stage |-> NoWorker]
    /\ seq = 0 /\ kills = 0
    /\ pc = IF Order = << >> THEN "end" ELSE "ask"
    /\ stage = "compile" /\ probing = FALSE
    /\ results = << >> /\ pending = "ok"

(***************************************************************************)
(* The driver puts a task to its worker of the stage, which it starts when  *)
(* there is none alive or the one there was started with other settings: a  *)
(* probe may leave workers that require what the next kernel need not have. *)
(***************************************************************************)
Alive(w) == w.status \in {"serving", "hung"}
Fresh == [status |-> "serving", broken |-> FALSE, inbox |-> << >>, outbox |-> << >>, at |-> 0,
          mlir |-> Required]

\* Any live worker will do, whatever it was started with.
Reused_stale(w) == persistent /\ Alive(w)

Reused(w) == persistent /\ Alive(w) /\ w.mlir = Required

StartedWorker(w) == IF Reused(w) THEN w ELSE Fresh

Ask ==
    /\ pc = "ask"
    /\ LET w == StartedWorker(worker[stage])
           task == [id |-> seq + 1, kernel |-> Current] IN
       worker' = [worker EXCEPT ![stage] = [w EXCEPT !.inbox = Append(@, task)]]
    /\ seq' = seq + 1
    /\ pc' = "wait"
    /\ UNCHANGED <<options, stage, probing, results, pending, kills>>

\* Process.start raises OSError, which main does not catch: no summary is written.
StartFails ==
    /\ pc = "ask"
    /\ ~Reused(worker[stage])
    /\ worker' = [s \in Stage |-> NoWorker]
    /\ pc' = "aborted"
    /\ UNCHANGED <<options, seq, stage, probing, results, pending, kills>>

(***************************************************************************)
(* _cuda_stage_worker_loop.  Both stages load the kernel's intent first,    *)
(* which raises when a required artifact is missing.  Once the context is   *)
(* broken, every later call of the CUDA driver in the process raises.       *)
(***************************************************************************)
Answer(w, verdict) == [w EXCEPT !.inbox = Tail(@),
                                !.outbox = Append(@, [id |-> Head(w.inbox).id, verdict |-> verdict])]

StageStep(w, n, s) ==
    IF w.mlir /\ ~n.mlir THEN Answer(w, "error")
    ELSE IF w.broken THEN Answer(w, "cuda")
    ELSE CASE n[s] = "breaks" -> [Answer(w, "cuda") EXCEPT !.broken = TRUE]
           [] n[s] = "hangs"  -> [w EXCEPT !.inbox = Tail(@), !.status = "hung", !.at = Head(w.inbox).id]
           [] n[s] = "dies"   -> [w EXCEPT !.status = "dead"]
           [] OTHER           -> Answer(w, n[s])

Work(s) ==
    /\ worker[s].status = "serving" /\ worker[s].inbox # << >>
    /\ worker' = [worker EXCEPT ![s] = StageStep(@, nature[Head(@.inbox).kernel], s)]
    /\ UNCHANGED <<options, seq, pc, stage, probing, results, pending, kills>>

(***************************************************************************)
(* The environment kills a worker (out of memory, a driver reset), perhaps  *)
(* before its queue's thread has written out the answer.                    *)
(***************************************************************************)
Kill(s) ==
    /\ pc \in {"ask", "wait"} /\ kills < MaxKills
    /\ worker[s] # NoWorker /\ Alive(worker[s])
    /\ \E sent \in {worker[s].outbox, << >>} :
          worker' = [worker EXCEPT ![s].status = "dead", ![s].outbox = sent]
    /\ kills' = kills + 1
    /\ UNCHANGED <<options, seq, pc, stage, probing, results, pending>>

Timeouts == {"compile_timeout", "launch_timeout"}

\* The loop goes one past the last kernel.
AllDone_late(done) == Len(done) > Len(Order)

Probes(reason) == reason \in Timeouts /\ refine /\ ~probing
AllDone(done) == Len(done) = Len(Order)

(***************************************************************************)
(* The end of a kernel's stages.  After a timeout the driver may run the    *)
(* kernel once more, to tell why, and keeps the first reason; after the     *)
(* last kernel it shuts its workers down.                                   *)
(***************************************************************************)
Conclude(reason, workers) ==
    /\ stage' = "compile"
    /\ IF Probes(reason)
       THEN /\ probing' = TRUE /\ pending' = reason
            /\ pc' = "ask"
            /\ worker' = workers
            /\ UNCHANGED results
       ELSE /\ probing' = FALSE /\ pending' = "ok"
            /\ results' = Append(results, IF probing THEN pending ELSE reason)
            /\ IF AllDone(results')
               THEN pc' = "end" /\ worker' = [s \in Stage |-> NoWorker]
               ELSE pc' = "ask" /\ worker' = workers
    /\ UNCHANGED <<options, seq, kills>>

\* The handle is kept after a timeout, its worker left running.
Dropped_kept(w) == w

\* terminate, join for two seconds, pop the handle: dead or not, the worker is forgotten.
Dropped(w) == NoWorker

\* The deadline is watched only while the worker is alive.
Watched_alive(w) == Alive(w)

\* A one-shot process is joined, the wait for a persistent worker's queue is blind to its end.
Watched(w) == persistent \/ Alive(w)

(***************************************************************************)
(* No answer before the deadline.  One that has just come is lost with its  *)
(* queue.                                                                  *)
(***************************************************************************)
Timeout ==
    /\ pc = "wait" /\ HasTimeout
    /\ Watched(worker[stage])
    /\ Conclude(IF stage = "compile" THEN "compile_timeout" ELSE "launch_timeout",
                [worker EXCEPT ![stage] = Dropped(@)])

\* A one-shot process ended without an answer.
NoResult ==
    /\ pc = "wait" /\ ~persistent
    /\ worker[stage].status = "dead" /\ worker[stage].outbox = << >>
    /\ Conclude("noresult", [worker EXCEPT ![stage] = NoWorker])

\* Only the compile worker is replaced: the launch worker serves on.
AfterFailedLaunch_launch(workers, verdict) ==
    IF verdict = "cuda" THEN [workers EXCEPT !["compile"] = NoWorker] ELSE workers

\* _reset_persistent_worker: always for launch, for compile when the message names a CUDA error.
AfterFailedLaunch(workers, verdict) ==
    [s \in Stage |-> IF s = "launch" \/ verdict = "cuda" THEN NoWorker ELSE workers[s]]

\* The driver takes an answer; one to an earlier task it drops and waits on.
Receive ==
    /\ pc = "wait" /\ worker[stage].outbox # << >>
    /\ LET w == worker[stage]
           answer == Head(w.outbox)
           kept == [worker EXCEPT ![stage] = IF persistent THEN [w EXCEPT !.outbox = Tail(@)]
                                             ELSE NoWorker] IN
       \/ /\ answer.id # seq
          /\ worker' = [worker EXCEPT ![stage].outbox = Tail(@)]
          /\ UNCHANGED <<options, seq, pc, stage, probing, results, pending, kills>>
       \/ /\ answer.id = seq /\ stage = "compile" /\ answer.verdict = "ok"
          /\ worker' = kept
          /\ stage' = "launch" /\ pc' = "ask"
          /\ UNCHANGED <<options, seq, probing, results, pending, kills>>
       \/ /\ answer.id = seq
          /\ \/ stage = "compile" /\ answer.verdict # "ok"
             \/ stage = "launch" /\ answer.verdict \in {"ok", "diff"}
          /\ Conclude(answer.verdict, kept)
       \/ /\ answer.id = seq /\ stage = "launch" /\ answer.verdict \in {"error", "cuda"}
          /\ Conclude(answer.verdict, AfterFailedLaunch(kept, answer.verdict))

Driver == Ask \/ StartFails \/ Receive \/ NoResult \/ Timeout

Next == Driver \/ \E s \in Stage : Work(s) \/ Kill(s)

Spec == Init /\ [][Next]_vars

\* The driver waits for its workers only, and a worker that serves goes on.
FairSpec == Spec /\ WF_vars(Driver) /\ \A s \in Stage : WF_vars(Work(s))

--------------------------------------------------------------------------------
(***************************************************************************)
(* While the driver waits, its worker of the stage has nothing else to do   *)
(* and to say than the task in hand, and goes by the settings of this task: *)
(* the time an earlier kernel takes is not charged to this one, and a       *)
(* probe's requirements are not made of it.                                *)
(***************************************************************************)
Attended ==
    pc = "wait" =>
        LET w == worker[stage] IN
        /\ w # NoWorker /\ w.mlir = Required
        /\ \A j \in DOMAIN w.inbox : w.inbox[j] = [id |-> seq, kernel |-> Current]
        /\ \A j \in DOMAIN w.outbox : w.outbox[j].id = seq
        /\ w.status = "hung" => w.at = seq

(***************************************************************************)
(* The reason recorded for a kernel is of its own making, whatever the      *)
(* kernels before it did to the workers: no kernel passes on another's      *)
(* answer, none fails because of a context another one broke, nor for an    *)
(* artifact that only the probe of another one had to have.                *)
(***************************************************************************)
Loads(n) == artifacts => n.mlir
Compiles(n) == Loads(n) /\ n.compile = "ok"

OwnReason(n, reason) ==
    /\ reason \in {"ok", "diff", "cuda", "launch_timeout"} => Compiles(n)
    /\ reason = "ok" => n.launch = "ok"
    /\ reason = "diff" => n.launch = "diff"
    /\ reason = "cuda" => n.launch = "breaks"
    /\ reason = "error" =>
          ~Loads(n) \/ n.compile = "error" \/ (Compiles(n) /\ n.launch = "error")
    /\ reason = "noresult" => ~persistent
    /\ reason = "compile_timeout" => timed["compile"]
    /\ reason = "launch_timeout" => timed["launch"]

ReasonsAreOwn == \A j \in DOMAIN results : OwnReason(nature[Order[j]], results[j])

(***************************************************************************)
(* The run ends, with every stage under a timeout or with one-shot workers  *)
(* none of which hangs: a worker that dies or hangs holds nobody up.        *)
(***************************************************************************)
Bounded ==
    \/ \A s \in Stage : timed[s]
    \/ ~persistent /\ \A k \in Kernel : nature[k].compile # "hangs" /\ nature[k].launch # "hangs"

RunEnds == Bounded => <>(pc \in {"end", "aborted"})
================================================================================
