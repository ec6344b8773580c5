---------------------------- MODULE StageWorkers_proofs ----------------------------
(***************************************************************************)
(* For any kernels, whatever they do to their workers, and any number of    *)
(* kills: the driver's state is well typed, a worker has nothing but the    *)
(* task in hand, and the reason recorded for a kernel is its own.           *)
(***************************************************************************)
EXTENDS StageWorkers, TLAPS

\* What an intact worker answers to a kernel that returns.
TheirVerdict(n, s) ==
    IF Required /\ ~n.mlir THEN "error"
    ELSE IF s = "launch" /\ n.launch = "breaks" THEN "cuda" ELSE n[s]

\* Where the worker the driver waits for can be: about to work, in the task, done, or dead.
InHand(w) ==
    /\ w.mlir = Required
    /\ \/ /\ w.inbox = <<[id |-> seq, kernel |-> Current]>> /\ w.outbox = << >>
          /\ ~w.broken /\ w.status \in {"serving", "dead"}
       \/ /\ w.inbox = << >> /\ w.outbox = << >>
          /\ w.status = "dead" \/ (w.status = "hung" /\ w.at = seq)
       \/ /\ w.inbox = << >> /\ w.status # "hung"
          /\ w.outbox = <<[id |-> seq, verdict |-> TheirVerdict(nature[Current], stage)]>>

Waits(s) == pc = "wait" /\ stage = s

\* A worker nobody waits for is idle, and its context is intact.
Idle(w) == w.inbox = << >> /\ w.outbox = << >> /\ w.status # "hung" /\ ~w.broken

IInv ==
    /\ TypeOK
    /\ pc = "wait" => worker[stage] \in Workers /\ InHand(worker[stage])
    /\ \A s \in Stage : worker[s] \in Workers =>
          /\ ~Waits(s) => Idle(worker[s])
          /\ worker[s].broken => s = "launch" /\ nature[Current].launch = "breaks"
    /\ pc \in {"ask", "wait"} =>
          /\ stage = "launch" => /\ nature[Current].compile = "ok"
                                 /\ Required => nature[Current].mlir
          /\ probing => pending \in Timeouts /\ OwnReason(nature[Current], pending)
    /\ ReasonsAreOwn

--------------------------------------------------------------------------------
\* The kernel in hand is one of the list.
LEMMA CurrentIsKernel == TypeOK /\ pc \in {"ask", "wait"} => Current \in Kernel
BY KernelAssumption DEF TypeOK, Current, Kernel

\* A new worker is idle and well typed, and no worker is NoWorker.
LEMMA FreshIdle ==
    TypeOK => Fresh \in Workers /\ Idle(Fresh) /\ ~Fresh.broken /\ Fresh.mlir = Required
BY DEF TypeOK, Fresh, Required, Workers, Idle

LEMMA NoneNoWorker == NoWorker \notin Workers
<1> SUFFICES ASSUME NoWorker \in Workers PROVE FALSE
  OBVIOUS
<1>1. NoWorker.status \in {"serving", "hung", "dead"}
  BY DEF Workers
<1>2. QED
  BY <1>1 DEF NoWorker

\* Before the first kernel nothing is wrong.
LEMMA InitIInv == Init => IInv
<1> SUFFICES ASSUME Init PROVE IInv
  OBVIOUS
<1>1. \A s \in Stage : worker[s] = NoWorker
  BY DEF Init
<1>2. TypeOK
  <2>1. pc \in {"ask", "end"} /\ (pc = "ask" => Order # << >>)
    BY DEF Init
  <2>2. Order # << >> => Len(Order) > 0
    BY KernelAssumption
  <2>3. worker \in [Stage -> Workers \cup {NoWorker}]
    BY DEF Init
  <2>4. results \in Seq(Reasons) /\ Len(results) = 0 /\ Len(Order) \in Nat
    BY KernelAssumption DEF Init
  <2>5. /\ stage \in Stage /\ probing \in BOOLEAN /\ pending \in Reasons
        /\ seq \in Nat /\ kills \in 0 .. MaxKills
    <3>1. stage = "compile" /\ probing = FALSE /\ pending = "ok" /\ seq = 0 /\ kills = 0
      BY DEF Init
    <3>2. seq \in Nat /\ kills \in 0 .. MaxKills
      BY <3>1, KernelAssumption
    <3>3. QED
      BY <3>1, <3>2 DEF Stage, Reasons
  <2>6. QED
    BY <2>1, <2>2, <2>3, <2>4, <2>5 DEF Init, TypeOK
<1>3. \A s \in Stage : worker[s] \notin Workers
  BY <1>1, NoneNoWorker
<1>4. ReasonsAreOwn
  BY DEF Init, ReasonsAreOwn
<1>5. QED
  BY <1>2, <1>3, <1>4 DEF IInv, Init

(***************************************************************************)
(* Once a kernel's reason is its own, or is the probe's, which nobody       *)
(* records, the driver may go on with idle workers.                        *)
(***************************************************************************)
LEMMA Concluding ==
    ASSUME IInv, pc = "wait",
           NEW reason \in Reasons, probing \/ OwnReason(nature[Current], reason),
           NEW workers \in [Stage -> Workers \cup {NoWorker}],
           \A s \in Stage : workers[s] \in Workers => Idle(workers[s]),
           Conclude(reason, workers)
    PROVE  IInv'
<1> USE DEF options
<1>1. CASE reason \in Timeouts /\ refine /\ ~probing
  <2>1. /\ pc' = "ask" /\ stage' = "compile" /\ probing' /\ pending' = reason
        /\ worker' = workers /\ UNCHANGED <<nature, persistent, timed, refine, artifacts, seq, results, kills>>
    BY <1>1 DEF Conclude, Probes, AllDone
  <2>2. TypeOK'
    BY <2>1 DEF IInv, TypeOK, Stage
  <2>3. OwnReason(nature[Current], pending)'
    BY <1>1, <2>1 DEF OwnReason, Loads, Compiles, Current
  <2>4. ReasonsAreOwn'
    BY <2>1 DEF IInv, ReasonsAreOwn, OwnReason, Loads, Compiles
  <2>5. \A s \in Stage : worker'[s] \in Workers => Idle(worker'[s]) /\ ~worker'[s].broken
    BY <2>1 DEF Idle
  <2>6. QED
    BY <1>1, <2>1, <2>2, <2>3, <2>4, <2>5 DEF IInv, Waits, Idle
<1>2. CASE ~(reason \in Timeouts /\ refine /\ ~probing)
  <2> DEFINE why == IF probing THEN pending ELSE reason
  <2>1. /\ pc' \in {"ask", "end"} /\ stage' = "compile" /\ probing' = FALSE /\ pending' = "ok"
        /\ results' = Append(results, why)
        /\ pc' = "ask" => Len(results') # Len(Order)
        /\ UNCHANGED <<nature, persistent, timed, refine, artifacts, seq, kills>>
        /\ worker' = workers \/ worker' = [s \in Stage |-> NoWorker]
    BY <1>2 DEF Conclude, Probes, AllDone
  <2>2. why \in Reasons /\ OwnReason(nature[Current], why)
    BY DEF IInv, TypeOK
  <2>3. /\ results' \in Seq(Reasons) /\ Len(results') = Len(results) + 1
        /\ Len(results) < Len(Order) /\ Len(Order) \in Nat
    BY <2>1, <2>2, KernelAssumption DEF IInv, TypeOK
  <2>4. probing' \in BOOLEAN /\ stage' \in Stage /\ pending' \in Reasons
    BY <2>1 DEF Stage, Reasons
  <2>5. worker' \in [Stage -> Workers \cup {NoWorker}]
    BY <2>1
  <2>6. TypeOK'
    BY <2>1, <2>3, <2>4, <2>5 DEF IInv, TypeOK
  <2>7. ReasonsAreOwn'
    <3> SUFFICES ASSUME NEW j \in DOMAIN results' PROVE OwnReason(nature[Order[j]], results'[j])
      BY <2>1 DEF ReasonsAreOwn, OwnReason, Loads, Compiles
    <3>1. CASE j = Len(results) + 1
      BY <2>1, <2>2, <2>3, <3>1 DEF Current, IInv, TypeOK
    <3>2. CASE j # Len(results) + 1
      <4>1. j \in DOMAIN results /\ results'[j] = results[j]
        BY <2>1, <2>2, <2>3, <3>2 DEF IInv, TypeOK
      <4>2. OwnReason(nature[Order[j]], results[j])
        BY <4>1 DEF IInv, ReasonsAreOwn
      <4>3. QED
        BY <4>1, <4>2
    <3>3. QED
      BY <3>1, <3>2
  <2>8. \A s \in Stage : worker'[s] \in Workers => Idle(worker'[s]) /\ ~worker'[s].broken
    BY <2>1, NoneNoWorker DEF Idle
  <2>9. QED
    BY <2>1, <2>6, <2>7, <2>8 DEF IInv, Waits, Idle
<1>3. QED
  BY <1>1, <1>2

(***************************************************************************)
(* The driver's steps.                                                     *)
(***************************************************************************)
LEMMA AskKeeps == IInv /\ Ask => IInv'
<1> SUFFICES ASSUME IInv, Ask PROVE IInv'
  OBVIOUS
<1> USE DEF options
<1> DEFINE old == worker[stage]
           w == StartedWorker(old)
           task == [id |-> seq + 1, kernel |-> Current]
           new == [w EXCEPT !.inbox = Append(@, task)]
<1>1. /\ pc = "ask" /\ pc' = "wait" /\ seq' = seq + 1
      /\ worker' = [worker EXCEPT ![stage] = new]
      /\ UNCHANGED <<nature, persistent, timed, refine, artifacts, stage, probing, results, pending, kills>>
  BY DEF Ask
<1>2. stage \in Stage /\ worker \in [Stage -> Workers \cup {NoWorker}] /\ seq \in Nat
  BY DEF IInv, TypeOK
<1>3. old \in Workers => Idle(old)
  BY <1>1, <1>2 DEF IInv, Waits
<1>4. old \notin Workers => ~Alive(old)
  BY <1>2 DEF Alive, NoWorker
<1>5. w \in Workers /\ Idle(w) /\ w.status # "hung" /\ w.mlir = Required
  BY <1>3, <1>4, FreshIdle DEF IInv, StartedWorker, Reused, Idle, Alive
<1>6. task \in Tasks
  BY <1>1, <1>2, CurrentIsKernel DEF IInv, Tasks
<1>7. /\ new \in Workers /\ new.inbox = <<task>> /\ new.outbox = << >> /\ ~new.broken
      /\ new.status \in {"serving", "dead"} /\ new.mlir = Required
  <2>1. Append(w.inbox, task) = <<task>> /\ <<task>> \in Seq(Tasks)
    BY <1>5, <1>6 DEF Idle
  <2>2. new = [w EXCEPT !.inbox = <<task>>]
    BY <2>1
  <2>3. QED
    BY <1>5, <2>1, <2>2 DEF Workers, Idle
<1>8. worker'[stage] = new /\ \A s \in Stage : s # stage => worker'[s] = worker[s]
  BY <1>1, <1>2
<1>9. TypeOK'
  BY <1>1, <1>2, <1>7 DEF IInv, TypeOK
<1>10. InHand(worker[stage])'
  <2>1. Required' = Required /\ Current' = Current
    BY <1>1 DEF Required, Current
  <2>2. QED
    BY <1>1, <1>7, <1>8, <2>1 DEF InHand
<1>11. ASSUME NEW s \in Stage, worker'[s] \in Workers
       PROVE  (~Waits(s) => Idle(worker[s]))' /\ ~worker'[s].broken
  <2>1. CASE s = stage
    BY <1>1, <1>7, <1>8, <2>1 DEF Waits
  <2>2. CASE s # stage
    BY <1>1, <1>8, <1>11, <2>2 DEF Waits, Idle, IInv
  <2>3. QED
    BY <2>1, <2>2
<1>12. ReasonsAreOwn' /\ (probing => OwnReason(nature[Current], pending)')
  BY <1>1 DEF IInv, ReasonsAreOwn, OwnReason, Loads, Compiles, Current
<1>13. QED
  BY <1>1, <1>7, <1>8, <1>9, <1>10, <1>11, <1>12 DEF IInv, Current, Required

LEMMA StartFailsKeeps == IInv /\ StartFails => IInv'
<1> SUFFICES ASSUME IInv, StartFails PROVE IInv'
  OBVIOUS
<1>1. /\ pc' = "aborted" /\ \A s \in Stage : worker'[s] = NoWorker
      /\ worker' \in [Stage -> Workers \cup {NoWorker}]
      /\ UNCHANGED <<nature, persistent, timed, refine, artifacts, seq, stage, probing, results, pending, kills>>
  BY DEF StartFails, options
<1>2. TypeOK' /\ ReasonsAreOwn'
  BY <1>1 DEF IInv, TypeOK, ReasonsAreOwn, OwnReason, Loads, Compiles
<1>3. QED
  BY <1>1, <1>2, NoneNoWorker DEF IInv

LEMMA TimeoutKeeps == IInv /\ Timeout => IInv'
<1> SUFFICES ASSUME IInv, Timeout PROVE IInv'
  OBVIOUS
<1> DEFINE reason == IF stage = "compile" THEN "compile_timeout" ELSE "launch_timeout"
           workers == [worker EXCEPT ![stage] = Dropped(@)]
<1>1. pc = "wait" /\ Conclude(reason, workers) /\ HasTimeout
  BY DEF Timeout
<1>2. probing \/ OwnReason(nature[Current], reason)
  BY <1>1 DEF IInv, OwnReason, Loads, Compiles, HasTimeout, Required, TypeOK, Stage
<1>3. workers \in [Stage -> Workers \cup {NoWorker}]
  BY DEF IInv, TypeOK, Dropped
<1>4. ASSUME NEW s \in Stage, workers[s] \in Workers PROVE Idle(workers[s])
  BY <1>4, NoneNoWorker DEF IInv, TypeOK, Waits, Dropped
<1>5. QED
  BY <1>1, <1>2, <1>3, <1>4, Concluding DEF Reasons

LEMMA NoResultKeeps == IInv /\ NoResult => IInv'
<1> SUFFICES ASSUME IInv, NoResult PROVE IInv'
  OBVIOUS
<1> DEFINE workers == [worker EXCEPT ![stage] = NoWorker]
<1>1. pc = "wait" /\ ~persistent /\ Conclude("noresult", workers)
  BY DEF NoResult
<1>2. OwnReason(nature[Current], "noresult")
  BY <1>1 DEF OwnReason, Loads, Compiles
<1>3. workers \in [Stage -> Workers \cup {NoWorker}]
  BY DEF IInv, TypeOK
<1>4. ASSUME NEW s \in Stage, workers[s] \in Workers PROVE Idle(workers[s])
  BY <1>4, NoneNoWorker DEF IInv, TypeOK, Waits
<1>5. QED
  BY <1>1, <1>2, <1>3, <1>4, Concluding DEF Reasons

LEMMA ReceiveKeeps == IInv /\ Receive => IInv'
<1> SUFFICES ASSUME IInv, Receive PROVE IInv'
  OBVIOUS
<1> USE DEF options
<1> DEFINE w == worker[stage]
           answer == Head(w.outbox)
           n == nature[Current]
           kept == [worker EXCEPT ![stage] = IF persistent THEN [w EXCEPT !.outbox = Tail(@)]
                                             ELSE NoWorker]
<1>1. /\ pc = "wait" /\ w.outbox # << >> /\ stage \in Stage
      /\ worker \in [Stage -> Workers \cup {NoWorker}]
      /\ w \in Workers /\ InHand(w)
  BY DEF Receive, IInv, TypeOK
<1>2. /\ w.inbox = << >> /\ w.status # "hung"
      /\ w.outbox = <<[id |-> seq, verdict |-> TheirVerdict(n, stage)]>>
  BY <1>1 DEF InHand
<1>3. answer = [id |-> seq, verdict |-> TheirVerdict(n, stage)] /\ Tail(w.outbox) = << >>
  BY <1>2
<1>4. n \in Conduct
  BY <1>1, CurrentIsKernel, KernelAssumption DEF IInv, TypeOK
<1>5. answer.verdict \in Verdicts /\ answer.verdict = TheirVerdict(n, stage) /\ answer.id = seq
  <2>1. w.outbox \in Seq([id : Nat, verdict : Verdicts])
    BY <1>1 DEF Workers
  <2>2. QED
    BY <1>1, <1>3, <2>1
<1>6. w.broken => stage = "launch" /\ answer.verdict = "cuda"
  BY <1>1, <1>5 DEF IInv, TheirVerdict
<1>7. kept \in [Stage -> Workers \cup {NoWorker}] /\ \A s \in Stage : s # stage => kept[s] = worker[s]
  <2>1. [w EXCEPT !.outbox = Tail(@)] \in Workers
    <3>1. [w EXCEPT !.outbox = Tail(@)] = [w EXCEPT !.outbox = << >>]
      BY <1>3
    <3>2. << >> \in Seq([id : Nat, verdict : Verdicts])
      OBVIOUS
    <3>3. QED
      BY <1>1, <3>1, <3>2 DEF Workers
  <2>2. QED
    BY <1>1, <2>1
<1>8. ASSUME NEW s \in Stage, kept[s] \in Workers, s = stage => ~w.broken
      PROVE  Idle(kept[s])
  <2>1. CASE s # stage
    BY <1>1, <1>7, <1>8, <2>1 DEF IInv, Waits
  <2>2. CASE s = stage /\ persistent
    <3>1. kept[s] = [w EXCEPT !.outbox = << >>]
      BY <1>1, <1>3, <2>2
    <3>2. QED
      BY <1>1, <1>2, <1>8, <2>2, <3>1 DEF Workers, Idle
  <2>3. CASE s = stage /\ ~persistent
    BY <1>1, <1>8, <2>3, NoneNoWorker
  <2>4. QED
    BY <2>1, <2>2, <2>3
<1>9. CASE /\ stage = "compile" /\ answer.verdict = "ok"
           /\ worker' = kept /\ stage' = "launch" /\ pc' = "ask"
           /\ UNCHANGED <<options, seq, probing, results, pending, kills>>
  <2>1. \A s \in Stage : worker'[s] \in Workers => Idle(worker'[s]) /\ ~worker'[s].broken
    BY <1>6, <1>8, <1>9 DEF Idle
  <2>2. n.compile = "ok" /\ (Required => n.mlir)
    BY <1>5, <1>9 DEF TheirVerdict
  <2>3. TypeOK'
    BY <1>1, <1>7, <1>9 DEF IInv, TypeOK, Stage
  <2>4. ReasonsAreOwn' /\ (probing => OwnReason(nature[Current], pending))'
    BY <1>1, <1>9 DEF IInv, ReasonsAreOwn, OwnReason, Loads, Compiles, Current
  <2>5. QED
    BY <1>1, <1>9, <2>1, <2>2, <2>3, <2>4 DEF IInv, Waits, Idle, Current, Required
<1>10. probing \/ OwnReason(n, answer.verdict) \/ (stage = "compile" /\ answer.verdict = "ok")
  <2> SUFFICES ASSUME ~probing PROVE OwnReason(n, answer.verdict) \/ (stage = "compile" /\ answer.verdict = "ok")
    OBVIOUS
  <2>1. CASE artifacts /\ ~n.mlir
    <3>1. answer.verdict = "error" /\ ~Loads(n)
      BY <1>5, <2>1 DEF TheirVerdict, Required, Loads
    <3>2. QED
      BY <3>1 DEF OwnReason
  <2>2. CASE ~(artifacts /\ ~n.mlir)
    <3>1. answer.verdict = IF stage = "launch" /\ n.launch = "breaks" THEN "cuda" ELSE n[stage]
      BY <1>5, <2>2 DEF TheirVerdict, Required
    <3>2. Loads(n) /\ (stage = "launch" => Compiles(n))
      BY <1>1, <2>2 DEF IInv, Loads, Compiles
    <3>3. QED
      BY <1>1, <1>4, <1>5, <3>1, <3>2 DEF OwnReason, Conduct, Verdicts, Stage
  <2>3. QED
    BY <2>1, <2>2
<1>11. CASE \/ stage = "compile" /\ answer.verdict # "ok" /\ Conclude(answer.verdict, kept)
            \/ stage = "launch" /\ answer.verdict \in {"ok", "diff"} /\ Conclude(answer.verdict, kept)
  <2>1. ~w.broken
    BY <1>6, <1>11
  <2>2. \A s \in Stage : kept[s] \in Workers => Idle(kept[s])
    BY <1>8, <2>1
  <2>3. /\ answer.verdict \in Reasons /\ Conclude(answer.verdict, kept)
        /\ probing \/ OwnReason(n, answer.verdict)
    BY <1>5, <1>10, <1>11 DEF Verdicts, Reasons
  <2>4. QED
    BY <1>1, <1>7, <2>2, <2>3, Concluding
<1>12. CASE /\ stage = "launch" /\ answer.verdict \in {"error", "cuda"}
            /\ Conclude(answer.verdict, AfterFailedLaunch(kept, answer.verdict))
  <2> DEFINE left == AfterFailedLaunch(kept, answer.verdict)
  <2>1. left \in [Stage -> Workers \cup {NoWorker}]
    BY <1>7 DEF AfterFailedLaunch
  <2>2. ASSUME NEW s \in Stage, left[s] \in Workers PROVE Idle(left[s])
    BY <1>8, <1>12, <2>2, NoneNoWorker DEF AfterFailedLaunch
  <2>3. answer.verdict \in Reasons /\ (probing \/ OwnReason(n, answer.verdict))
    BY <1>5, <1>10, <1>12 DEF Verdicts, Reasons
  <2>4. QED
    BY <1>1, <1>12, <2>1, <2>2, <2>3, Concluding
<1>13. QED
  BY <1>5, <1>9, <1>11, <1>12 DEF Receive

(***************************************************************************)
(* What happens to a worker.                                               *)
(***************************************************************************)
LEMMA WorkKeeps ==
    ASSUME IInv, NEW s \in Stage, Work(s)
    PROVE  IInv'
<1> USE DEF options
<1> DEFINE w == worker[s]
           n == nature[Current]
           new == StageStep(w, n, s)
           task == [id |-> seq, kernel |-> Current]
           answer(v) == [id |-> seq, verdict |-> v]
<1>1. /\ worker \in [Stage -> Workers \cup {NoWorker}]
      /\ w.status = "serving" /\ w.inbox # << >>
      /\ UNCHANGED <<nature, persistent, timed, refine, artifacts, seq, pc, stage, probing, results, pending, kills>>
  BY DEF IInv, TypeOK, Work
<1>2. w \in Workers
  BY <1>1 DEF NoWorker
<1>3. Waits(s) /\ InHand(w)
  BY <1>1, <1>2 DEF IInv, Waits, Idle
<1>4. w.inbox = <<task>> /\ w.outbox = << >> /\ ~w.broken /\ w.mlir = Required
  BY <1>1, <1>3 DEF InHand
<1>5. Head(w.inbox) = task /\ Tail(w.inbox) = << >> /\ worker' = [worker EXCEPT ![s] = new]
  <2>1. Head(w.inbox) = task /\ Tail(w.inbox) = << >>
    BY <1>4
  <2>2. Head(w.inbox).kernel = Current
    BY <2>1
  <2>3. QED
    BY <2>1, <2>2 DEF Work
<1>6. n \in Conduct /\ seq \in Nat
  BY <1>3, CurrentIsKernel, KernelAssumption DEF IInv, TypeOK, Waits
<1>7. ASSUME NEW v \in Verdicts PROVE
      /\ Answer(w, v) \in Workers /\ Answer(w, v).inbox = << >> /\ Answer(w, v).status = "serving"
      /\ Answer(w, v).outbox = <<answer(v)>> /\ ~Answer(w, v).broken /\ Answer(w, v).mlir = Required
  <2>1. <<answer(v)>> \in Seq([id : Nat, verdict : Verdicts]) /\ << >> \in Seq(Tasks)
    BY <1>6
  <2>2. Answer(w, v) = [w EXCEPT !.inbox = << >>, !.outbox = <<answer(v)>>]
    <3>1. Append(w.outbox, answer(v)) = <<answer(v)>> /\ Head(w.inbox).id = seq
      BY <1>4, <1>5
    <3>2. QED
      BY <1>2, <1>5, <3>1 DEF Answer, Workers
  <2>3. QED
    BY <1>1, <1>2, <1>4, <2>1, <2>2 DEF Workers
<1>8. /\ new \in Workers /\ InHand(new)
      /\ new.broken => s = "launch" /\ n.launch = "breaks"
  <2>1. CASE Required /\ ~n.mlir
    <3>1. new = Answer(w, "error")
      <4>1. w.mlir /\ ~n.mlir
        BY <1>4, <2>1
      <4>2. QED
        BY <4>1 DEF StageStep
    <3>2. TheirVerdict(n, stage) = "error"
      BY <2>1 DEF TheirVerdict
    <3>3. QED
      BY <1>7, <3>1, <3>2 DEF InHand, Verdicts
  <2> DEFINE loads == ~(Required /\ ~n.mlir)
  <2>2. CASE loads /\ n[s] = "breaks"
    <3>1. s = "launch" /\ n.launch = "breaks"
      BY <1>6, <2>2 DEF Conduct, Stage
    <3>2. new = [Answer(w, "cuda") EXCEPT !.broken = TRUE]
      BY <1>4, <2>2 DEF StageStep
    <3>3. /\ new \in Workers /\ new.inbox = << >> /\ new.status = "serving"
          /\ new.outbox = <<answer("cuda")>> /\ new.mlir = Required
      BY <1>7, <3>2 DEF Workers, Verdicts
    <3>4. TheirVerdict(n, stage) = "cuda"
      BY <1>3, <2>2, <3>1 DEF TheirVerdict, Waits
    <3>5. QED
      BY <3>1, <3>3, <3>4 DEF InHand
  <2>3. CASE loads /\ n[s] = "hangs"
    <3>1. new = [w EXCEPT !.inbox = << >>, !.status = "hung", !.at = seq]
      <4>1. Head(w.inbox).id = seq
        BY <1>5
      <4>2. QED
        BY <1>2, <1>4, <1>5, <2>3, <4>1 DEF StageStep, Workers
    <3>2. << >> \in Seq(Tasks)
      OBVIOUS
    <3>3. new \in Workers /\ new.status = "hung" /\ new.at = seq /\ new.inbox = << >>
          /\ new.outbox = << >> /\ ~new.broken /\ new.mlir = Required
      BY <1>2, <1>4, <1>6, <3>1, <3>2 DEF Workers
    <3>4. QED
      BY <3>3 DEF InHand
  <2>4. CASE loads /\ n[s] = "dies"
    <3>1. new = [w EXCEPT !.status = "dead"]
      BY <1>4, <2>4 DEF StageStep
    <3>2. QED
      BY <1>2, <1>4, <3>1 DEF Workers, InHand
  <2>5. CASE loads /\ n[s] \notin {"breaks", "hangs", "dies"}
    <3>1. n[s] \in Verdicts /\ new = Answer(w, n[s])
      BY <1>4, <1>6, <2>5 DEF Conduct, Stage, Verdicts, StageStep
    <3>2. TheirVerdict(n, stage) = n[s]
      BY <1>3, <2>5 DEF TheirVerdict, Waits
    <3>3. QED
      BY <1>7, <3>1, <3>2 DEF InHand
  <2>6. QED
    BY <2>1, <2>2, <2>3, <2>4, <2>5
<1>9. worker' \in [Stage -> Workers \cup {NoWorker}] /\ worker'[s] = new
      /\ \A r \in Stage : r # s => worker'[r] = worker[r]
  <2>1. nature[Head(w.inbox).kernel] = n
    BY <1>5
  <2>2. QED
    BY <1>1, <1>5, <1>8, <2>1
<1>10. TypeOK' /\ ReasonsAreOwn' /\ (probing => OwnReason(nature[Current], pending))'
  BY <1>1, <1>3, <1>9 DEF IInv, TypeOK, ReasonsAreOwn, OwnReason, Loads, Compiles, Current, Waits
<1>11. InHand(worker[s])'
  BY <1>1, <1>8, <1>9 DEF InHand, TheirVerdict, Required, Current
<1>12. QED
  BY <1>1, <1>3, <1>8, <1>9, <1>10, <1>11 DEF IInv, Waits, Idle, InHand, TheirVerdict, Required, Current

LEMMA KillKeeps ==
    ASSUME IInv, NEW s \in Stage, Kill(s)
    PROVE  IInv'
<1> USE DEF options
<1> DEFINE w == worker[s]
<1>1. PICK sent \in {w.outbox, << >>} :
         worker' = [worker EXCEPT ![s].status = "dead", ![s].outbox = sent]
  BY DEF Kill
<1>2. /\ worker \in [Stage -> Workers \cup {NoWorker}] /\ w \in Workers
      /\ kills \in Nat /\ kills < MaxKills /\ kills' = kills + 1
      /\ UNCHANGED <<nature, persistent, timed, refine, artifacts, seq, pc, stage, probing, results, pending>>
  BY KernelAssumption DEF IInv, TypeOK, Kill
<1> DEFINE new == [w EXCEPT !.status = "dead", !.outbox = sent]
<1>3. worker' = [worker EXCEPT ![s] = new]
  BY <1>1, <1>2
<1>4. /\ new \in Workers /\ new.status = "dead" /\ new.outbox = sent
      /\ new.inbox = w.inbox /\ new.broken = w.broken
  <2>1. sent \in Seq([id : Nat, verdict : Verdicts])
    <3>1. w.outbox \in Seq([id : Nat, verdict : Verdicts])
      BY <1>2 DEF Workers
    <3>2. << >> \in Seq([id : Nat, verdict : Verdicts])
      OBVIOUS
    <3>3. QED
      BY <3>1, <3>2
  <2>2. QED
    BY <1>2, <2>1 DEF Workers
<1>5. worker'[s] = new /\ \A r \in Stage : r # s => worker'[r] = worker[r]
  BY <1>2, <1>3
<1>6. worker' \in [Stage -> Workers \cup {NoWorker}] /\ kills' \in 0 .. MaxKills
  BY <1>2, <1>3, <1>4, KernelAssumption
<1>7. TypeOK' /\ ReasonsAreOwn' /\ (pc \in {"ask", "wait"} /\ probing => OwnReason(nature[Current], pending)')
  BY <1>2, <1>6 DEF IInv, TypeOK, ReasonsAreOwn, OwnReason, Loads, Compiles, Current
<1>8. Waits(s) => InHand(worker[s])'
  <2>1. Waits(s) => InHand(w)
    BY DEF Waits, IInv
  <2>2. QED
    <3>1. Required' = Required /\ Current' = Current
      BY <1>2 DEF Required, Current
    <3>2. TheirVerdict(nature[Current], stage)' = TheirVerdict(nature[Current], stage)
      BY <1>2, <3>1 DEF TheirVerdict
    <3>3. new.mlir = w.mlir
      BY <1>2 DEF Workers
    <3>4. QED
      BY <1>2, <1>4, <1>5, <2>1, <3>1, <3>2, <3>3 DEF InHand
<1>9. ~Waits(s) => Idle(worker[s])'
  BY <1>2, <1>4, <1>5 DEF IInv, Idle
<1>10. \A r \in Stage : r # s /\ Waits(r) => InHand(worker[r])'
  BY <1>2, <1>5 DEF IInv, Waits, InHand, Current, TheirVerdict, Required
<1>11. stage \in Stage /\ (pc = "wait" => Waits(stage))
  BY DEF IInv, TypeOK, Waits
<1>12. pc' = "wait" => worker'[stage] \in Workers /\ InHand(worker[stage])'
  BY <1>2, <1>4, <1>5, <1>8, <1>10, <1>11 DEF IInv, Waits
<1>13. \A r \in Stage : worker'[r] \in Workers =>
          /\ (~Waits(r) => Idle(worker[r]))'
          /\ worker'[r].broken => r = "launch" /\ nature[Current].launch = "breaks"
  <2> SUFFICES ASSUME NEW r \in Stage, worker'[r] \in Workers
               PROVE  /\ (~Waits(r) => Idle(worker[r]))'
                      /\ worker'[r].broken => r = "launch" /\ nature[Current].launch = "breaks"
    OBVIOUS
  <2>1. CASE r = s
    <3>1. (~Waits(s) => Idle(worker[s]))'
      BY <1>2, <1>9 DEF Waits
    <3>2. QED
      BY <1>2, <1>4, <1>5, <2>1, <3>1 DEF IInv
  <2>2. CASE r # s
    BY <1>2, <1>5, <2>2 DEF IInv, Waits, Idle
  <2>3. QED
    BY <2>1, <2>2
<1>14. QED
  BY <1>2, <1>7, <1>12, <1>13 DEF IInv, Current, Required

LEMMA StepKeeps == IInv /\ [Next]_vars => IInv'
<1> SUFFICES ASSUME IInv, [Next]_vars PROVE IInv'
  OBVIOUS
<1>1. CASE Driver
  BY <1>1, AskKeeps, StartFailsKeeps, ReceiveKeeps, NoResultKeeps, TimeoutKeeps DEF Driver
<1>2. ASSUME NEW s \in Stage, Work(s) \/ Kill(s) PROVE IInv'
  BY <1>2, WorkKeeps, KillKeeps
<1>3. CASE UNCHANGED vars
  BY <1>3 DEF vars, IInv, TypeOK, Required, InHand, Waits, Idle, Current, ReasonsAreOwn, OwnReason, Loads, Compiles,
              TheirVerdict
<1>4. QED
  BY <1>1, <1>2, <1>3 DEF Next

(***************************************************************************)
(* The worker the driver waits for is where InHand says, every other one is *)
(* idle, and the recorded reasons are the kernels' own.                    *)
(***************************************************************************)
THEOREM Inductive == Spec => []IInv
<1>1. Init => IInv
  BY InitIInv
<1>2. IInv /\ [Next]_vars => IInv'
  BY StepKeeps
<1>3. QED
  BY <1>1, <1>2, PTL DEF Spec

\* Every reachable state of the driver and its workers is well typed.
THEOREM TypeCorrect == Spec => []TypeOK
<1>1. IInv => TypeOK
  BY DEF IInv
<1>2. QED
  BY <1>1, Inductive, PTL

\* A worker is never given a task before it is done with the one before.
THEOREM WorkersAttend == Spec => []Attended
<1>1. IInv => Attended
  <2> SUFFICES ASSUME IInv, pc = "wait" PROVE Attended
    BY DEF Attended
  <2>1. worker[stage] # NoWorker /\ InHand(worker[stage])
    BY NoneNoWorker DEF IInv
  <2>2. QED
    BY <2>1 DEF InHand, Attended
<1>2. QED
  BY <1>1, Inductive, PTL

\* For any kernels in any order, no kernel's recorded reason stems from another kernel.
THEOREM ReasonsOwned == Spec => []ReasonsAreOwn
<1>1. IInv => ReasonsAreOwn
  BY DEF IInv
<1>2. QED
  BY <1>1, Inductive, PTL
================================================================================
