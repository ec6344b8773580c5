--------------------------- MODULE BlockKernel_proofs ---------------------------
(***************************************************************************)
(* Theorems about every kernel that BlockKernel can run, of any number of    *)
(* threads, rounds and cells: its variables keep their types; and if no      *)
(* round of the kernel lets two threads meet at a cell that one of them      *)
(* writes (RaceFree), then no interleaving has a data race                   *)
(* and every interleaving computes what the lock-step run computes.  The     *)
(* emitted tree and shuffle reductions and staged tiles meet that condition  *)
(* at any size of a block; the kernels that reuse their cells never do.     *)
(***************************************************************************)
EXTENDS BlockKernel, ReductionKernels, TileKernels, SequenceTheorems, TLAPS

\* In every round the cells a thread writes are read and written by no other.
RaceFree ==
    \A k \in Kernels : \A i \in 1 .. Final(k), t, u \in Runners(k) :
        t # u => Stores(k, i, t) \cap (Loads(k, i, u) \cup Stores(k, i, u)) = {}

\* The lock-step run takes every result whole.
LockStepTakesWhole ==
    \A k \in Kernels : \A i \in 1 .. Final(k), t \in Runners(k) :
        \A c \in Loads(k, i, t) \cap DOMAIN RoundAt(k, i).want :
            LockStep[k][i].reg[t][c] = RoundAt(k, i).want[c]

\* The lock-step run, which some thread takes part in, leaves the output.
LockStepLeaves ==
    \A k \in Kernels :
        /\ Runners(k) # {}
        /\ \A c \in DOMAIN Program[k].output :
              c \in Mem(k) /\ LockStep[k][Final(k)].mem[c] = Program[k].output[c]

(***************************************************************************)
(* Only the threads that have a barrier ahead of them wait; a running thread *)
(* is done in the last round only, an idle one always.                      *)
(***************************************************************************)
EndsAtLast ==
    /\ \A t \in Block(kernel) : pc[t] = "wait" => round[t] < Final(kernel)
    /\ \A t \in Running : pc[t] = "done" => round[t] = Final(kernel)
    /\ \A t \in Program[kernel].idle : pc[t] = "done"

(***************************************************************************)
(* A thread is at most one round ahead of another, and only of one that has  *)
(* arrived at the barrier between them.                                     *)
(***************************************************************************)
NobodyOvertakes ==
    \A t, u \in Running : round[u] < round[t] => round[t] = round[u] + 1 /\ pc[u] = "wait"

LEMMA InitEndsAtLast == Init => TypeOK /\ EndsAtLast /\ NobodyOvertakes
<1> SUFFICES ASSUME Init PROVE TypeOK /\ EndsAtLast /\ NobodyOvertakes
  OBVIOUS
<1> USE DEF Init
<1>1. Final(kernel) \in Nat \ {0}
  BY ProgramAssumption
<1>2. TypeOK
  BY <1>1 DEF TypeOK
<1>3. EndsAtLast
  BY ProgramAssumption DEF EndsAtLast, Running, Runners
<1>4. NobodyOvertakes
  BY DEF NobodyOvertakes, Running, Runners
<1> QED
  BY <1>2, <1>3, <1>4

LEMMA LoadShape ==
    ASSUME TypeOK, EndsAtLast, NobodyOvertakes, NEW t \in Block(kernel), Load(t)
    PROVE  TypeOK' /\ EndsAtLast' /\ NobodyOvertakes'
<1> USE DEF Load
<1>1. TypeOK'
  BY DEF TypeOK
<1>2. EndsAtLast'
  BY DEF TypeOK, EndsAtLast, Running, Runners
<1>3. NobodyOvertakes'
  BY DEF TypeOK, NobodyOvertakes, Running, Runners
<1> QED
  BY <1>1, <1>2, <1>3

LEMMA StoreShape ==
    ASSUME TypeOK, EndsAtLast, NobodyOvertakes, NEW t \in Block(kernel), Store(t)
    PROVE  TypeOK' /\ EndsAtLast' /\ NobodyOvertakes'
<1> USE DEF Store
<1>0. Final(kernel) \in Nat
  BY ProgramAssumption DEF TypeOK
<1>1. TypeOK'
  BY DEF TypeOK
<1>2. EndsAtLast'
  BY <1>0, ProgramAssumption DEF TypeOK, EndsAtLast, Running, Runners
<1>3. NobodyOvertakes'
  BY DEF TypeOK, NobodyOvertakes, Running, Runners
<1> QED
  BY <1>1, <1>2, <1>3

LEMMA BarrierShape ==
    ASSUME TypeOK, EndsAtLast, NobodyOvertakes, NEW t \in Block(kernel), Barrier(t)
    PROVE  TypeOK' /\ EndsAtLast' /\ NobodyOvertakes'
<1> USE DEF Barrier
<1>0. Final(kernel) \in Nat /\ round[t] \in 1 .. Final(kernel) /\ round[t] < Final(kernel)
  BY ProgramAssumption DEF TypeOK, EndsAtLast
<1>1. TypeOK'
  BY <1>0 DEF TypeOK
<1>2. EndsAtLast'
  BY <1>0, ProgramAssumption DEF TypeOK, EndsAtLast, Running, Runners
<1>3. NobodyOvertakes'
  <2> SUFFICES ASSUME NEW v \in Running, NEW u \in Running, round'[u] < round'[v]
               PROVE  round'[v] = round'[u] + 1 /\ pc'[u] = "wait"
    BY DEF NobodyOvertakes, Running, Runners
  <2>1. u \in Block(kernel) /\ v \in Block(kernel) /\ round[u] \in Nat /\ round[v] \in Nat
    BY <1>0 DEF Running, Runners, TypeOK
  <2>2. CASE u = t
    BY <1>0, <2>1, <2>2 DEF NobodyOvertakes, TypeOK, Running, Runners
  <2>3. CASE u # t /\ v = t
    <3>1. Arrived(u, round[t])
      BY <2>1
    <3>2. pc[u] # "done"
      BY <1>0, <2>3 DEF EndsAtLast, TypeOK, Running, Runners
    <3> QED
      BY <1>0, <2>1, <2>3, <3>1, <3>2 DEF Arrived, TypeOK
  <2>4. CASE u # t /\ v # t
    BY <2>1, <2>4 DEF NobodyOvertakes, TypeOK
  <2> QED
    BY <2>2, <2>3, <2>4
<1> QED
  BY <1>1, <1>2, <1>3

LEMMA NextShape == TypeOK /\ EndsAtLast /\ NobodyOvertakes /\ [Next]_vars
                      => TypeOK' /\ EndsAtLast' /\ NobodyOvertakes'
<1> SUFFICES ASSUME TypeOK, EndsAtLast, NobodyOvertakes, [Next]_vars
             PROVE  TypeOK' /\ EndsAtLast' /\ NobodyOvertakes'
  OBVIOUS
<1>1. CASE Next
  <2> PICK t \in Threads : Step(t)
    BY <1>1 DEF Next
  <2> QED
    BY LoadShape, StoreShape, BarrierShape DEF Step
<1>2. CASE UNCHANGED vars
  BY <1>2 DEF vars, TypeOK, EndsAtLast, NobodyOvertakes, Running, Runners
<1> QED
  BY <1>1, <1>2

LEMMA Shape == Spec => [](TypeOK /\ EndsAtLast /\ NobodyOvertakes)
<1> QED
  BY InitEndsAtLast, NextShape, PTL DEF Spec

(***************************************************************************)
(* Every variable keeps its shape through every launch: in particular a      *)
(* thread never runs past the last round of its kernel.                     *)
(***************************************************************************)
THEOREM TypeCorrect == Spec => []TypeOK
<1> QED
  BY Shape, PTL

(***************************************************************************)
(* Two threads that have accesses ahead of them before their next barrier   *)
(* are in the same round: of two rounds the threads of the earlier wait.    *)
(***************************************************************************)
LEMMA ActiveTogether ==
    ASSUME TypeOK, NobodyOvertakes, NEW t \in Running, NEW u \in Running,
           pc[t] \in {"load", "store"}, pc[u] \in {"load", "store"}
    PROVE  round[t] = round[u]
<1>1. round[t] \in Int /\ round[u] \in Int
  BY DEF TypeOK, Running, Runners
<1> QED
  BY <1>1 DEF NobodyOvertakes

(***************************************************************************)
(* A kernel whose rounds are free of races stays so in every interleaving:  *)
(* what a thread is about to write no other is about to read or write.      *)
(***************************************************************************)
THEOREM RaceFreedom ==
    ASSUME RaceFree
    PROVE  Spec => []NoDataRace
<1>1. TypeOK /\ NobodyOvertakes => NoDataRace
  <2> SUFFICES ASSUME TypeOK, NobodyOvertakes,
                      NEW t \in Running, StillWrites(t) # {}, NEW u \in Running \ {t}
               PROVE  StillWrites(t) \cap (NextReads(u) \cup StillWrites(u)) = {}
    BY DEF NoDataRace
  <2>1. pc[t] \in {"load", "store"} /\ StillWrites(t) = Stores(kernel, round[t], t)
    BY DEF StillWrites
  <2>2. CASE pc[u] \in {"load", "store"}
    <3>1. round[t] = round[u]
      BY <2>1, <2>2, ActiveTogether
    <3>2. kernel \in Kernels /\ round[t] \in 1 .. Final(kernel)
      BY DEF TypeOK, Running, Runners
    <3>3. Stores(kernel, round[t], t) \cap (Loads(kernel, round[t], u) \cup Stores(kernel, round[t], u)) = {}
      BY <3>2 DEF RaceFree, Running
    <3> QED
      BY <2>1, <3>1, <3>3 DEF StillWrites, NextReads
  <2>3. CASE pc[u] \notin {"load", "store"}
    BY <2>3 DEF StillWrites, NextReads
  <2> QED
    BY <2>2, <2>3
<1> QED
  BY <1>1, Shape, PTL

(***************************************************************************)
(* The memory in the round of the foremost threads: the lock-step memory    *)
(* after that round where a thread that has passed its writes owns the cell, *)
(* the lock-step memory before it elsewhere.                               *)
(***************************************************************************)
Foremost(t) == \A u \in Running : round[u] <= round[t]
Passed(i, c) == \E u \in Running : round[u] = i /\ pc[u] \in {"wait", "done"} /\ c \in Stores(kernel, i, u)
MemoryAgrees ==
    /\ \A t \in Running : Foremost(t) => \A c \in Mem(kernel) :
          mem[c] = IF Passed(round[t], c) THEN LockStep[kernel][round[t]].mem[c]
                   ELSE LockStep[kernel][round[t] - 1].mem[c]

Agreement == TypeOK /\ EndsAtLast /\ NobodyOvertakes /\ MemoryAgrees /\ ReadsAgree

\* A thread that has not arrived at its barrier is foremost.
LEMMA ActiveIsForemost ==
    ASSUME TypeOK, NobodyOvertakes, NEW t \in Running, pc[t] # "wait"
    PROVE  Foremost(t)
<1>1. \A u \in Running : round[u] \in Int
  BY DEF TypeOK, Running, Runners
<1> QED
  BY <1>1 DEF Foremost, NobodyOvertakes

LEMMA InitAgreement == Init => Agreement
<1> SUFFICES ASSUME Init PROVE Agreement
  OBVIOUS
<1>1. TypeOK /\ EndsAtLast /\ NobodyOvertakes
  BY InitEndsAtLast
<1>2. \A t \in Running : round[t] = 1 /\ pc[t] = "load" /\ t \in Block(kernel)
  BY DEF Init, Running, Runners
<1>3. MemoryAgrees
  BY <1>2, LockStepAssumption DEF Init, MemoryAgrees, Passed
<1>4. ReadsAgree
  BY <1>2, LockStepAssumption DEF Init, ReadsAgree
<1> QED
  BY <1>1, <1>3, <1>4 DEF Agreement

LEMMA LoadAgreement ==
    ASSUME RaceFree, Agreement, NEW t \in Block(kernel), Load(t)
    PROVE  MemoryAgrees' /\ ReadsAgree'
<1> USE DEF Agreement
<1>1. t \in Running => round[t] \in 1 .. Final(kernel) /\ kernel \in Kernels
  BY DEF TypeOK
<1>2. MemoryAgrees'
  <2>1. round' = round /\ Running' = Running /\ mem' = mem /\ kernel' = kernel
    BY DEF Load, Running, Runners
  <2>2. \A u : pc'[u] \in {"wait", "done"} <=> pc[u] \in {"wait", "done"}
    BY DEF Load, TypeOK
  <2>3. \A i, c : Passed(i, c)' <=> Passed(i, c)
    BY <2>1, <2>2 DEF Passed, Stores, RoundAt
  <2>4. \A u : Foremost(u)' <=> Foremost(u)
    BY <2>1 DEF Foremost
  <2> QED
    BY <2>1, <2>3, <2>4 DEF MemoryAgrees
<1>3. ReadsAgree'
  <2> SUFFICES ASSUME NEW u \in Running
               PROVE  reg'[u] = LockStep[kernel][IF pc'[u] = "load" THEN round[u] - 1 ELSE round[u]].reg[u]
    BY DEF ReadsAgree, Load, Running, Runners
  <2>1. CASE u # t
    BY <2>1 DEF Load, ReadsAgree, TypeOK, Running, Runners
  <2>2. CASE u = t
    <3>1. reg'[t] = [c \in Mem(kernel) |-> IF c \in Loads(kernel, round[t], t) THEN mem[c] ELSE reg[t][c]]
      BY DEF Load, TypeOK
    <3>2. ReadInStep(kernel, round[t], t)
      BY <1>1, <2>2, LockStepAssumption DEF Running
    <3>3. reg[t] = LockStep[kernel][round[t] - 1].reg[t]
      BY <2>2 DEF ReadsAgree, Load
    <3>4. \A c \in Loads(kernel, round[t], t) \cap Mem(kernel) :
            mem[c] = LockStep[kernel][round[t] - 1].mem[c]
      <4> SUFFICES ASSUME NEW c \in Loads(kernel, round[t], t) \cap Mem(kernel)
                   PROVE  ~ Passed(round[t], c)
        BY <2>2, ActiveIsForemost DEF MemoryAgrees, Load
      <4>1. ASSUME NEW v \in Running, c \in Stores(kernel, round[t], v) PROVE v = t
        BY <1>1, <2>2, <4>1 DEF RaceFree, Running
      <4> QED
        BY <4>1 DEF Passed, Load
    <3>5. pc'[t] = "store"
      BY DEF Load, TypeOK
    <3> QED
      BY <2>2, <3>1, <3>2, <3>3, <3>4, <3>5 DEF ReadInStep
  <2> QED
    BY <2>1, <2>2
<1> QED
  BY <1>2, <1>3

LEMMA StoreAgreement ==
    ASSUME RaceFree, Agreement, NEW t \in Block(kernel), t \in Running, Store(t)
    PROVE  MemoryAgrees' /\ ReadsAgree'
<1> USE DEF Agreement
<1> PICK i \in 1 .. Final(kernel) : i = round[t]
  BY DEF TypeOK
<1>0. kernel \in Kernels
  BY DEF TypeOK
<1>1. \A u \in Running : round[u] <= i
  BY ActiveIsForemost DEF Foremost, Store
<1>2. round' = round /\ Running' = Running /\ kernel' = kernel /\ reg' = reg
  BY DEF Store, Running, Runners
<1>3. pc'[t] \in {"wait", "done"} /\ pc[t] = "store" /\ \A u : u # t => pc'[u] = pc[u]
  BY DEF Store, TypeOK
<1>4. reg[t] = LockStep[kernel][i].reg[t]
  BY <1>3 DEF ReadsAgree
<1>5. \A c \in Mem(kernel) :
        mem'[c] = IF Passed(i, c)' THEN LockStep[kernel][i].mem[c] ELSE LockStep[kernel][i - 1].mem[c]
  <2> SUFFICES ASSUME NEW c \in Mem(kernel)
               PROVE  mem'[c] = IF Passed(i, c)' THEN LockStep[kernel][i].mem[c]
                                ELSE LockStep[kernel][i - 1].mem[c]
    OBVIOUS
  <2>1. CASE c \in Stores(kernel, i, t)
    <3>1. mem'[c] = Value(RoundAt(kernel, i), reg[t], c)
      BY <2>1 DEF Store, TypeOK, Stores
    <3>2. WrittenInStep(kernel, i, c)
      BY <1>0, LockStepAssumption
    <3>3. ASSUME NEW v \in Running, c \in Stores(kernel, i, v) PROVE v = t
      BY <1>0, <2>1, <3>3 DEF RaceFree, Running
    <3>4. LockStep[kernel][i].mem[c] = Value(RoundAt(kernel, i), LockStep[kernel][i].reg[t], c)
      BY <2>1, <3>2, <3>3 DEF WrittenInStep, Running
    <3>5. Passed(i, c)'
      BY <1>2, <1>3, <2>1 DEF Passed, Stores, RoundAt
    <3> QED
      BY <1>4, <3>1, <3>4, <3>5
  <2>2. CASE c \notin Stores(kernel, i, t)
    <3>1. mem'[c] = mem[c]
      BY <2>2 DEF Store, TypeOK, Stores
    <3>2. Passed(i, c)' <=> Passed(i, c)
      BY <1>2, <1>3, <2>2 DEF Passed, Stores, RoundAt
    <3> QED
      BY <1>1, <3>1, <3>2 DEF MemoryAgrees, Foremost
  <2> QED
    BY <2>1, <2>2
<1>6. MemoryAgrees'
  <2> SUFFICES ASSUME NEW v \in Running, Foremost(v)', NEW c \in Mem(kernel)
               PROVE  mem'[c] = IF Passed(round[v], c)' THEN LockStep[kernel][round[v]].mem[c]
                                ELSE LockStep[kernel][round[v] - 1].mem[c]
    BY <1>2 DEF MemoryAgrees
  <2>1. round[v] \in Int /\ i <= round[v] /\ round[v] <= i
    BY <1>1, <1>2 DEF Foremost, TypeOK, Running, Runners
  <2>2. round[v] = i
    BY <1>0, <2>1
  <2> QED
    BY <1>2, <1>5, <2>2 DEF Passed
<1>7. ReadsAgree'
  BY <1>2, <1>3 DEF ReadsAgree
<1> QED
  BY <1>6, <1>7

LEMMA BarrierAgreement ==
    ASSUME Agreement, NEW t \in Block(kernel), t \in Running, Barrier(t)
    PROVE  MemoryAgrees' /\ ReadsAgree'
<1> USE DEF Agreement
<1> PICK i \in 1 .. Final(kernel) : i = round[t]
  BY DEF TypeOK
<1>0. i < Final(kernel) /\ kernel \in Kernels /\ Final(kernel) \in Nat
  BY ProgramAssumption DEF TypeOK, Barrier, EndsAtLast
<1>1. Running' = Running /\ kernel' = kernel /\ reg' = reg /\ mem' = mem
  BY DEF Barrier, Running, Runners
<1>2. round'[t] = i + 1 /\ pc'[t] = "load" /\ pc[t] = "wait"
  BY DEF Barrier, TypeOK
<1>3. \A u : u # t => round'[u] = round[u] /\ pc'[u] = pc[u]
  BY DEF Barrier, TypeOK
<1>4. \A u \in Running : round[u] \in 1 .. Final(kernel) /\ round[u] <= i + 1
  BY <1>0 DEF TypeOK, NobodyOvertakes, Running, Runners
<1>5. \A u \in Running : round[u] = i + 1 \/ (round[u] = i /\ pc[u] = "wait")
  <2> SUFFICES ASSUME NEW u \in Running
               PROVE  round[u] = i + 1 \/ (round[u] = i /\ pc[u] = "wait")
    OBVIOUS
  <2>1. Arrived(u, i)
    BY DEF Barrier, Running, Runners
  <2> QED
    BY <1>0, <1>4, <2>1 DEF Arrived, EndsAtLast
<1>6. \A c \in Mem(kernel) :
        mem[c] = IF Passed(i + 1, c)' THEN LockStep[kernel][i + 1].mem[c] ELSE LockStep[kernel][i].mem[c]
  <2> SUFFICES ASSUME NEW c \in Mem(kernel)
               PROVE  mem[c] = IF Passed(i + 1, c)' THEN LockStep[kernel][i + 1].mem[c]
                               ELSE LockStep[kernel][i].mem[c]
    OBVIOUS
  <2>1. CASE \E v \in Running : round[v] = i + 1
    <3> PICK v \in Running : round[v] = i + 1
      BY <2>1
    <3>1. Passed(i + 1, c)' <=> Passed(i + 1, c)
      BY <1>0, <1>1, <1>2, <1>3 DEF Passed, Stores, RoundAt
    <3>2. Foremost(v)
      BY <1>4 DEF Foremost
    <3>3. i + 1 - 1 = i
      BY <1>0
    <3> QED
      BY <3>1, <3>2, <3>3 DEF MemoryAgrees
  <2>2. CASE \A v \in Running : round[v] # i + 1
    <3>1. \A v \in Running : round[v] = i /\ pc[v] = "wait"
      BY <1>5, <2>2
    <3>2. ~ Passed(i + 1, c)'
      BY <1>0, <1>1, <1>2, <1>3, <3>1 DEF Passed
    <3>3. mem[c] = IF Passed(i, c) THEN LockStep[kernel][i].mem[c] ELSE LockStep[kernel][i - 1].mem[c]
      BY <1>0, <3>1 DEF MemoryAgrees, Foremost
    <3>4. ~ Passed(i, c) => LockStep[kernel][i].mem[c] = LockStep[kernel][i - 1].mem[c]
      <4>1. WrittenInStep(kernel, i, c)
        BY <1>0, LockStepAssumption
      <4> QED
        BY <3>1, <4>1 DEF WrittenInStep, Passed, Running
    <3> QED
      BY <3>2, <3>3, <3>4
  <2> QED
    BY <2>1, <2>2
<1>7. MemoryAgrees'
  <2> SUFFICES ASSUME NEW v \in Running, Foremost(v)', NEW c \in Mem(kernel)
               PROVE  mem[c] = IF Passed(round[v], c)' THEN LockStep[kernel][round'[v]].mem[c]
                               ELSE LockStep[kernel][round'[v] - 1].mem[c]
    BY <1>1 DEF MemoryAgrees
  <2>1. round'[v] = i + 1
    BY <1>0, <1>1, <1>2, <1>3, <1>4 DEF Foremost
  <2>2. i + 1 - 1 = i
    BY <1>0
  <2> QED
    BY <1>6, <2>1, <2>2 DEF Passed
<1>8. ReadsAgree'
  <2> SUFFICES ASSUME NEW u \in Running
               PROVE  reg[u] = LockStep[kernel][IF pc'[u] = "load" THEN round'[u] - 1 ELSE round'[u]].reg[u]
    BY <1>1 DEF ReadsAgree
  <2>1. CASE u # t
    BY <1>3, <2>1 DEF ReadsAgree
  <2>2. CASE u = t
    BY <1>0, <1>2, <2>2 DEF ReadsAgree
  <2> QED
    BY <2>1, <2>2
<1> QED
  BY <1>7, <1>8

LEMMA NextAgreement ==
    ASSUME RaceFree
    PROVE  Agreement /\ [Next]_vars => Agreement'
<1> SUFFICES ASSUME Agreement, [Next]_vars PROVE Agreement'
  OBVIOUS
<1>1. TypeOK' /\ EndsAtLast' /\ NobodyOvertakes'
  BY NextShape DEF Agreement
<1>2. MemoryAgrees' /\ ReadsAgree'
  <2>1. CASE Next
    <3> PICK t \in Threads : Step(t)
      BY <2>1 DEF Next
    <3>1. t \in Block(kernel) /\ t \in Running
      BY DEF Step, Load, Store, Barrier, Agreement, EndsAtLast, Running, Runners
    <3>2. CASE Load(t)
      BY <3>1, <3>2, LoadAgreement
    <3>3. CASE Store(t)
      BY <3>1, <3>3, StoreAgreement
    <3>4. CASE Barrier(t)
      BY <3>1, <3>4, BarrierAgreement
    <3> QED
      BY <3>2, <3>3, <3>4 DEF Step
  <2>2. CASE UNCHANGED vars
    BY <2>2 DEF vars, Agreement, MemoryAgrees, ReadsAgree, Foremost, Passed, Running, Runners,
                Block, Mem, Stores, RoundAt
  <2> QED
    BY <2>1, <2>2
<1> QED
  BY <1>1, <1>2 DEF Agreement

LEMMA AlwaysAgrees ==
    ASSUME RaceFree
    PROVE  Spec => []Agreement
<1> QED
  BY InitAgreement, NextAgreement, PTL DEF Spec

(***************************************************************************)
(* The barriers of a kernel whose rounds are free of races suffice: every    *)
(* interleaving of its threads reads what the lock-step run reads.          *)
(***************************************************************************)
THEOREM InterleavingsAgree ==
    ASSUME RaceFree
    PROVE  Spec => []ReadsAgree
<1>1. Agreement => ReadsAgree
  BY DEF Agreement
<1> QED
  BY <1>1, AlwaysAgrees, PTL

(***************************************************************************)
(* If, moreover, the lock-step run takes the result of every block-wide step *)
(* whole, so does every interleaving: it is enough to check a reduction, a   *)
(* scan or a sort in lock step, and its rounds for races.                   *)
(***************************************************************************)
THEOREM ResultsAreWhole ==
    ASSUME RaceFree, LockStepTakesWhole
    PROVE  Spec => []TakesWhole
<1>1. Agreement => TakesWhole
  <2> SUFFICES ASSUME Agreement, NEW t \in Running, pc[t] = "store",
                      NEW c \in Loads(kernel, round[t], t) \cap DOMAIN RoundAt(kernel, round[t]).want
               PROVE  reg[t][c] = RoundAt(kernel, round[t]).want[c]
    BY DEF TakesWhole
  <2>1. round[t] \in 1 .. Final(kernel) /\ kernel \in Kernels
    BY DEF Agreement, TypeOK, Running, Runners
  <2>2. reg[t] = LockStep[kernel][round[t]].reg[t]
    BY DEF Agreement, ReadsAgree
  <2> QED
    BY <2>1, <2>2 DEF LockStepTakesWhole, Running
<1> QED
  BY <1>1, AlwaysAgrees, PTL

(***************************************************************************)
(* Likewise for what the block leaves in memory: a scatter whose lock-step   *)
(* run leaves the right row leaves it in every interleaving.                *)
(***************************************************************************)
THEOREM OutputIsLeft ==
    ASSUME RaceFree, LockStepLeaves
    PROVE  Spec => []LeavesOutput
<1>1. Agreement => LeavesOutput
  <2> SUFFICES ASSUME Agreement, \A u \in Running : pc[u] = "done", NEW c \in DOMAIN Program[kernel].output
               PROVE  mem[c] = Program[kernel].output[c]
    BY DEF LeavesOutput
  <2>1. kernel \in Kernels /\ Final(kernel) \in Nat \ {0}
    BY ProgramAssumption DEF Agreement, TypeOK
  <2>2. PICK t \in Running : TRUE
    BY <2>1 DEF LockStepLeaves, Running
  <2>3. \A u \in Running : round[u] = Final(kernel)
    BY DEF Agreement, EndsAtLast
  <2>4. c \in Mem(kernel) /\ LockStep[kernel][Final(kernel)].mem[c] = Program[kernel].output[c]
    BY <2>1 DEF LockStepLeaves
  <2>5. mem[c] = IF Passed(Final(kernel), c) THEN LockStep[kernel][Final(kernel)].mem[c]
                 ELSE LockStep[kernel][Final(kernel) - 1].mem[c]
    BY <2>1, <2>3, <2>4 DEF Agreement, MemoryAgrees, Foremost
  <2>6. WrittenInStep(kernel, Final(kernel), c)
    <3>1. Final(kernel) \in 1 .. Final(kernel)
      BY <2>1
    <3> QED
      BY <2>1, <2>4, <3>1, LockStepAssumption
  <2> QED
    BY <2>3, <2>4, <2>5, <2>6 DEF WrittenInStep, Passed, Running
<1> QED
  BY <1>1, AlwaysAgrees, PTL

--------------------------------------------------------------------------------
\* Within round r of the threads S nobody writes a cell that another reads or writes.
Apart(r, S) == \A t, u \in S : t # u => r.store[t] \cap (r.load[u] \cup r.store[u]) = {}

LEMMA ProgramsApart ==
    ASSUME \A k \in Kernels : \A i \in 1 .. Final(k) : Apart(RoundAt(k, i), Block(k))
    PROVE  RaceFree
BY DEF RaceFree, Apart, Runners, Loads, Stores

LEMMA PutsApart == ASSUME NEW S, NEW owner, NEW fresh PROVE Apart(Put(S, owner, fresh), S)
BY DEF Apart, Put, RoundOf, NoReads, All

LEMMA TakesApart == ASSUME NEW S, NEW who, NEW want PROVE Apart(TakeBy(S, who, want), S)
BY DEF Apart, TakeBy, Wanting, RoundOf, OnlyBy, Nothing

LEMMA GathersApart == ASSUME NEW result PROVE Apart(GatherWarps(result), Ws)
BY DEF Apart, GatherWarps, RoundOf, OnlyBy

\* In the tree a thread below the stride reads its own cell and one at or past the stride.
LEMMA OneField == /\ Cells({0}) = Ts
                  /\ \A c \in Ts : Field({0}, c) = 0 /\ Owned({0})[c] = c
                  /\ DOMAIN Owned({0}) = Ts
<1>1. Cells({0}) = Ts
  BY StrideAssumption DEF Cells, Ts
<1>2. \A c \in Ts : Field({0}, c) = 0
  BY StrideAssumption DEF Field, Ts
<1> QED
  BY <1>1, <1>2, StrideAssumption DEF Owned, Ts

LEMMA TreeRoundsApart ==
    ASSUME NEW s \in Nat, 2 * s <= Width
    PROVE  Apart(TreeRound({0}, s), Ts)
<1> DEFINE r == TreeRound({0}, s)
<1>1. \A t \in Ts : r.load[t] = IF t < s THEN {t, t + s} ELSE {}
  BY StrideAssumption DEF TreeRound, RoundOf, Ts
<1>2. \A t \in Ts : r.store[t] = IF t < s THEN {t} ELSE {}
  BY OneField, StrideAssumption DEF TreeRound, RoundOf, Ts
<1>3. Ts \subseteq Nat
  BY StrideAssumption DEF Ts
<1> HIDE DEF r
<1>4. ASSUME NEW t \in Ts, NEW u \in Ts, t # u, NEW c \in r.store[t]
      PROVE  c \notin r.load[u] /\ c \notin r.store[u]
  <2>1. t < s /\ c = t
    BY <1>2, <1>4
  <2>2. c \notin {u} /\ (u < s => c \notin {u, u + s})
    BY <2>1, <1>3, <1>4
  <2> QED
    BY <1>1, <1>2, <2>2
<1>5. Apart(r, Ts)
  BY <1>4 DEF Apart
<1> QED
  BY <1>5 DEF r

TreeRounds == {TreeRound({0}, Stride(i)) : i \in 1 .. Levels}

LEMMA TreesAreSequences ==
    ASSUME NEW n \in Nat, n <= Levels, NEW Others
    PROVE  [i \in 1 .. n |-> TreeRound({0}, Stride(i))] \in Seq(Others \cup TreeRounds)
<1> DEFINE tree == [i \in 1 .. n |-> TreeRound({0}, Stride(i))]
<1>1. tree \in [1 .. n -> Others \cup TreeRounds]
  BY ShapeAssumption DEF TreeRounds
<1> QED
  BY <1>1, SeqDef, Zenon

\* A kernel made of trees and of other rounds that are free of races.
LEMMA TreesApart ==
    ASSUME NEW Others, \A r \in Others : Apart(r, Ts),
           NEW rounds \in Seq(Others \cup TreeRounds)
    PROVE  \A i \in 1 .. Len(rounds) : Apart(rounds[i], Ts)
<1>1. \A r \in TreeRounds : Apart(r, Ts)
  BY TreeRoundsApart, StrideAssumption DEF TreeRounds
<1>2. \A i \in 1 .. Len(rounds) : rounds[i] \in Others \cup TreeRounds
  BY ElementOfSeq
<1> QED
  BY <1>1, <1>2

LEMMA KernelsOf ==
    ASSUME NEW S, NEW rounds
    PROVE  /\ KernelOf(S, rounds).threads = S
           /\ KernelOf(S, rounds).rounds = rounds
BY DEF KernelOf, Leaving

\* A reduction in a tree, or two of which only one thread takes the results.
TreeReduction(p) ==
    \/ \E tag : p = ReduceToThread0(tag) \/ p = ReduceToAll(tag)
    \/ \E first, second : p = ReduceTwiceToThread0(first, second)
    \/ \E tag : p = StagedTree(tag)

\* A reduction by shuffles, of any fields into any results.
WarpReduction(p) == \E who, result, tag : p = WarpReduce(who, result, tag)

\* When one field is reduced, thread t owns cell t.
LEMMA PartialsApart == ASSUME NEW tag PROVE Apart(PutPartial({0}, tag), Ts)
BY PutsApart DEF PutPartial

\* Thread 0 takes the result of one tree and goes on to its own cell of the next.
LEMMA FirstTakesApart ==
    ASSUME NEW first, NEW second
    PROVE  Apart(Fused(TakeSums({0}, {0}, first), PutPartial({0}, second)), Ts)
<1> DEFINE r == Fused(TakeSums({0}, {0}, first), PutPartial({0}, second))
<1>1. 0 \in Ts /\ Ts \subseteq Nat
  BY StrideAssumption DEF Ts
<1>2. \A t \in Ts : r.load[t] \subseteq IF t = 0 THEN {0} ELSE {}
  BY DEF Fused, TakeSums, TakeBy, Wanting, PutPartial, Put, RoundOf, NoReads, All, OnlyBy, Nothing
<1>3. \A t \in Ts : r.store[t] \subseteq {t}
  BY OneField DEF Fused, TakeSums, TakeBy, Wanting, PutPartial, Put, RoundOf, NoReads, All, OnlyBy, Nothing
<1> HIDE DEF r
<1>4. Apart(r, Ts)
  BY <1>1, <1>2, <1>3 DEF Apart
<1> QED
  BY <1>4 DEF r

LEMMA TreeReductionsApart ==
    ASSUME NEW p, TreeReduction(p)
    PROVE  p.threads = Ts /\ \A i \in 1 .. Len(p.rounds) : Apart(p.rounds[i], Ts)
<1> DEFINE tree == [i \in 1 .. Levels |-> TreeRound({0}, Stride(i))]
<1>1. Tree({0}) = tree
  BY DEF Tree
<1>2. \A Others : tree \in Seq(Others \cup TreeRounds)
  BY TreesAreSequences, ShapeAssumption
<1> HIDE DEF tree
<1>3. ASSUME NEW tag, NEW who, p = KernelOf(Ts, <<PutPartial({0}, tag)>> \o Tree({0}) \o <<TakeSums(who, {0}, tag)>>)
      PROVE  p.threads = Ts /\ \A i \in 1 .. Len(p.rounds) : Apart(p.rounds[i], Ts)
  <2> DEFINE put == PutPartial({0}, tag)
             take == TakeSums(who, {0}, tag)
             Others == {put, take}
  <2>1. \A r \in Others : Apart(r, Ts)
    BY PartialsApart, TakesApart DEF TakeSums
  <2> HIDE DEF put, take
  <2>2. <<put>> \in Seq(Others \cup TreeRounds) /\ <<take>> \in Seq(Others \cup TreeRounds)
    OBVIOUS
  <2>3. tree \in Seq(Others \cup TreeRounds)
    BY <1>2
  <2> HIDE DEF Others
  <2>4. <<put>> \o tree \o <<take>> \in Seq(Others \cup TreeRounds)
    BY <2>2, <2>3, ConcatProperties
  <2>5. p.threads = Ts /\ p.rounds = <<put>> \o tree \o <<take>>
    BY <1>1, <1>3, KernelsOf DEF put, take
  <2> QED
    BY <2>1, <2>4, <2>5, TreesApart
<1>4. ASSUME NEW first, NEW second, p = ReduceTwiceToThread0(first, second)
      PROVE  p.threads = Ts /\ \A i \in 1 .. Len(p.rounds) : Apart(p.rounds[i], Ts)
  <2> DEFINE put == PutPartial({0}, first)
             fused == Fused(TakeSums({0}, {0}, first), PutPartial({0}, second))
             take == TakeSums({0}, {0}, second)
             Others == {put, fused, take}
  <2>1. \A r \in Others : Apart(r, Ts)
    BY PartialsApart, FirstTakesApart, TakesApart DEF TakeSums
  <2> HIDE DEF put, fused, take
  <2>2. /\ <<put>> \in Seq(Others \cup TreeRounds)
        /\ <<fused>> \in Seq(Others \cup TreeRounds)
        /\ <<take>> \in Seq(Others \cup TreeRounds)
    OBVIOUS
  <2>3. tree \in Seq(Others \cup TreeRounds)
    BY <1>2
  <2> HIDE DEF Others
  <2>4. <<put>> \o tree \o <<fused>> \in Seq(Others \cup TreeRounds)
    BY <2>2, <2>3, ConcatProperties
  <2>5. <<put>> \o tree \o <<fused>> \o tree \o <<take>> \in Seq(Others \cup TreeRounds)
    BY <2>2, <2>3, <2>4, ConcatProperties
  <2>6. p.threads = Ts /\ p.rounds = <<put>> \o tree \o <<fused>> \o tree \o <<take>>
    BY <1>1, <1>4, KernelsOf DEF ReduceTwiceToThread0, put, fused, take
  <2> QED
    BY <2>1, <2>5, <2>6, TreesApart
<1>5. ASSUME NEW tag, p = StagedTree(tag)
      PROVE  p.threads = Ts /\ \A i \in 1 .. Len(p.rounds) : Apart(p.rounds[i], Ts)
  <2> DEFINE put == PutPartial({0}, tag)
             stub == [i \in 1 .. Levels - 1 |-> TreeRound({0}, Stride(i))]
             take == Wanting(RoundOf(Ts, [t \in Ts |-> IF t < Narrow THEN {t} ELSE {}],
                                     Nothing, Nothing, Nothing), WarpSums(tag))
             Others == {put, take}
  <2>1. Apart(take, Ts)
    BY DEF Apart, Wanting, RoundOf, Nothing
  <2>2. \A r \in Others : Apart(r, Ts)
    BY <2>1, PartialsApart
  <2>3. stub \in Seq(Others \cup TreeRounds)
    BY TreesAreSequences, ShapeAssumption
  <2>4. p.threads = Ts /\ p.rounds = <<put>> \o stub \o <<take>>
    BY <1>5, KernelsOf DEF StagedTree
  <2> HIDE DEF put, take, stub
  <2>5. <<put>> \in Seq(Others \cup TreeRounds) /\ <<take>> \in Seq(Others \cup TreeRounds)
    OBVIOUS
  <2> HIDE DEF Others
  <2>6. <<put>> \o stub \o <<take>> \in Seq(Others \cup TreeRounds)
    BY <2>3, <2>5, ConcatProperties
  <2> QED
    BY <2>2, <2>4, <2>6, TreesApart
<1> QED
  BY <1>3, <1>4, <1>5 DEF TreeReduction, ReduceToThread0, ReduceToAll

LEMMA WarpReductionsApart ==
    ASSUME NEW p, WarpReduction(p)
    PROVE  p.threads = Ws /\ \A i \in 1 .. Len(p.rounds) : Apart(p.rounds[i], Ws)
<1>1. PICK who, result, tag : p = WarpReduce(who, result, tag)
  BY DEF WarpReduction
<1> DEFINE put == PutWarps(result, tag)
           gather == GatherWarps(result)
           take == TakeWarps(who, result, tag)
<1>2. Apart(put, Ws) /\ Apart(gather, Ws) /\ Apart(take, Ws)
  BY PutsApart, GathersApart, TakesApart DEF PutWarps, TakeWarps
<1>3. p.threads = Ws /\ p.rounds = <<put, gather, take>>
  BY <1>1, KernelsOf DEF WarpReduce
<1> HIDE DEF put, gather, take
<1> QED
  BY <1>2, <1>3

(* The kernels that stage tiles, each warp its piece, and read them whole.   *)
LEMMA StageCells ==
    ASSUME NEW regions, NEW step, NEW t \in Ws
    PROVE  /\ Stage(Ws, regions, step).load[t] = {}
           /\ Stage(Ws, regions, step).store[t] = {<<g, t>> : g \in regions}
<1>1. Stage(Ws, regions, step).load[t] = {}
  BY DEF Stage, Act, Wanting, RoundOf, Nothing, Each
<1>2. \A c \in {<<g, i>> : g \in regions, i \in Ws} : Each(Ws)[c[2]] = c[2]
  BY DEF Each
<1>3. Stage(Ws, regions, step).store[t] = {c \in {<<g, i>> : g \in regions, i \in Ws} : Each(Ws)[c[2]] = t}
  BY DEF Stage, Act, Wanting, RoundOf, Nothing
<1> QED
  BY <1>1, <1>2, <1>3

LEMMA UseCells ==
    ASSUME NEW regions, NEW step, NEW t \in Ws
    PROVE  /\ Use(Ws, regions, step).load[t] \subseteq {<<g, i>> : g \in regions, i \in Ws}
           /\ Use(Ws, regions, step).store[t] = {}
BY DEF Use, Act, Wanting, RoundOf, Nothing, Each, All

LEMMA StagesApart == ASSUME NEW regions, NEW step PROVE Apart(Stage(Ws, regions, step), Ws)
BY StageCells DEF Apart

LEMMA UsesApart == ASSUME NEW regions, NEW step PROVE Apart(Use(Ws, regions, step), Ws)
BY UseCells DEF Apart

\* One tile may be staged while another is read, if they are in different buffers.
LEMMA OverlapsApart ==
    ASSUME NEW mine, NEW yours, NEW i, NEW j, mine \cap yours = {}
    PROVE  Apart(Fused(Use(Ws, mine, i), Stage(Ws, yours, j)), Ws)
<1> DEFINE use == Use(Ws, mine, i)
           stage == Stage(Ws, yours, j)
<1>1. DOMAIN use.load = Ws /\ DOMAIN use.store = Ws
  BY DEF Use, Act, Wanting, RoundOf
<1>2. \A t \in Ws : use.load[t] \subseteq {<<g, c>> : g \in mine, c \in Ws} /\ use.store[t] = {}
  BY UseCells
<1>3. \A t \in Ws : stage.load[t] = {} /\ stage.store[t] = {<<g, t>> : g \in yours}
  BY StageCells
<1> HIDE DEF use, stage
<1>4. \A t \in Ws : /\ Fused(use, stage).load[t] \subseteq {<<g, c>> : g \in mine, c \in Ws}
                    /\ Fused(use, stage).store[t] = {<<g, t>> : g \in yours}
  BY <1>1, <1>2, <1>3 DEF Fused
<1>5. Apart(Fused(use, stage), Ws)
  BY <1>4 DEF Apart
<1> QED
  BY <1>5 DEF use, stage

LEMMA BuffersAlternate == \A n \in Nat \ {0} : Buffers(n - 1) \cap Buffers(n) = {}
<1>1. \A n \in Nat \ {0} : (n % 2 = 0 /\ (n - 1) % 2 # 0) \/ (n % 2 # 0 /\ (n - 1) % 2 = 0)
  OBVIOUS
<1> QED
  BY <1>1 DEF Buffers

\* A kernel whose rounds are all of a set of rounds without races.
LEMMA RoundsApart ==
    ASSUME NEW S, NEW R, \A r \in R : Apart(r, S), NEW rounds \in Seq(R)
    PROVE  \A i \in 1 .. Len(rounds) : Apart(rounds[i], S)
BY ElementOfSeq

LEMMA StagedTilesApart ==
    ASSUME NEW regions
    PROVE  \E R : (\A r \in R : Apart(r, Ws)) /\ StagedTiles(regions) \in Seq(R)
<1> DEFINE R == {Stage(Ws, regions, 1), Use(Ws, regions, 1), Stage(Ws, regions, 2), Use(Ws, regions, 2)}
<1>1. \A r \in R : Apart(r, Ws)
  BY StagesApart, UsesApart
<1>2. StagedTiles(regions) = StagedTile(regions, 1) \o StagedTile(regions, 2)
  BY DEF StagedTiles, Loop
<1>3. StagedTile(regions, 1) \in Seq(R) /\ StagedTile(regions, 2) \in Seq(R)
  BY DEF StagedTile
<1> HIDE DEF R
<1>4. StagedTiles(regions) \in Seq(R)
  BY <1>2, <1>3, ConcatProperties
<1> QED
  BY <1>1, <1>4

\* A product or an attention that stages its tiles in one buffer, or in two that alternate.
StagedKernel(p) == \/ \E regions : p = KernelOf(Ws, StagedTiles(regions))
                   \/ p = matmul_mma_tf32_v2

LEMMA StagedKernelsApart ==
    ASSUME NEW p, StagedKernel(p)
    PROVE  p.threads = Ws /\ \A i \in 1 .. Len(p.rounds) : Apart(p.rounds[i], Ws)
<1>1. CASE \E regions : p = KernelOf(Ws, StagedTiles(regions))
  <2>1. PICK regions : p = KernelOf(Ws, StagedTiles(regions))
    BY <1>1
  <2>2. PICK R : (\A r \in R : Apart(r, Ws)) /\ StagedTiles(regions) \in Seq(R)
    BY StagedTilesApart
  <2>3. p.threads = Ws /\ p.rounds = StagedTiles(regions)
    BY <2>1, KernelsOf
  <2> QED
    BY <2>2, <2>3, RoundsApart
<1>2. CASE p = matmul_mma_tf32_v2
  <2> DEFINE first == Stage(Ws, Buffers(0), 0)
             Tile(n) == IF n = TileCount THEN Use(Ws, Buffers(n - 1), n - 1)
                        ELSE Fused(Use(Ws, Buffers(n - 1), n - 1), Stage(Ws, Buffers(n), n))
             R == {first} \cup {Tile(n) : n \in 1 .. TileCount}
             tiles == [n \in 1 .. TileCount |-> Tile(n)]
  <2>1. \A r \in R : Apart(r, Ws)
    <3>1. Apart(first, Ws)
      BY StagesApart
    <3>2. ASSUME NEW n \in 1 .. TileCount PROVE Apart(Tile(n), Ws)
      <4>1. Buffers(n - 1) \cap Buffers(n) = {}
        BY BuffersAlternate DEF TileCount
      <4> QED
        BY <4>1, UsesApart, OverlapsApart
    <3> HIDE DEF first, Tile
    <3> QED
      BY <3>1, <3>2
  <2>2. p.threads = Ws /\ p.rounds = <<first>> \o tiles
    BY <1>2, KernelsOf DEF matmul_mma_tf32_v2
  <2> HIDE DEF first, Tile
  <2>3. tiles \in [1 .. TileCount -> R]
    OBVIOUS
  <2> HIDE DEF tiles
  <2>4. tiles \in Seq(R)
    <3>1. TileCount \in Nat
      BY DEF TileCount
    <3> QED
      BY <2>3, <3>1, SeqDef, Zenon
  <2>5. <<first>> \in Seq(R)
    OBVIOUS
  <2> HIDE DEF R
  <2>6. <<first>> \o tiles \in Seq(R)
    BY <2>4, <2>5, ConcatProperties
  <2> QED
    BY <2>1, <2>2, <2>6, RoundsApart
<1> QED
  BY <1>1, <1>2 DEF StagedKernel

(***************************************************************************)
(* Which of the emitted kernels meet the condition on races.  The            *)
(* reductions in a tree over one field (row sums and maxima, norms, losses)  *)
(* do, two of which one thread takes the results included, for a block of    *)
(* any width and a row of any length; those by warp shuffles, of any fields, *)
(* for any number of warps; and, for any number of warps, the kernels that   *)
(* stage their tiles in one buffer or in two that alternate.                *)
(***************************************************************************)
THEOREM KernelsRaceFree ==
    ASSUME \A k \in Kernels :
               TreeReduction(Program[k]) \/ WarpReduction(Program[k]) \/ StagedKernel(Program[k])
    PROVE  RaceFree
<1>1. ASSUME NEW k \in Kernels, NEW i \in 1 .. Final(k)
      PROVE  Apart(RoundAt(k, i), Block(k))
  <2>1. CASE TreeReduction(Program[k])
    BY <2>1, TreeReductionsApart DEF Block, Final, RoundAt
  <2>2. CASE WarpReduction(Program[k])
    BY <2>2, WarpReductionsApart DEF Block, Final, RoundAt
  <2>3. CASE StagedKernel(Program[k])
    BY <2>3, StagedKernelsApart DEF Block, Final, RoundAt
  <2> QED
    BY <2>1, <2>2, <2>3
<1> QED
  BY <1>1, ProgramsApart

\* So for these kernels no schedule of the threads makes a difference, whatever the size of a block.
THEOREM KernelsAgree ==
    ASSUME \A k \in Kernels :
               TreeReduction(Program[k]) \/ WarpReduction(Program[k]) \/ StagedKernel(Program[k])
    PROVE  Spec => [](NoDataRace /\ ReadsAgree)
<1>1. RaceFree
  BY KernelsRaceFree
<1>2. Spec => []NoDataRace
  BY <1>1, RaceFreedom
<1>3. Spec => []ReadsAgree
  BY <1>1, InterleavingsAgree
<1> QED
  BY <1>2, <1>3, PTL

LEMMA ReusedWarpCells ==
    ASSUME NEW k \in Kernels, NEW first, NEW second,
           Program[k] = WarpReduceTwice(first, second)
    PROVE  ~RaceFree
<1> DEFINE fused == Fused(TakeWarps(Ws, One, first), PutWarps(One, second))
<1>1. 0 \in Ws /\ 1 \in Ws
  BY ShapeAssumption DEF Ws
<1>2. DOMAIN One = {0} /\ One[0] = 0
  BY DEF One
<1>3. WarpCells(One) = Ws /\ ResultCells(One) = {0}
  BY <1>2, ShapeAssumption DEF WarpCells, ResultCells, Ws
<1>4. FieldOf(One, 0) = 0
  BY <1>1, <1>2, ShapeAssumption DEF FieldOf
<1>5. 0 \in fused.load[1]
  BY <1>1, <1>3 DEF Fused, TakeWarps, TakeBy, Wanting, RoundOf, OnlyBy, PutWarps, Put, NoReads, All
<1>6. 0 \in fused.store[0]
  BY <1>1, <1>3, <1>4 DEF Fused, TakeWarps, TakeBy, Wanting, RoundOf, OnlyBy, PutWarps, Put, NoReads, All
<1>7. /\ Block(k) = Ws /\ Program[k].idle = {}
      /\ Program[k].rounds = <<PutWarps(One, first), GatherWarps(One)>>
                             \o <<fused, GatherWarps(One)>> \o <<TakeWarps(Ws, One, second)>>
  BY DEF Block, WarpReduceTwice, ThenReduce, KernelOf, Leaving
<1> HIDE DEF fused
<1>8. Final(k) = 5 /\ RoundAt(k, 3) = fused
  BY <1>7 DEF Final, RoundAt
<1>9. Runners(k) = Ws
  BY <1>7 DEF Runners
<1> QED
  BY <1>1, <1>5, <1>6, <1>8, <1>9 DEF RaceFree, Loads, Stores

LEMMA ReusedTreeCells ==
    ASSUME NEW k \in Kernels, NEW first, NEW second,
           Program[k] = ReduceTwiceToAll(first, second)
    PROVE  ~RaceFree
<1> DEFINE put == PutPartial({0}, first)
           tree == [i \in 1 .. Levels |-> TreeRound({0}, Stride(i))]
           fused == Fused(TakeSums(Ts, {0}, first), PutPartial({0}, second))
           take == TakeSums(Ts, {0}, second)
           R == {put, fused, take} \cup TreeRounds
           before == <<put>> \o tree
           front == before \o <<fused>> \o tree
           rounds == front \o <<take>>
<1>1. 0 \in Ts /\ 1 \in Ts
  BY StrideAssumption DEF Ts
<1>2. 0 \in fused.load[1]
  BY <1>1 DEF Fused, TakeSums, TakeBy, Wanting, RoundOf, OnlyBy, PutPartial, Put, NoReads, All
<1>3. 0 \in fused.store[0]
  BY <1>1, OneField DEF Fused, TakeSums, TakeBy, Wanting, RoundOf, OnlyBy, PutPartial, Put, NoReads, All
<1>4. Block(k) = Ts /\ Program[k].idle = {} /\ Program[k].rounds = rounds
  <2>1. Tree({0}) = tree
    BY DEF Tree
  <2>2. Program[k] = KernelOf(Ts, rounds)
    BY <2>1 DEF ReduceTwiceToAll
  <2> HIDE DEF rounds
  <2> QED
    BY <2>2 DEF Block, KernelOf, Leaving
<1>5. tree \in Seq(R) /\ Len(tree) = Levels /\ Levels \in Nat
  BY TreesAreSequences, ShapeAssumption
<1> HIDE DEF put, fused, take, tree
<1>6. <<put>> \in Seq(R) /\ <<fused>> \in Seq(R) /\ <<take>> \in Seq(R)
  OBVIOUS
<1> HIDE DEF R
<1>7. before \in Seq(R) /\ Len(before) = Levels + 1
  BY <1>5, <1>6, ConcatProperties
<1> HIDE DEF before
<1>8. /\ before \o <<fused>> \in Seq(R)
      /\ Len(before \o <<fused>>) = Levels + 2
      /\ (before \o <<fused>>)[Levels + 2] = fused
  BY <1>5, <1>6, <1>7, ConcatProperties
<1>9. front \in Seq(R) /\ Len(front) = 2 * Levels + 2 /\ front[Levels + 2] = fused
  BY <1>5, <1>8, ConcatProperties
<1> HIDE DEF front
<1>10. Len(rounds) = 2 * Levels + 3 /\ rounds[Levels + 2] = fused
  <2> DEFINE last == <<take>>
  <2>1. last \in Seq(R) /\ Len(last) = 1
    BY <1>6
  <2> HIDE DEF last
  <2>2. Len(front \o last) = 2 * Levels + 3
    <3>1. Len(front \o last) = Len(front) + Len(last)
      BY <1>9, <2>1, ConcatProperties
    <3> QED
      BY <1>5, <1>9, <2>1, <3>1
  <2>3. Levels + 2 <= Len(front) /\ Levels + 2 \in 1 .. Len(front) + Len(last)
    BY <1>5, <1>9, <2>1
  <2>4. (front \o last)[Levels + 2] = front[Levels + 2]
    BY <1>9, <2>1, <2>3, ConcatProperties
  <2> QED
    BY <1>9, <2>2, <2>4 DEF last
<1> HIDE DEF rounds
<1>11. Levels + 2 \in 1 .. Final(k) /\ RoundAt(k, Levels + 2) = fused
  BY <1>4, <1>5, <1>10 DEF Final, RoundAt
<1>12. Runners(k) = Ts
  BY <1>4 DEF Runners
<1> QED
  BY <1>1, <1>2, <1>3, <1>11, <1>12 DEF RaceFree, Loads, Stores

(***************************************************************************)
(* The kernels that reduce a second time in the cells from which every       *)
(* thread takes the first result do not meet it, at any size: thread 0       *)
(* stores into cell 0 in the round in which the others read it.             *)
(***************************************************************************)
THEOREM ReusedCellsRace ==
    ASSUME NEW k \in Kernels, NEW first, NEW second,
           Program[k] = WarpReduceTwice(first, second) \/ Program[k] = ReduceTwiceToAll(first, second)
    PROVE  ~RaceFree
BY ReusedWarpCells, ReusedTreeCells
================================================================================
