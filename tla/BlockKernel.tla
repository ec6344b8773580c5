------------------------------ MODULE BlockKernel ------------------------------
(***************************************************************************)
(* One thread block that runs a kernel emitted by                          *)
(* lower_intent_to_cuda_gpu_kernel.py.  Every emitted kernel has the same   *)
(* shape: its threads go through rounds; in a round a thread reads cells of *)
(* the block's shared memory into registers, then writes cells; between two *)
(* rounds stands a gpu.barrier.  What a kernel reads and writes is data, a  *)
(* program (KernelRounds and the modules that extend it); this module is    *)
(* the machine that runs it, the threads interleaved as the hardware may.   *)
(*                                                                         *)
(* A "thread" is the unit that moves on its own: a CUDA thread, or a warp   *)
(* where the kernel exchanges values inside a warp by gpu.shuffle only.     *)
(***************************************************************************)
EXTENDS KernelRounds

CONSTANTS
    Threads,    \* the thread numbers a block may have
    Kernels,    \* the kernels of this instance
    Program,    \* Program[k]: threads, idle threads, rounds and expected output
    LockStep    \* LockStep[k][i]: memory and registers after i rounds, in lock step

Block(k) == Program[k].threads
Final(k) == Len(Program[k].rounds)
RoundAt(k, i) == Program[k].rounds[i]
Mem(k) == Program[k].cells

Loads(k, i, t) == RoundAt(k, i).load[t]
Stores(k, i, t) == RoundAt(k, i).store[t]

Runners(k) == Block(k) \ Program[k].idle

\* The program of a kernel is a non-empty sequence of rounds over its cells.
ASSUME ProgramAssumption ==
    \A k \in Kernels :
        /\ Block(k) \subseteq Threads
        /\ Program[k].idle \subseteq Block(k)
        /\ Final(k) \in Nat \ {0}
        /\ \A i \in 1 .. Final(k), t \in Block(k) :
              /\ Loads(k, i, t) \subseteq Mem(k)
              /\ Stores(k, i, t) \subseteq Mem(k)

(***************************************************************************)
(* LockStep is the run in which all threads of a round read, then all write. *)
(* A cell that nobody writes keeps its value; of several writers it may      *)
(* keep any one's.                                                         *)
(***************************************************************************)
ReadInStep(k, i, t) ==
    LockStep[k][i].reg[t] =
        [c \in Mem(k) |-> IF c \in Loads(k, i, t) THEN LockStep[k][i - 1].mem[c]
                          ELSE LockStep[k][i - 1].reg[t][c]]
WrittenInStep(k, i, c) ==
    \/ \E t \in Runners(k) :
          /\ c \in Stores(k, i, t)
          /\ LockStep[k][i].mem[c] = Value(RoundAt(k, i), LockStep[k][i].reg[t], c)
    \/ /\ \A t \in Runners(k) : c \notin Stores(k, i, t)
       /\ LockStep[k][i].mem[c] = LockStep[k][i - 1].mem[c]

ASSUME LockStepAssumption ==
    \A k \in Kernels :
        /\ LockStep[k][0].mem = [c \in Mem(k) |-> Unwritten(c)]
        /\ \A t \in Block(k) : LockStep[k][0].reg[t] = [c \in Mem(k) |-> Unwritten(c)]
        /\ \A i \in 1 .. Final(k) :
              /\ \A t \in Runners(k) : ReadInStep(k, i, t)
              /\ \A c \in Mem(k) : WrittenInStep(k, i, c)

VARIABLES
    kernel,     \* the kernel of this launch
    round,      \* round[t]: the round thread t is in
    pc,         \* pc[t]: "load", "store", "wait" (at the barrier) or "done"
    mem,        \* the cells the threads share
    reg         \* reg[t]: what thread t last read from each cell

vars == <<kernel, round, pc, mem, reg>>

Running == Runners(kernel)

(***************************************************************************)
(* A launch.  Threads whose row predicate is false skip the body: they are  *)
(* done at once.                                                           *)
(***************************************************************************)
Init ==
    /\ kernel \in Kernels
    /\ round = [t \in Block(kernel) |-> 1]
    /\ pc = [t \in Block(kernel) |-> IF t \in Program[kernel].idle THEN "done" ELSE "load"]
    /\ mem = [c \in Mem(kernel) |-> Unwritten(c)]
    /\ reg = [t \in Block(kernel) |-> [c \in Mem(kernel) |-> Unwritten(c)]]

Load(t) ==
    /\ pc[t] = "load"
    /\ LET read == Loads(kernel, round[t], t) IN
       reg' = [reg EXCEPT ![t] = [c \in DOMAIN mem |-> IF c \in read THEN mem[c] ELSE reg[t][c]]]
    /\ pc' = [pc EXCEPT ![t] = "store"]
    /\ UNCHANGED <<kernel, round, mem>>

\* A thread that waits after the last round as well.
Store_fault(t) ==
    /\ pc[t] = "store"
    /\ mem' = mem
    /\ pc' = [pc EXCEPT ![t] = "wait"]
    /\ UNCHANGED <<kernel, round, reg>>

Store(t) ==
    /\ pc[t] = "store"
    /\ LET r == RoundAt(kernel, round[t]) IN
       mem' = [c \in DOMAIN mem |-> IF c \in r.store[t] THEN Value(r, reg[t], c) ELSE mem[c]]
    /\ pc' = [pc EXCEPT ![t] = IF round[t] = Final(kernel) THEN "done" ELSE "wait"]
    /\ UNCHANGED <<kernel, round, reg>>

\* A barrier that waits for exited threads as well.
Arrived_exited(u, i) == round[u] > i \/ (round[u] = i /\ pc[u] = "wait")

\* gpu.barrier: a thread goes on when every thread that has not exited has arrived.
Arrived(u, i) == pc[u] = "done" \/ round[u] > i \/ (round[u] = i /\ pc[u] = "wait")

Barrier(t) ==
    /\ pc[t] = "wait"
    /\ \A u \in Block(kernel) : Arrived(u, round[t])
    /\ round' = [round EXCEPT ![t] = @ + 1]
    /\ pc' = [pc EXCEPT ![t] = "load"]
    /\ UNCHANGED <<kernel, mem, reg>>

Step(t) == t \in Block(kernel) /\ (Load(t) \/ Store(t) \/ Barrier(t))

Next == \E t \in Threads : Step(t)

Spec == Init /\ [][Next]_vars

\* The scheduler of a multiprocessor lets every resident warp go on.
FairSpec == Spec /\ \A t \in Threads : WF_vars(Step(t))

--------------------------------------------------------------------------------
\* Every variable keeps its shape: threads of the block, their rounds, their cells.
TypeOK ==
    /\ kernel \in Kernels
    /\ round \in [Block(kernel) -> 1 .. Final(kernel)]
    /\ pc \in [Block(kernel) -> {"load", "store", "wait", "done"}]
    /\ DOMAIN mem = Mem(kernel)
    /\ DOMAIN reg = Block(kernel)

\* The cells thread t's next step reads, and those it writes.
NextReads(t) == IF pc[t] = "load" THEN Loads(kernel, round[t], t) ELSE {}
StillWrites(t) == IF pc[t] \in {"load", "store"} THEN Stores(kernel, round[t], t) ELSE {}

(***************************************************************************)
(* No data race on the block's memory: no thread has a write ahead of it    *)
(* before its next barrier to a cell that another thread may read or write  *)
(* at the same time.                                                       *)
(***************************************************************************)
NoDataRace ==
    \A t \in Running :
        LET ahead == StillWrites(t) IN
        ahead # {} => \A u \in Running \ {t} : ahead \cap (NextReads(u) \cup StillWrites(u)) = {}

(***************************************************************************)
(* What a thread has read and what the memory holds are those of the        *)
(* lock-step run, whatever the interleaving: the barriers suffice to make   *)
(* the kernel's result independent of the scheduling of its threads.        *)
(***************************************************************************)
ReadsAgree ==
    \A t \in Running :
        reg[t] = LockStep[kernel][IF pc[t] = "load" THEN round[t] - 1 ELSE round[t]].reg[t]

(***************************************************************************)
(* Where a kernel takes the result of a block-wide step (a sum, a maximum,  *)
(* a prefix, a tile), the thread gets it whole: every contribution of that  *)
(* step, each once, and nothing of another step.                           *)
(***************************************************************************)
TakesWhole ==
    \A t \in Running :
        pc[t] = "store" =>
            LET r == RoundAt(kernel, round[t]) IN
            \A c \in Loads(kernel, round[t], t) \cap DOMAIN r.want : reg[t][c] = r.want[c]

\* When the block is done its output is the one the kernel is meant to leave.
LeavesOutput ==
    (\A t \in Running : pc[t] = "done") =>
        \A c \in DOMAIN Program[kernel].output : mem[c] = Program[kernel].output[c]

\* Every thread of the block leaves every barrier and ends: the block cannot hang.
EveryThreadEnds == <>[](\A t \in Block(kernel) : pc[t] = "done")
================================================================================
