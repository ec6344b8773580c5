----------------------------- MODULE MCBlockKernel -----------------------------
(***************************************************************************)
(* The emitted kernels of MCPrograms on the machine BlockKernel, for TLC.    *)
(***************************************************************************)
EXTENDS MCPrograms, BlockKernel

MCThreads == Ts \cup Ws

\* A LET keeps the programs out of the expressions TLC counts for its coverage.

\* The kernels that put no barrier between taking one reduction's result and starting the next.
MCTwice == LET reducers == DOMAIN Reducers IN reducers
MCOnce == LET all == DOMAIN ProgramTable IN all \ MCTwice

MCProgram == LET programs == ProgramTable IN programs
MCLockStep == LET runs == LockStepTable IN runs
================================================================================
