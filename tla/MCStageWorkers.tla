----------------------------- MODULE MCStageWorkers -----------------------------
(* The smoke driver over two kernels that may do anything in either stage. *)
EXTENDS StageWorkers

CONSTANTS k1, k2

MCOrder == <<k1, k2>>
================================================================================
