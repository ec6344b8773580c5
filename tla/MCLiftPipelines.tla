--------------------------- MODULE MCLiftPipelines ---------------------------
(* LiftPipelines under every configuration between which either pipeline   *)
(* tells a difference.                                                     *)
EXTENDS LiftPipelines

TileLang(llm, strict, runtime) ==
    [frontend |-> "tilelang", llm |-> llm, strict |-> strict, runtime |-> runtime,
     reuse |-> FALSE, net |-> FALSE]
Cuda(llm, reuse, net) ==
    [frontend |-> "cuda", llm |-> llm, strict |-> FALSE, runtime |-> FALSE,
     reuse |-> reuse, net |-> net]

MCConfigs ==
    {TileLang(a, b, c) : a \in BOOLEAN, b \in BOOLEAN, c \in BOOLEAN}
    \cup {Cuda(a, b, c) : a \in BOOLEAN, b \in BOOLEAN, c \in BOOLEAN}
==============================================================================
