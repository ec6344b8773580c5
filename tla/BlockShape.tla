------------------------------- MODULE BlockShape -------------------------------
(***************************************************************************)
(* The size of the blocks the kernel programs are instantiated for: Width   *)
(* threads (256 in most of the emitted kernels), or Warps warps where the   *)
(* threads of a warp exchange their values by gpu.shuffle and only warps    *)
(* move on their own.  A row has Elems elements.                           *)
(***************************************************************************)
EXTENDS KernelRounds

CONSTANTS Levels, Elems, Warps

ASSUME ShapeAssumption ==
    /\ Levels \in Nat \ {0}
    /\ Elems \in Nat \ {0}
    /\ Warps \in Nat \ {0, 1}

Width == 2 ^ Levels
Ts == 0 .. Width - 1
Ws == 0 .. Warps - 1
================================================================================
