------------------------------ MODULE TileKernels ------------------------------
(***************************************************************************)
(* The emitted matrix and MLP kernels, which stage tiles of their operands  *)
(* in shared memory.  A region is a named part of shared memory, cut into   *)
(* one piece per thread or warp; a piece holds the step of the kernel that  *)
(* wrote it, so that a reader of a stale or of a later tile shows.          *)
(***************************************************************************)
EXTENDS BlockShape

Each(Us) == [i \in Us |-> i]
Sole(Us, t) == [i \in Us |-> t]
Piece(r, step, i) == SetToBag({<<r, step, i>>})

(***************************************************************************)
(* One step of a kernel run by Us.  by[i] is the thread in charge of piece  *)
(* i: it reads all pieces of the regions of whole and its own piece of the   *)
(* regions of own, each as the named step left them, and writes its own      *)
(* piece of the regions of writes.                                         *)
(***************************************************************************)
Act(Us, by, whole, own, writes, step) ==
    LET acting == {by[i] : i \in Us}
        wholeCells == {<<r, i>> : r \in DOMAIN whole, i \in Us}
        ownCells(t) == {<<r, i>> : r \in DOMAIN own, i \in {j \in Us : by[j] = t}}
        written == {<<r, i>> : r \in writes, i \in Us} IN
    Wanting(RoundOf(Us, [t \in Us |-> IF t \in acting THEN wholeCells \cup ownCells(t) ELSE {}],
                    [c \in written |-> by[c[2]]], [c \in written |-> {<<c[1], step, c[2]>>}], Nothing),
            [c \in {<<r, i>> : r \in DOMAIN whole \cup DOMAIN own, i \in Us} |->
                Piece(c[1], IF c[1] \in DOMAIN whole THEN whole[c[1]] ELSE own[c[1]], c[2])])

Stage(Us, regions, step) == Act(Us, Each(Us), Nothing, Nothing, regions, step)
Use(Us, regions, step) == Act(Us, Each(Us), All(regions, step), Nothing, {}, step)

\* The tiles of the loop over the operands' common dimension.
Loop(body(_)) == body(1) \o body(2)

StagedTile(regions, i) == <<Stage(Ws, regions, i), Use(Ws, regions, i)>>
StagedTiles(regions) == LET body(i) == StagedTile(regions, i) IN Loop(body)

\* The product goes to memory through a shared tile.
StoredTile == StagedTile({"Cs"}, 1)

matmul_mma_tf32_v1 == KernelOf(Ws, StagedTiles({"As", "Bs"}) \o StoredTile)
matmul_tile_v2 == KernelOf(Ws, StagedTiles({"As", "Bs"}))
matmul_tile_v1 == KernelOf(Ws, StagedTiles({"As", "Bs"}))

(***************************************************************************)
(* Two buffers: while a tile is multiplied, the next one is copied          *)
(* asynchronously into the other buffer; one wait and barrier per tile.     *)
(***************************************************************************)
Buffers_fault(i) == {"As0", "Bs0"}      \* the parity of the tile forgotten
Buffers(i) == IF i % 2 = 0 THEN {"As0", "Bs0"} ELSE {"As1", "Bs1"}
TileCount == 4
matmul_mma_tf32_v2 ==
    KernelOf(Ws, <<Stage(Ws, Buffers(0), 0)>>
                 \o [n \in 1 .. TileCount |->
                        IF n = TileCount THEN Use(Ws, Buffers(n - 1), n - 1)
                        ELSE Fused(Use(Ws, Buffers(n - 1), n - 1), Stage(Ws, Buffers(n), n))])

\* Each thread's output columns are accumulated in shared memory, chunk by chunk.
tiled_mlp_row_fused_v1 ==
    LET body(i) == <<Act(Ws, Each(Ws), All({"x"}, 0), Nothing, {"gated"}, i),
                     Act(Ws, Each(Ws), All({"gated"}, i), All({"out"}, i - 1), {"out"}, i)>> IN
    KernelOf(Ws, <<Stage(Ws, {"x", "out"}, 0)>> \o Loop(body)
                 \o <<Act(Ws, Each(Ws), Nothing, All({"out"}, 2), {}, 2)>>)

mlp2d_row_fused_v2 ==
    KernelOf(Ws, <<Stage(Ws, {"a"}, 0),
                   Act(Ws, Each(Ws), All({"a"}, 0), Nothing, {"h"}, 1),
                   Act(Ws, Each(Ws), All({"h"}, 1), Nothing, {"partial"}, 2),
                   Use(Ws, {"partial"}, 2)>>)

HiddenUnits(h) ==
    LET body(k) == StagedTile({"A", "W1"}, 2 * h + k) IN Loop(body)
mlp2d_fused_v1 ==
    LET block(h) == HiddenUnits(h) \o <<Stage(Ws, {"acc1"}, h), Stage(Ws, {"W2"}, h), Use(Ws, {"acc1", "W2"}, h)>> IN
    KernelOf(Ws, Loop(block))

(***************************************************************************)
(* The attention kernels: tiles of keys and values staged in shared memory, *)
(* scores, a running maximum and sum (m, l, alpha), and the accumulated      *)
(* output, exchanged between the warps of a block.                         *)
(***************************************************************************)
Warp0 == Sole(Ws, 0)

\* A scalar that warp 0 keeps in the first piece of a region of partial values.
PutFirst(r, step) == Put(Ws, [c \in {<<r, 0>>} |-> 0], [c \in {<<r, 0>>} |-> {<<r, step, 0>>}])
TakeFirst(r, step) == TakeBy(Ws, Ws, [c \in {<<r, 0>>} |-> Piece(r, step, 0)])

\* Keys and values in shared memory, all else in registers.
StagedKeysAndValues == KernelOf(Ws, StagedTiles({"K", "V"}))
attn2d_causal_softmax_v5 == StagedKeysAndValues
attn2d_causal_softmax_v4 == StagedKeysAndValues
attn_fwd_tiled_v3 == StagedKeysAndValues
attn2d_causal_softmax_v16 == KernelOf(Ws, <<Stage(Ws, {"K", "V"}, 1), Use(Ws, {"K", "V"}, 1)>>)

(***************************************************************************)
(* m, l and the accumulator live in shared memory as well.  The threads of  *)
(* the first warp own the rows of the softmax; the pieces of Acc belong to   *)
(* one warp when they are scaled and to another when the tile is added.     *)
(***************************************************************************)
NextWarp == [i \in Ws |-> (i + 1) % Warps]
RescaledTile(i) ==
    <<Stage(Ws, {"K", "V"}, i),
      Act(Ws, Each(Ws), All({"Q"}, 0) @@ All({"K"}, i), Nothing, {"Score"}, 2 * i - 1),
      Act(Ws, Warp0, All({"m", "l"}, 2 * i - 2) @@ All({"Score"}, 2 * i - 1), Nothing,
          {"m", "l", "alpha", "Score"}, 2 * i),
      Act(Ws, Each(Ws), All({"alpha"}, 2 * i), All({"Acc"}, 2 * i - 2), {"Acc"}, 2 * i - 1),
      Act(Ws, NextWarp, All({"Score"}, 2 * i) @@ All({"V"}, i), All({"Acc"}, 2 * i - 1), {"Acc"}, 2 * i)>>
attn2d_causal_softmax_mma_tf32_v1 ==
    KernelOf(Ws, <<Stage(Ws, {"m", "l", "alpha", "Q", "Acc"}, 0)>> \o Loop(RescaledTile)
                 \o <<Act(Ws, Each(Ws), All({"l"}, 4), All({"Acc"}, 4), {}, 4)>>)

\* Every warp takes a segment of the tile; warp 0 merges the segments.
SegmentedTile(i) ==
    <<Stage(Ws, {"K", "V"}, i),
      Act(Ws, Each(Ws), All({"K", "V"}, i), Nothing, {"m", "l", "acc"}, i),
      Act(Ws, Warp0, All({"m", "l", "acc"}, i), Nothing, {}, i)>>
attn2d_causal_softmax_v8 == KernelOf(Ws, Loop(SegmentedTile))

attn2d_causal_softmax_v15 ==
    KernelOf(Ws, <<Stage(Ws, {"m", "l", "acc"}, 1),
                   Act(Ws, Warp0, All({"m", "l", "acc"}, 1), Nothing, {}, 1)>>)

(***************************************************************************)
(* m, l and alpha are scalars of the block, updated by thread 0 between      *)
(* barriers; the second group of warps hands its part of the output to the  *)
(* first.  m and l are read again at the end of a tile, with no barrier     *)
(* before the next tile is loaded.                                         *)
(***************************************************************************)
ReadsMAndL(i) == Act(Ws, Each(Ws), All({"M"}, 2 * i) @@ All({"L"}, 2 * i + 1), Nothing, {}, i)
ScalarStateTile(i) ==
    <<Act(Ws, Each(Ws), All({"K"}, i), Nothing, {"Score"}, i),
      Act(Ws, Warp0, All({"Score"}, i), Nothing, {"M"}, 2 * i - 1),
      Act(Ws, Warp0, All({"M"}, 2 * i - 1), Nothing, {"M", "Alpha", "L"}, 2 * i),
      Act(Ws, Warp0, All({"M"}, 2 * i) @@ All({"Score"}, i), Nothing, {"W", "Sum"}, i),
      Act(Ws, Warp0, All({"L"}, 2 * i) @@ All({"Sum"}, i), Nothing, {"L"}, 2 * i + 1),
      Fused(Use(Ws, {"W", "V"}, i), Act(Ws, Sole(Ws, Warps - 1), Nothing, Nothing, {"Part"}, i)),
      Act(Ws, Warp0, All({"Part"}, i) @@ All({"Alpha"}, 2 * i), Nothing, {}, i)>>
attn2d_causal_softmax_v9 ==
    KernelOf(Ws, <<Stage(Ws, {"K", "V"}, 1)>> \o ScalarStateTile(1)
                 \o <<Fused(ReadsMAndL(1), Stage(Ws, {"K", "V"}, 2))>> \o ScalarStateTile(2)
                 \o <<ReadsMAndL(2)>>)

KeptL(i) == IF i = 0 THEN 0 ELSE 2 * i + 1
SharedStateTile(i) ==
    <<Stage(Ws, {"K", "V"}, i),
      Act(Ws, Each(Ws), All({"K"}, i) @@ All({"Q"}, 0), Nothing, {"Score"}, i),
      Act(Ws, Warp0, All({"M"}, 2 * i - 2) @@ All({"L"}, KeptL(i - 1)) @@ All({"Score"}, i), Nothing,
          {"M", "L", "Alpha"}, 2 * i),
      Fused(Use(Ws, {"Alpha"}, 2 * i),
            Act(Ws, Each(Ws), All({"M"}, 2 * i), All({"Score"}, i), {"W"}, i)),
      Act(Ws, Warp0, All({"L"}, 2 * i) @@ All({"W"}, i), Nothing, {"L"}, 2 * i + 1),
      Use(Ws, {"W", "V"}, i)>>
attn2d_causal_softmax_v6 ==
    KernelOf(Ws, <<Stage(Ws, {"Q"}, 0), Act(Ws, Warp0, Nothing, Nothing, {"M", "L", "Alpha"}, 0)>>
                 \o Loop(SharedStateTile) \o <<Use(Ws, {"L"}, KeptL(2))>>)

\* Two passes over a warp's own scores; warp 0 combines the maxima, the sums and the outputs.
attn2d_causal_softmax_v10 ==
    KernelOf(Ws, <<Stage(Ws, {"Score"}, 1),
                   Act(Ws, Each(Ws), Nothing, All({"Score"}, 1), {"Max"}, 1),
                   Fused(Act(Ws, Warp0, All({"Max"}, 1), Nothing, {}, 1), PutFirst("Max", 2)),
                   Fused(TakeFirst("Max", 2), Act(Ws, Each(Ws), Nothing, All({"Score"}, 1), {"Sum"}, 1)),
                   Fused(Act(Ws, Warp0, All({"Sum"}, 1), Nothing, {}, 1), PutFirst("Sum", 2)),
                   Fused(TakeFirst("Sum", 2), Act(Ws, Each(Ws), Nothing, All({"Score"}, 1), {"Out"}, 1)),
                   Act(Ws, Warp0, All({"Out"}, 1), Nothing, {}, 1)>>)

\* Queries, keys and values staged once; warp 0 takes all scores.
ScoresToWarp0 ==
    <<Act(Ws, Each(Ws), All({"Q", "K"}, 0), Nothing, {"Score"}, 1),
      Act(Ws, Warp0, All({"Score"}, 1) @@ All({"V"}, 0), Nothing, {}, 1)>>
attn2d_causal_softmax_v18 == KernelOf(Ws, <<Stage(Ws, {"Q", "K", "V"}, 0)>> \o ScoresToWarp0)

(***************************************************************************)
(* One dot product at a time: every thread writes a product to the scratch  *)
(* area, a tree adds them, thread 0 keeps the score.  After the last key     *)
(* thread 0 turns the scores into weights, which all threads read.          *)
(***************************************************************************)
Scratch(j) == {<<"product", j, t>> : t \in Ts}
DotTree(j, s) ==
    RoundOf(Ts, [t \in Ts |-> IF t < s THEN {<<"Scratch", t>>, <<"Scratch", t + s>>} ELSE {}],
            [c \in {<<"Scratch", t>> : t \in 0 .. s - 1} |-> c[2]], Nothing,
            [c \in {<<"Scratch", t>> : t \in 0 .. s - 1} |-> {c, <<"Scratch", c[2] + s>>}])
DotProduct(j) ==
    LET products == [c \in {<<"Scratch", t>> : t \in Ts} |-> c[2]]
        score == [c \in {<<"Score", j>>} |-> 0] IN
    <<Fused(Act(Ts, Each(Ts), Nothing, All({"Q"}, 0), {}, 0),
            Put(Ts, products, [c \in DOMAIN products |-> {<<"product", j, c[2]>>}]))>>
    \o [i \in 1 .. Levels |-> DotTree(j, 2 ^ (Levels - i))]
    \o <<Fused(TakeBy(Ts, {0}, [c \in {<<"Scratch", 0>>} |-> SetToBag(Scratch(j))]),
               Put(Ts, score, [c \in DOMAIN score |-> {<<"Score", j, 0>>}]))>>

DotAttention ==
    LET scores == {<<"Score", j>> : j \in 1 .. 2} IN
    KernelOf(Ts, <<Stage(Ts, {"Q"}, 0)>> \o Loop(DotProduct)
                 \o <<Fused(TakeBy(Ts, {0}, [c \in scores |-> SetToBag({<<"Score", c[2], 0>>})]),
                            Act(Ts, Sole(Ts, 0), Nothing, Nothing, {"W"}, 1)),
                      Use(Ts, {"W"}, 1)>>)

attn2d_causal_softmax_v1 == DotAttention
attn_fwd_softmax_v1 == DotAttention
===============================================================================
