--------------------------- MODULE ReductionKernels ---------------------------
(***************************************************************************)
(* The emitted kernels that reduce a row or a whole tensor inside a block,  *)
(* each named by its kernel kind and built from the two shapes the source   *)
(* writes out again for every kind: the tree over one cell per thread, and  *)
(* the warp shuffle followed by one cell per warp.                         *)
(*                                                                         *)
(* A block has Width threads (256 in the source) and a row Elems elements;  *)
(* thread t contributes the elements t, t + Width, ... below Elems.  In the *)
(* warp shape the Warps warps are the threads that move on their own.       *)
(***************************************************************************)
EXTENDS BlockShape

\* Width / 2, ..., 2, 1
Stride(i) == 2 ^ (Levels - i)

\* What the proofs need of powers of two.
ASSUME StrideAssumption ==
    Width \in Nat \ {0, 1} /\ \A i \in 1 .. Levels : Stride(i) \in Nat /\ 2 * Stride(i) <= Width

(***************************************************************************)
(* The tree.  Field o of the shared buffer is its cells o .. o + Width - 1. *)
(***************************************************************************)
Cells(Os) == {o + t : o \in Os, t \in Ts}
Field(Os, c) == CHOOSE o \in Os : c \in o .. o + Width - 1
Owned(Os) == [c \in Cells(Os) |-> c - Field(Os, c)]
Part(tag, o, t) == {<<tag, o, j>> : j \in {e \in 0 .. Elems - 1 : e % Width = t}}
Whole(tag, o) == SetToBag({<<tag, o, j>> : j \in 0 .. Elems - 1})

PutPartial(Os, tag) ==
    Put(Ts, Owned(Os), [c \in Cells(Os) |-> Part(tag, Field(Os, c), c - Field(Os, c))])

TreeRound(Os, s) ==
    RoundOf(Ts, [t \in Ts |-> IF t < s THEN {o + t : o \in Os} \cup {o + t + s : o \in Os} ELSE {}],
            [c \in {d \in Cells(Os) : d - Field(Os, d) < s} |-> c - Field(Os, c)],
            Nothing, [c \in Cells(Os) |-> {c, c + s}])

Tree(Os) == [i \in 1 .. Levels |-> TreeRound(Os, Stride(i))]
TakeSums(who, Os, tag) == TakeBy(Ts, who, [o \in Os |-> Whole(tag, o)])

ReduceToThread0(tag) ==
    KernelOf(Ts, <<PutPartial({0}, tag)>> \o Tree({0}) \o <<TakeSums({0}, {0}, tag)>>)
ReduceToAll(tag) ==
    KernelOf(Ts, <<PutPartial({0}, tag)>> \o Tree({0}) \o <<TakeSums(Ts, {0}, tag)>>)

\* The second reduction starts in the cells of the first, whose result all have just read.
ReduceTwiceToAll(first, second) ==
    KernelOf(Ts, <<PutPartial({0}, first)>> \o Tree({0})
                 \o <<Fused(TakeSums(Ts, {0}, first), PutPartial({0}, second))>>
                 \o Tree({0}) \o <<TakeSums(Ts, {0}, second)>>)

matvec_v1 == ReduceToThread0("dot")
tvd_loss2d_v1 == ReduceToThread0("sum")
grouped_row_sum2d == ReduceToAll("sum")
rms_norm_residual == ReduceToAll("sumsq")
row_reduce_prod_axis1_v1 == ReduceToThread0("prod")
reduce_min_all_v1 == ReduceToThread0("min")
reduce_prod_all_v1 == ReduceToThread0("prod")
trace2d_v1 == ReduceToThread0("trace")
count_nonzero2d_v1 == ReduceToThread0("count")
allclose2d_v1 == ReduceToThread0("any")
weight_norm2d_v1 == ReduceToAll("sumsq")
mse_loss2d_v1 == ReduceToThread0("sum")
row_reduce_sum_axis1_v1 == ReduceToThread0("sum")
row_reduce_max_axis1_v1 == ReduceToThread0("max")
row_reduce_any_axis1_v1 == ReduceToThread0("any")

\* Two reductions of which thread 0 alone keeps the results.
ReduceTwiceToThread0(first, second) ==
    KernelOf(Ts, <<PutPartial({0}, first)>> \o Tree({0})
                 \o <<Fused(TakeSums({0}, {0}, first), PutPartial({0}, second))>>
                 \o Tree({0}) \o <<TakeSums({0}, {0}, second)>>)

nll_loss_forward_v1 == ReduceTwiceToThread0("loss", "weight")
nll_loss2d_forward_v1 == ReduceTwiceToThread0("loss", "weight")

(***************************************************************************)
(* Three sums side by side; thread 0 turns them into scales and puts these, *)
(* the three weights and the bias where every thread then reads them.       *)
(***************************************************************************)
Pitch == 8      \* 256 in the source; at least Width and at least the 7 cells of PolyScales
PolyFields == {0, Pitch, 2 * Pitch}
PolyScales == 0 .. 6
PolyScale(c) ==
    IF c < 3 THEN Whole("power", c * Pitch) ELSE SetToBag({<<"coefficient", 0, c>>})
PolyScaleRound ==
    Wanting(RoundOf(Ts, OnlyBy(Ts, {0}, PolyFields), [c \in PolyScales |-> 0],
                    [c \in 3 .. 6 |-> {<<"coefficient", 0, c>>}], [c \in 0 .. 2 |-> {c * Pitch}]),
            [o \in PolyFields |-> Whole("power", o)])

poly_norm_axis1_v1 ==
    KernelOf(Ts, <<PutPartial(PolyFields, "power")>> \o Tree(PolyFields)
                 \o <<PolyScaleRound, TakeBy(Ts, Ts, [c \in PolyScales |-> PolyScale(c)])>>)

(***************************************************************************)
(* The tree stops at a warp's width; the first warp (the threads below      *)
(* Narrow, 32 in the source) reads one cell each and shuffles.  Slots that  *)
(* no thread owns are filled with the neutral element first.               *)
(***************************************************************************)
Narrow == 2
WarpSums(tag) ==
    [c \in 0 .. Narrow - 1 |->
        SetToBag({<<tag, 0, j>> : j \in {e \in 0 .. Elems - 1 : e % Narrow = c}})]
StagedTree(tag) ==
    KernelOf(Ts, <<PutPartial({0}, tag)>> \o [i \in 1 .. Levels - 1 |-> TreeRound({0}, Stride(i))]
                 \o <<Wanting(RoundOf(Ts, [t \in Ts |-> IF t < Narrow THEN {t} ELSE {}],
                                      Nothing, Nothing, Nothing), WarpSums(tag))>>)

row_sum_axis1_v2 == StagedTree("sum")
row_max_axis1_v2 == StagedTree("max")

(***************************************************************************)
(* Minimum and maximum with their index: a cell holds the best item so far, *)
(* the smaller index where values are equal.  Every thread starts from the  *)
(* neutral value at index 0.                                               *)
(***************************************************************************)
Neutral == 9
Items(row) == {<<row[j + 1], j>> : j \in 0 .. Elems - 1}
ItemsOf(row, t) == {x \in Items(row) : x[2] % Width = t}

BestOf(row, pick, neutral) ==
    LET best == IF pick = "min" THEN Least(Items(row)) ELSE Top(Items(row))
        put == Put(Ts, Owned({0}), [t \in Ts |-> ItemsOf(row, t) \cup {<<neutral, 0>>}]) IN
    KernelOf(Ts, <<Picking(put, pick)>>
                 \o [i \in 1 .. Levels |-> Picking(TreeRound({0}, Stride(i)), pick)]
                 \o <<TakeBy(Ts, {0}, [c \in {0} |-> best])>>)

row_reduce_min_argmin_axis1_v1(row) == BestOf(row, "min", Neutral)
row_argmin_axis1_v1(row) == BestOf(row, "min", Neutral)
row_argmax_axis1_v1(row) == BestOf(row, "top", -Neutral)

(***************************************************************************)
(* The warp shuffle.  Lane 0 of every warp writes the warp's value to its    *)
(* cell; after a barrier warp 0 reads all of them, shuffles once more and   *)
(* writes the result back; after a second barrier the result is read.       *)
(* Field f keeps its warps' values at f + warp and its result in result[f]. *)
(***************************************************************************)
WarpCells(result) == {f + w : f \in DOMAIN result, w \in Ws}
FieldOf(result, c) == CHOOSE f \in DOMAIN result : c \in f .. f + Warps - 1
WarpWhole(tag, f) == SetToBag({<<tag, f, w>> : w \in Ws})

PutWarps(result, tag) ==
    Put(Ws, [c \in WarpCells(result) |-> c - FieldOf(result, c)],
        [c \in WarpCells(result) |-> {<<tag, FieldOf(result, c), c - FieldOf(result, c)>>}])

ResultCells(result) == {result[f] : f \in DOMAIN result}
FieldInto(result, c) == CHOOSE f \in DOMAIN result : result[f] = c
GatherWarps(result) ==
    RoundOf(Ws, OnlyBy(Ws, {0}, WarpCells(result)), [c \in ResultCells(result) |-> 0], Nothing,
            [c \in ResultCells(result) |-> {FieldInto(result, c) + w : w \in Ws}])

TakeWarps(who, result, tag) ==
    TakeBy(Ws, who, [c \in ResultCells(result) |-> WarpWhole(tag, FieldInto(result, c))])

WarpReduce(who, result, tag) ==
    KernelOf(Ws, <<PutWarps(result, tag), GatherWarps(result), TakeWarps(who, result, tag)>>)

One == [f \in {0} |-> 0]
Moments == [f \in {0, Warps} |-> IF f = 0 THEN 0 ELSE 1]
rms_norm_vector_body == WarpReduce(Ws, One, "sumsq")
rms_norm_cached_body == WarpReduce(Ws, One, "sumsq")
layer_norm_vector_body == WarpReduce(Ws, [f \in {0, 32} |-> f], "moment")
poly_norm_vector_body == WarpReduce(Ws, [f \in {0, 16, 32} |-> f], "power")
tvd_loss2d_v2 == WarpReduce({0}, One, "sum")
group_norm_v1 == WarpReduce(Ws, Moments, "moment")
layer_norm_axis1_v1 == WarpReduce(Ws, Moments, "moment")
rms_norm_axis1_v2 == WarpReduce(Ws, One, "sumsq")
rms_norm_axis1_v4 == WarpReduce(Ws, One, "sumsq")

(***************************************************************************)
(* layer_norm in its persistent mode: one warp to a row, the last rows of   *)
(* the block missing.  In every tile warp 0 caches a group of weights and   *)
(* biases, all rows read them, and a barrier ends the tile.                 *)
(***************************************************************************)
Tiles == 2
Groups == 2
CacheRound(tile, g) ==
    Put(Ws, [c \in {g, 32 + g} |-> 0], [c \in {g, 32 + g} |-> {<<"cached", c, tile>>}])
TakeCache(tile, g) ==
    TakeBy(Ws, Ws, [c \in {g, 32 + g} |-> SetToBag({<<"cached", c, tile>>})])

layer_norm_persistent_row ==
    [KernelOf(Ws, [i \in 1 .. Tiles * (Groups + 1) |->
                    LET tile == (i - 1) \div (Groups + 1)
                        g == (i - 1) % (Groups + 1) IN
                    IF g = 0 THEN CacheRound(tile, 0)
                    ELSE IF g = Groups THEN TakeCache(tile, g - 1)
                    ELSE Fused(TakeCache(tile, g - 1), CacheRound(tile, g))])
        EXCEPT !.idle = {Warps - 1}]

(***************************************************************************)
(* The kernels that reduce twice in the same cells: after the last barrier  *)
(* of the first reduction every thread reads its result from cell 0, and    *)
(* goes on, with no barrier in between, to the second reduction, which      *)
(* starts by writing the cells, cell 0 among them.                         *)
(***************************************************************************)
ThenReduce(first, second) ==
    <<Fused(TakeWarps(Ws, One, first), PutWarps(One, second)), GatherWarps(One)>>
WarpReduceTwice(first, second) ==
    KernelOf(Ws, <<PutWarps(One, first), GatherWarps(One)>> \o ThenReduce(first, second)
                 \o <<TakeWarps(Ws, One, second)>>)

row_log_softmax_axis1_v1 == ReduceTwiceToAll("max", "sum")
batch_norm2d_v1 == ReduceTwiceToAll("sum", "var")
layer_norm_residual_axis1_v1 == ReduceTwiceToAll("sum", "var")
row_std_axis1_v1 == ReduceTwiceToAll("sum", "squares")
online_softmax_vector_body == WarpReduceTwice("max", "sum")
row_softmax_axis1_triton_v1 == WarpReduceTwice("max", "sum")
row_softmax_axis1_v1 == WarpReduceTwice("max", "sum")

cfg_masked_row_reduce_v1 ==
    KernelOf(Ws, <<PutWarps(One, "max"), GatherWarps(One)>> \o ThenReduce("max", "pick")
                 \o ThenReduce("pick", "sum") \o <<TakeWarps(Ws, One, "sum")>>)

(***************************************************************************)
(* The second version keeps the row's logits in shared memory as well,      *)
(* computed from a cached input row that lies where the warps' cells will   *)
(* be.  Warp w stands for the columns it strides over, one cell each.       *)
(***************************************************************************)
Logit(w) == 32 + w
Logits == [c \in {Logit(w) : w \in Ws} |-> c - 32]
CachedRow == [c \in Ws |-> c]
LogitOf(w) == WarpWhole("x", 0) (+) SetToBag({<<"projected", 0, w>>})

PutLogits ==
    Wanting(RoundOf(Ws, All(Ws, Ws), Logits, [c \in DOMAIN Logits |-> {<<"projected", 0, c - 32>>}],
                    All(DOMAIN Logits, Ws)),
            [w \in Ws |-> SetToBag({<<"x", 0, w>>})])
OwnLogits(r) == [r EXCEPT !.load = [w \in Ws |-> @[w] \cup {Logit(w)}],
                          !.want = [c \in DOMAIN Logits |-> LogitOf(c - 32)] @@ @]

cfg_masked_row_reduce_v2 ==
    KernelOf(Ws, <<Put(Ws, CachedRow, [c \in Ws |-> {<<"x", 0, c>>}]), PutLogits,
                   OwnLogits(PutWarps(One, "max")), GatherWarps(One),
                   Fused(TakeWarps(Ws, One, "max"), OwnLogits(PutWarps(One, "sum"))),
                   GatherWarps(One),
                   TakeBy(Ws, {0}, [c \in {0} \cup DOMAIN Logits |->
                                      IF c = 0 THEN WarpWhole("sum", 0) ELSE LogitOf(c - 32)])>>)
================================================================================
