----------------------------- MODULE PluginKernels -----------------------------
(***************************************************************************)
(* The lowerings of the C++ plugin that are made for one kind of intent each: *)
(* loop nests for the CPU, and CUDA kernels for row norms.  They find their   *)
(* operands by name or, failing that, by shape in the order of the kernel's  *)
(* arguments.                                                              *)
(***************************************************************************)
EXTENDS CpuKernels, Full196Ops

LOCAL INSTANCE SequencesExt
LOCAL INSTANCE FiniteSetsExt

WarpSize == 4       \* 32 in the source
CtaWarps == 2       \* 8
SmallSpatial == 2   \* 8

(***************************************************************************)
(* The arguments of a kernel: what is read and not produced, with the        *)
(* tensors nobody mentions and that are no shape symbols, in the order of     *)
(* their names, then the outputs.  A name is its place in alphabetical order. *)
(***************************************************************************)
computeIOArgOrder(tensors, ops, outputs, shapeBindings) ==
    LET produced == {ops[o].output : o \in DOMAIN ops}
        used == UNION {Range(ops[o].inputs) : o \in DOMAIN ops}
        external == {n \in tensors \ produced : n \in used \/ n \notin Range(outputs) \cup shapeBindings} IN
    SetToSortSeq(external, <) \o SelectSeq(outputs, LAMBDA n : n \in tensors \ external)

Arg(n, i) == <<"arg", n, i>>

(***************************************************************************)
(* CPU loops.  x: the shapes of the tensors, the ops and the outputs.        *)
(***************************************************************************)
ArgOrder(x) == computeIOArgOrder(DOMAIN x.shapes, x.ops, x.outputs, {})

\* Every op of the list, for one element; load[n] is what argument n gives.
Evaluate(ops, load) ==
    FoldLeft(LAMBDA env, op : (op.output :> <<op.op, env[op.inputs[1]], env[op.inputs[2]]>>) @@ env, load, ops)

lowerElementwiseF32(x) ==
    LET out == x.outputs[1]
        inputs == Range(ArgOrder(x)) \ {out}
        load(i) == [n \in inputs |-> Arg(n, IF x.shapes[n] = <<>> THEN 0 ELSE i)]
        whole(o) == {Evaluate(x.ops, [n \in inputs |-> Arg(n, Ref!Flat(mapIndicesNumpyBroadcast(o, x.shapes[out], x.shapes[n]),
                                                                     x.shapes[n]))])[out]} IN
    Sequential(<<Write("y", [i \in Places(x.shapes[out]) |-> {Evaluate(x.ops, load(i))[out]}])>>,
               Output("y", Ref!RowMajor(x.shapes[out], whole)))

lowerRowSum(M, N) == RowReduction(M, N)

lowerGather2dLike(shape, rows, cols) ==
    Sequential(<<Write("y", [i \in DOMAIN rows |-> {<<"x", rows[i] * shape[2] + cols[i]>>}])>>,
               Output("y", Ref!GatherAt(rows, cols, shape)))

lowerConcat2d(a, b, axis) ==
    LET on == IF axis = 0 THEN a[2] ELSE a[2] + b[2]
        om == IF axis = 0 THEN a[1] + b[1] ELSE a[1]
        v(m, n) == CASE axis = 0 /\ m < a[1] -> <<"part", 1, m * a[2] + n>>
                     [] axis = 0 /\ m >= a[1] -> <<"part", 2, (m - a[1]) * b[2] + n>>
                     [] axis = 1 /\ n < a[2] -> <<"part", 1, m * a[2] + n>>
                     [] axis = 1 /\ n >= a[2] -> <<"part", 2, m * b[2] + n - a[2]>>
        body(m) == <<Write("y", [i \in RowPlaces(m, on) |-> {v(m, i - m * on)}])>> IN
    Sequential(ForRows(om, body), Output("y", Numpy!ConcatAlong(<<a, b>>, axis + 1)))

\* The first matrix among the arguments is the input.
lowerDiag2d(x) ==
    LET out == x.outputs[1]
        matrices == SelectSeq(ArgOrder(x), LAMBDA n : n # out /\ Len(x.shapes[n]) = 2)
        N == x.shapes[matrices[1]][2]
        L == x.shapes[out][1]
        diagonal == Ref!Diag(x.shapes[x.ops[1].inputs[1]][1], x.shapes[x.ops[1].inputs[1]][2]) IN
    Sequential(<<Write("y", [i \in Upto(L) |-> {Arg(matrices[1], i * N + i)}])>>,
               Output("y", [i \in Upto(L) |-> {<<"arg", x.ops[1].inputs[1], (CHOOSE e \in diagonal[i] : TRUE)[2]>>}]))

(***************************************************************************)
(* Shuffles of one warp, lane by lane.  After exchange i lane t holds its     *)
(* value of before and that of its partner, which differs in one bit.       *)
(***************************************************************************)
Lane(i, t) == <<"lane", i, t>>
XorLane(t, offset) == IF (t \div offset) % 2 = 0 THEN t + offset ELSE t - offset

Shuffle(i, offset) ==
    LET Us == Upto(WarpSize)
        by == [c \in {Lane(i, t) : t \in Us} |-> c[3]] IN
    RoundOf(Us, [t \in Us |-> {Lane(i - 1, t), Lane(i - 1, XorLane(t, offset))}], by, Nothing,
            [c \in DOMAIN by |-> {Lane(i - 1, c[3]), Lane(i - 1, XorLane(c[3], offset))}])

LaneValues == LET by == [c \in {Lane(0, t) : t \in Upto(WarpSize)} |-> c[3]] IN
    Put(Upto(WarpSize), by, [c \in DOMAIN by |-> {<<"lane", 0, c[3]>>}])
\* Of the lanes below width each holds the sum of all of these.
AllReduce(width, offsets) ==
    Leaving(Upto(WarpSize), <<LaneValues>> \o [i \in DOMAIN offsets |-> Shuffle(i, offsets[i])],
            [c \in {Lane(Len(offsets), t) : t \in Upto(width)} |-> SetToBag({<<"lane", 0, t>> : t \in Upto(width)})])

warpAllReduceSumF32 == AllReduce(WarpSize, <<2, 1>>)
warpAllReduceMaxF32 == AllReduce(WarpSize, <<2, 1>>)
subgroupAllReduceSumF32(width) ==
    AllReduce(width, CASE width = 1 -> <<>> [] width = 2 -> <<1>> [] width = 4 -> <<2, 1>>)

(***************************************************************************)
(* Row norms: one block per row.  Thread tid of a block takes the elements    *)
(* tid, tid + threads, ...; a warp adds up what its lanes took, and the sums  *)
(* of all warps are added up by warp 0.                                    *)
(***************************************************************************)
Sh(i) == <<"Sh", 0, i>>
Share(w, n, threads) == {j \in Upto(n) : (j % threads) \div WarpSize = w}
WarpFor(j, threads) == (j % threads) \div WarpSize
Square(n, i) == <<"square", n, i>>

\* A round in which cell c is written by by[c] from from[c] and fresh[c], and every warp reads cells.
WarpStep(warps, cells, by, from, fresh) ==
    RoundOf(Upto(warps), [w \in Upto(warps) |-> cells \cup UNION {from[c] : c \in {d \in DOMAIN from : by[d] = w}}],
            by, fresh, from)

\* Warp w puts the sum of values[f][w] into cell f * warps + w.
PutSums(warps, values) ==
    LET cells == {Sh(i) : i \in Upto(warps * Len(values))} IN
    WarpStep(warps, {}, [c \in cells |-> c[3] % warps], Nothing,
         [c \in cells |-> values[(c[3] \div warps) + 1][c[3] % warps]])

FieldCells(warps, f) == {Sh(f * warps + w) : w \in Upto(warps)}

\* out is written row by row; everybody reads the statistics of cells first.
Normalise(warps, cells, out, writer, fresh) ==
    LET written == {Arg(out, i) : i \in DOMAIN writer} IN
    WarpStep(warps, cells, [c \in written |-> writer[c[3]]], [c \in written |-> cells], [c \in written |-> fresh[c[3]]])

(***************************************************************************)
(* LayerNormPersistentAxis1V1.  The well-known names, in their order.         *)
(***************************************************************************)
bias_ptr == 1
in_ptr == 3
out_mean_ptr == 4
out_ptr == 5
out_rstd_ptr == 6
weight_ptr == 8

LayerNormOutputs(x) ==
    IF {out_ptr, out_mean_ptr, out_rstd_ptr} \subseteq Range(x.outputs)
    THEN [out |-> out_ptr, mean |-> out_mean_ptr, rstd |-> out_rstd_ptr]
    ELSE LET ofRank(r) == SelectSeq(x.outputs, LAMBDA n : Len(x.shapes[n]) = r) IN
         [out |-> Last(ofRank(2)), mean |-> ofRank(1)[1], rstd |-> ofRank(1)[2]]

LayerNormInputs(x, M, N) ==
    LET present(n) == IF n \in DOMAIN x.shapes \ Range(x.outputs) THEN n ELSE 0
        named == [input |-> present(in_ptr), weight |-> present(weight_ptr), bias |-> present(bias_ptr)]
        role(r, n) ==
          CASE x.shapes[n] = <<M, N>> /\ r.input = 0 -> [r EXCEPT !.input = n]
            [] x.shapes[n] = <<N>> /\ r.weight = 0 -> [r EXCEPT !.weight = n]
            [] x.shapes[n] = <<N>> /\ r.weight \notin {0, n} /\ r.bias = 0 -> [r EXCEPT !.bias = n]
            [] OTHER -> r IN
    IF 0 \notin {named.input, named.weight, named.bias} THEN named
    ELSE FoldLeft(role, named, SelectSeq(ArgOrder(x), LAMBDA n : n \notin Range(x.outputs)))

\* Mean, reciprocal deviation and output of row, of the tensors in r.
NormOf(r, row, N) ==
    LET sum == SetToBag({Arg(r.input, row * N + j) : j \in Upto(N)})
        squares == SetToBag({Square(r.input, row * N + j) : j \in Upto(N)}) IN
    [c \in {Arg(r.mean, row)} |-> sum] @@ [c \in {Arg(r.rstd, row)} |-> sum (+) squares]
    @@ [c \in {Arg(r.out, row * N + j) : j \in Upto(N)} |->
          sum (+) sum (+) squares (+) SetToBag({Arg(r.input, c[3]), Arg(r.weight, c[3] - row * N), Arg(r.bias, c[3] - row * N)})]

LayerNormSums(r, row, N) ==
    LET taken(w) == Share(w, N, CtaWarps * WarpSize) IN
    PutSums(CtaWarps, <<[w \in Upto(CtaWarps) |-> {Arg(r.input, row * N + j) : j \in taken(w)}],
                        [w \in Upto(CtaWarps) |-> {Square(r.input, row * N + j) : j \in taken(w)}]>>)

LayerNormStatistics(r, row) ==
    LET means == {Sh(0), Arg(r.mean, row)}
        rstds == {Sh(1), Arg(r.rstd, row)}
        sums == FieldCells(CtaWarps, 0) IN
    WarpStep(CtaWarps, {}, All(means \cup rstds, 0),
         All(means, sums) @@ All(rstds, sums \cup FieldCells(CtaWarps, 1)), Nothing)

LayerNormRow(r, row, N) ==
    Normalise(CtaWarps, {Sh(0), Sh(1)}, r.out, [i \in RowPlaces(row, N) |-> WarpFor(i - row * N, CtaWarps * WarpSize)],
              [i \in RowPlaces(row, N) |-> {Arg(r.input, i), Arg(r.weight, i - row * N), Arg(r.bias, i - row * N)}])

\* x.meant says which tensor is which.
lowerCudaLayerNormPersistentAxis1V1(x) ==
    LET outputs == LayerNormOutputs(x)
        M == x.shapes[outputs.out][1]
        N == x.shapes[outputs.out][2]
        r == LayerNormInputs(x, M, N) @@ outputs IN
    [row \in Upto(M) |->
        Leaving(Upto(CtaWarps), <<LayerNormSums(r, row, N), LayerNormStatistics(r, row), LayerNormRow(r, row, N)>>,
                NormOf(x.meant, row, N))]

(***************************************************************************)
(* BatchNorm2dChannelwiseV1: one block per channel, over the batch and the    *)
(* space of input[N, C, HW].  A small space in one warp gives a lane per      *)
(* place; otherwise the threads stride over batch and space.               *)
(***************************************************************************)
BatchNormThreads(elems) ==
    Min({CtaWarps * WarpSize} \cup {t \in {WarpSize * 2 ^ k : k \in Upto(CtaWarps)} : t >= elems})
SmallSpatialWidth(HW) == Min({2 ^ k : k \in {j \in 0 .. WarpSize : 2 ^ j >= HW}} \cup {WarpSize})

\* The place in input of batch n, channel chan, place hw; and of element i of a channel.
ChannelPlace(shape, n, chan, hw) == n * shape[2] * shape[3] + chan * shape[3] + hw
ElementPlace(shape, chan, i) == ChannelPlace(shape, i \div shape[3], chan, i % shape[3])

\* The places warp w adds up, and is in charge of in the output.
SmallSpatialTaken(shape, chan) ==
    {ChannelPlace(shape, n, chan, lane) : n \in Upto(shape[1]), lane \in {l \in Upto(SmallSpatialWidth(shape[3])) : l < shape[3]}}
BatchNormTaken(shape, chan, warps, w) ==
    IF warps = 1 /\ shape[3] <= SmallSpatial THEN SmallSpatialTaken(shape, chan)
    ELSE {ElementPlace(shape, chan, i) : i \in Share(w, shape[1] * shape[3], warps * WarpSize)}

\* What thread 0 makes of the two sums; the running statistics keep a part of their old values.
RunningStatistics(chan) ==
    [mean |-> {}, inv_std |-> {}, running_mean_out |-> {<<"running_mean", chan>>},
     running_var_out |-> {<<"running_var", chan>>}]
StatisticsFrom(sums, squares) ==
    [mean |-> sums, inv_std |-> sums \cup squares, running_mean_out |-> sums, running_var_out |-> sums \cup squares]

Statistic(name, chan) == <<name, 0, chan>>
StatisticNames == {"mean", "inv_std", "running_mean_out", "running_var_out"}

\* Several warps: mean, reciprocal deviation and variance are left in shared memory for all.
SharedStatistics(chan, warps) ==
    LET sums == FieldCells(warps, 0)
        squares == FieldCells(warps, 1)
        outputs == {Statistic(s, chan) : s \in StatisticNames}
        shared == {Sh(0), Sh(1), Sh(warps)} IN
    WarpStep(warps, {}, All(outputs \cup shared, 0),
         [c \in outputs |-> StatisticsFrom(sums, squares)[c[1]]] @@ [c \in {Sh(0)} |-> sums] @@ All(shared, sums \cup squares),
         [c \in outputs |-> RunningStatistics(chan)[c[1]]])

\* One warp: every lane has the sums in a register, here the cells of the sums.
WarpStatistics(chan) ==
    LET outputs == {Statistic(s, chan) : s \in StatisticNames} IN
    WarpStep(1, {}, All(outputs, 0), [c \in outputs |-> StatisticsFrom({Sh(0)}, {Sh(1)})[c[1]]],
         [c \in outputs |-> RunningStatistics(chan)[c[1]]])

BatchNormOutput(shape, chan, warps, statistics) ==
    LET taken == UNION {{<<w, i>> : i \in BatchNormTaken(shape, chan, warps, w)} : w \in Upto(warps)}
        written == {e[2] : e \in taken} IN
    WarpStep(warps, statistics, [c \in {<<"output", 0, i>> : i \in written} |-> (CHOOSE e \in taken : e[2] = c[3])[1]],
         [c \in {<<"output", 0, i>> : i \in written} |-> statistics],
         [c \in {<<"output", 0, i>> : i \in written} |-> {<<"weight", chan>>, <<"bias", chan>>, Arg("input", c[3])}])

BatchNormRounds(shape, chan) ==
    LET warps == BatchNormThreads(shape[1] * shape[3]) \div WarpSize
        taken(w) == BatchNormTaken(shape, chan, warps, w)
        sums == PutSums(warps, <<[w \in Upto(warps) |-> {Arg("input", i) : i \in taken(w)}],
                                 [w \in Upto(warps) |-> {Square("input", i) : i \in taken(w)}]>>) IN
    IF warps = 1 THEN <<sums, WarpStatistics(chan), BatchNormOutput(shape, chan, 1, {Sh(0), Sh(1)})>>
    ELSE <<sums, SharedStatistics(chan, warps), BatchNormOutput(shape, chan, warps, {Sh(0), Sh(1)})>>

\* The bags of the statistics and of the normalised output of a channel.
BatchNormOf(shape, chan, warps) ==
    LET places == {Ref!Flat(o, shape) : o \in {q \in Ref!Indices(shape) : q[2] = chan}}
        sum == SetToBag({Arg("input", i) : i \in places})
        squares == SetToBag({Square("input", i) : i \in places})
        sums == [mean |-> sum, inv_std |-> sum (+) squares, running_mean_out |-> sum, running_var_out |-> sum (+) squares]
        \* a single warp keeps the two sums apart
        normed == IF warps = 1 THEN sum (+) squares ELSE sum (+) sum (+) squares IN
    [c \in {Statistic(s, chan) : s \in StatisticNames} |-> sums[c[1]] (+) SetToBag(RunningStatistics(chan)[c[1]])]
    @@ [c \in {<<"output", 0, i>> : i \in places} |->
          normed (+) SetToBag({<<"weight", chan>>, <<"bias", chan>>, Arg("input", c[3])})]

lowerCudaBatchNorm2dChannelwiseV1(shape) ==
    LET warps == BatchNormThreads(shape[1] * shape[3]) \div WarpSize IN
    [chan \in Upto(shape[2]) |->
        Leaving(Upto(warps), BatchNormRounds(shape, chan), BatchNormOf(shape, chan, warps))]

(***************************************************************************)
(* RmsNorm2dRowwise.  The last matrix among the outputs is the output, the    *)
(* last vector the reciprocal root mean square; input and weight are the      *)
(* first arguments of their shapes.                                        *)
(***************************************************************************)
RmsNormOutputs(x) ==
    LET ofRank(r) == SelectSeq(x.outputs, LAMBDA n : Len(x.shapes[n]) = r) IN
    [out |-> Last(ofRank(2)), inv |-> Last(ofRank(1))]
RmsNormInputs(x, M, N) ==
    LET of(shape) == SelectSeq(ArgOrder(x), LAMBDA n : n \notin Range(x.outputs) /\ x.shapes[n] = shape) IN
    [input |-> of(<<M, N>>)[1], weight |-> of(<<N>>)[1]]

RmsOf(r, row, N) ==
    LET squares == SetToBag({Square(r.input, row * N + j) : j \in Upto(N)}) IN
    [c \in {Arg(r.inv, row)} |-> squares]
    @@ [c \in {Arg(r.out, row * N + j) : j \in Upto(N)} |->
          squares (+) SetToBag({Arg(r.input, c[3]), Arg(r.weight, c[3] - row * N)})]

RmsFresh(r, row, N) == [i \in RowPlaces(row, N) |-> {Arg(r.input, i), Arg(r.weight, i - row * N)}]

\* The first version: a tree over one cell per thread, then cell 0 holds the scale.
RmsPartial(r, row, N) ==
    LET cells == {Sh(t) : t \in Ts} IN
    Put(Ts, [c \in cells |-> c[3]],
        [c \in cells |-> {Square(r.input, row * N + j) : j \in {k \in Upto(N) : k % Width = c[3]}}])
RmsTree(s) ==
    RoundOf(Ts, [t \in Ts |-> IF t < s THEN {Sh(t), Sh(t + s)} ELSE {}],
            [c \in {Sh(t) : t \in Upto(s)} |-> c[3]], Nothing, [c \in {Sh(t) : t \in Upto(s)} |-> {c, Sh(c[3] + s)}])
RmsScale(r, row) ==
    LET cells == {Sh(0), Arg(r.inv, row)} IN
    RoundOf(Ts, OnlyBy(Ts, {0}, {Sh(0)}), All(cells, 0), Nothing, All(cells, {Sh(0)}))
RmsRow(r, row, N) ==
    LET written == {Arg(r.out, i) : i \in RowPlaces(row, N)} IN
    RoundOf(Ts, All(Ts, {Sh(0)}), [c \in written |-> (c[3] - row * N) % Width],
            [c \in written |-> RmsFresh(r, row, N)[c[3]]], All(written, {Sh(0)}))

RmsRoles(x) ==
    LET outputs == RmsNormOutputs(x)
        shape == x.shapes[outputs.out] IN
    RmsNormInputs(x, shape[1], shape[2]) @@ outputs @@ [M |-> shape[1], N |-> shape[2]]

lowerCudaRmsNorm2dRowwiseV1(x) ==
    LET r == RmsRoles(x)
        rounds(row) == <<RmsPartial(r, row, r.N)>> \o [i \in 1 .. Levels |-> RmsTree(2 ^ (Levels - i))]
                       \o <<RmsScale(r, row), RmsRow(r, row, r.N)>> IN
    [row \in Upto(r.M) |-> Leaving(Ts, rounds(row), RmsOf(x.meant, row, r.N))]

\* The second version: warp sums, then warp 0.
RmsWarpSums(r, row, N) ==
    PutSums(CtaWarps, <<[w \in Upto(CtaWarps) |->
                            {Square(r.input, row * N + j) : j \in Share(w, N, CtaWarps * WarpSize)}]>>)
RmsWarpScale(r, row) ==
    LET cells == {Sh(0), Arg(r.inv, row)} IN
    WarpStep(CtaWarps, {}, All(cells, 0), All(cells, FieldCells(CtaWarps, 0)), Nothing)
RmsWarpRow(r, row, N) ==
    Normalise(CtaWarps, {Sh(0)}, r.out, [i \in RowPlaces(row, N) |-> WarpFor(i - row * N, CtaWarps * WarpSize)],
              RmsFresh(r, row, N))

lowerCudaRmsNorm2dRowwiseV2(x) ==
    LET r == RmsRoles(x) IN
    [row \in Upto(r.M) |->
        Leaving(Upto(CtaWarps), <<RmsWarpSums(r, row, r.N), RmsWarpScale(r, row), RmsWarpRow(r, row, r.N)>>,
                RmsOf(x.meant, row, r.N))]
================================================================================
