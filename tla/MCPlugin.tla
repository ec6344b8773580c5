-------------------------------- MODULE MCPlugin --------------------------------
(***************************************************************************)
(* The kernels of the C++ plugin, as tables for TLC.  A kernel of the emitter *)
(* computes several outputs in one launch, of sizes that differ: blocks and  *)
(* threads with several elements of an output, with one, and with none.  The *)
(* specialised lowerings follow.                                           *)
(***************************************************************************)
EXTENDS PluginAttention

LOCAL INSTANCE SequencesExt
LOCAL INSTANCE FiniteSetsExt

\* The same function, which TLC then keeps as a table.
Table(f) == f @@ <<>>

Programs(kind, inputs, program(_)) == [k \in {<<kind, x>> : x \in inputs} |-> program(k[2])]

\* The blocks of the launches of a kernel, one launch for every input.
Launches(kind, inputs, launch(_)) ==
    LET launches == Table([x \in inputs |-> Table(launch(x))]) IN
    [k \in UNION {{<<kind, x, b>> : b \in DOMAIN launches[x]} : x \in inputs} |-> launches[k[2]][k[3]]]

\* Convolutions with groups, padding, stride and dilation, of one to three dimensions.
Convs1d == {[n |-> 2, cin |-> 1, cout |-> 1, groups |-> 1, input |-> <<5>>, window |-> <<2>>,
             stride |-> <<2>>, pad |-> <<1>>, dilation |-> <<2>>],
            [n |-> 1, cin |-> 2, cout |-> 4, groups |-> 2, input |-> <<3>>, window |-> <<3>>,
             stride |-> <<1>>, pad |-> <<1>>, dilation |-> <<1>>]}
Convs2d == {[n |-> 1, cin |-> 4, cout |-> 2, groups |-> 2, input |-> <<3, 4>>, window |-> <<2, 3>>,
             stride |-> <<2, 1>>, pad |-> <<1, 0>>, dilation |-> <<1, 1>>],
            [n |-> 2, cin |-> 1, cout |-> 1, groups |-> 1, input |-> <<4, 3>>, window |-> <<2, 2>>,
             stride |-> <<1, 2>>, pad |-> <<0, 1>>, dilation |-> <<2, 1>>]}
Convs3d == {[n |-> 1, cin |-> 2, cout |-> 2, groups |-> 2, input |-> <<2, 3, 3>>, window |-> <<2, 2, 1>>,
             stride |-> <<1, 2, 2>>, pad |-> <<1, 0, 0>>, dilation |-> <<1, 1, 1>>]}
Depthwise == {[n |-> 1, cin |-> 2, cout |-> 4, groups |-> 2, input |-> <<3, 2>>, window |-> <<2, 2>>,
               stride |-> <<2, 1>>, pad |-> <<1, 0>>, dilation |-> <<1, 1>>]}

Pair(a, b, out) == [shapes |-> [a |-> a, b |-> b], out |-> out]
Shapes == {Pair(<<9>>, <<9>>, <<9>>), Pair(<<3>>, <<1>>, <<3>>), Pair(<<2, 1>>, <<1, 3>>, <<2, 3>>),
           Pair(<<2, 1, 3>>, <<1, 2, 1>>, <<2, 2, 3>>), Pair(<<1, 2, 1, 3>>, <<2, 1, 2, 1>>, <<2, 2, 2, 3>>)}

\* Data, output, index arrays and their shapes.
Picks == {<<<<4>>, <<3>>, <<[i \in 0 .. 2 |-> (2 * i + 1) % 4]>>, <<<<3>>>>>>,
          <<<<2, 3>>, <<2, 2>>, <<[i \in 0 .. 1 |-> 1 - i], [i \in 0 .. 1 |-> i + 1]>>, <<<<2, 1>>, <<1, 2>>>>>>,
          <<<<2, 2, 2>>, <<2, 1, 2>>, <<[i \in 0 .. 0 |-> 1], [i \in 0 .. 1 |-> i], [i \in 0 .. 3 |-> i % 2]>>,
            <<<<1, 1, 1>>, <<2, 1, 1>>, <<2, 1, 2>>>>>>,
          <<<<2, 1, 2, 2>>, <<1, 2, 2, 1>>, <<[i \in 0 .. 1 |-> i], [i \in 0 .. 0 |-> 0], [i \in 0 .. 1 |-> 1 - i], [i \in 0 .. 3 |-> i % 2]>>,
            <<<<1, 2, 1, 1>>, <<1, 1, 1, 1>>, <<1, 1, 2, 1>>, <<1, 2, 2, 1>>>>>>}

Out(got, wanted) == [read |-> Table(got), want |-> Table(wanted)]
\* One kernel whose outputs are those sequences one behind the other.
Emitted(name, outputs) ==
    LET launch(x) == lowerCudaFull196GraphV1(outputs) IN Launches(name, {"outputs"}, launch)
\* A set in some order.
InOrder(set) == FoldSet(LAMBDA e, seq : Append(seq, e), <<>>, set)
\* The output of an op for each of the inputs.
Each196(inputs, out(_)) == LET seq == InOrder(inputs) IN [i \in DOMAIN seq |-> out(seq[i])]

(***************************************************************************)
(* Numbers.  Not among them: arithmetic of two i1, and integers other than 0  *)
(* and 1 where a condition is wanted (README).                             *)
(***************************************************************************)
N196(type, value) == [type |-> type, value |-> value]
Numbers == {N196("i1", 0), N196("i1", 1), N196("i32", -3), N196("i32", 100), N196("i64", 200), N196("i64", -1),
            N196("f32", 5), N196("f32", -3), N196("f32", 4)}
Operands == {<<a, b>> \in Numbers \X Numbers : ~(a.type = "i1" /\ b.type = "i1")}
WholeProduct(x) == ~(x[1].type = "f32" /\ x[2].type = "f32" /\ (x[1].value * x[2].value) % 2 = 1)
Conditions == {N196("i1", 0), N196("i1", 1), N196("i32", 0), N196("i32", 1), N196("f32", 0), N196("f32", 1)}

\* One output: the number an op makes of each of the inputs.
Numbered196(inputs, got(_), wanted(_)) ==
    LET seq == InOrder(inputs)
        cell(v) == {<<"number", v.type, v.value>>} IN
    Out([lin \in Upto(Len(seq)) |-> cell(got(seq[lin + 1]))], [lin \in Upto(Len(seq)) |-> cell(wanted(seq[lin + 1]))])

Arithmetic ==
    LET binary(op) ==
          LET got(x) == emitBinNumeric(op, x[1], x[2], Numpy!Promoted(x[1], x[2]))
              wanted(x) == Numpy!NumBin(op, x[1], x[2]) IN
          Numbered196({x \in Operands : op = "mul" => WholeProduct(x)}, got, wanted)
        compare(op) ==
          LET got(x) == emitCompare(op, x[1], x[2])
              wanted(x) == Numpy!Compared(op, x[1], x[2]) IN
          Numbered196(Numbers \X Numbers, got, wanted) IN
    Emitted("arithmetic", Each196({"add", "sub", "mul", "max", "min"}, binary))
    @@ Emitted("cmp", Each196({"eq", "ne", "lt", "le", "gt", "ge"}, compare))

Scalars ==
    LET cast(x) == emitCast(x[1], x[2])
        casted(x) == Numpy!astype(x[1], x[2])
        rest(x) == emitRemainder(x[1], x[2], Numpy!Promoted(x[1], x[2]))
        modulo(x) == Numpy!NumBin("remainder", x[1], x[2])
        where(x) == emitWhere(x[1], x[2], x[3], Numpy!Promoted(x[2], x[3]))
        chosen(x) == Numpy!Where(x[1], x[2], x[3])
        abs(x) == emitAbs(x, x.type)
        magnitude(x) == Numpy!Absolute(x)
        ceil(x) == emitCeil(x, "f32")
        above(x) == Numpy!Ceiling(x)
        inverse(x) == N196("i1", Ref!Elementwise("not", x.value, 0))
        both(x) == emitAnd(x[1], x[2])
        conjunction(x) == N196("i1", Ref!Elementwise("and", x[1].value, x[2].value))
        floats == {v \in Numbers : v.type = "f32"} IN
    Emitted("scalars",
            <<Numbered196(Numbers \X {"i1", "i32", "i64", "f32"}, cast, casted),
              Numbered196({N196("i32", -7), N196("i64", 100), N196("f32", -5), N196("f32", 9)}
                          \X {N196("i32", 3), N196("i32", -4), N196("f32", 3)}, rest, modulo),
              Numbered196(Conditions \X {N196("i32", 100), N196("f32", 5)} \X {N196("i32", -3), N196("i64", 200)},
                          where, chosen),
              Numbered196(Numbers, abs, magnitude), Numbered196(floats, ceil, above),
              Numbered196(Conditions, emitNot, inverse), Numbered196(Conditions \X Conditions, both, conjunction)>>)

(***************************************************************************)
(* Ops that move, reduce and scan.                                         *)
(***************************************************************************)
Moves ==
    LET broadcast(x) == Out(emitBroadcasted(x.shapes, x.out), Ref!Broadcast(x.shapes, x.out))
        reshape(x) == Out(emitReshape(x[1], x[2]), Numpy!Reshape(x[2]))
        into(x) == Out(emitBroadcastInDim(x[1], x[2], x[3]), Ref!BroadcastInDim(x[1], x[2], x[3]))
        iota(axis) == Out(emitIota(<<2, 3, 2>>, axis), Numpy!Iota(<<2, 3, 2>>, axis))
        gather(x) == Out(emitGather(x[1], x[2], x[3], x[4]), Ref!GatherAll(x[1], x[2], x[3], x[4]))
        stack(axis) == LET out == <<2, 3>> IN
                       Out(emitStack(3, SubSeq(out, 1, axis - 1) \o <<3>> \o SubSeq(out, axis, 2), axis),
                           Numpy!StackAlong(3, out, axis))
        concat(axis) == LET shapes == [p \in 1 .. 3 |-> [<<2, 3, 2>> EXCEPT ![axis] = p]]
                            out == [<<2, 3, 2>> EXCEPT ![axis] = 6] IN
                        Out(emitConcat(shapes, out, axis), Numpy!ConcatAlong(shapes, axis))
        pad(x) == Out(emitPad(x[1], Numpy!PadShape(x[1], x[2], x[3]), x[2]), Numpy!Pad(x[1], x[2], x[3])) IN
    Emitted("elementwise", Each196(Shapes, broadcast))
    @@ Emitted("reshape", Each196({<<<<2, 6>>, <<3, 4>>>>, <<<<12>>, <<2, 3, 2>>>>, <<<<2, 2>>, <<4>>>>}, reshape))
    @@ Emitted("broadcast_in_dim", Each196({<<<<3>>, <<2, 3>>, <<1>>>>, <<<<4>>, <<4, 2>>, <<0>>>>,
                                            <<<<2, 3>>, <<2, 2, 3>>, <<0, 2>>>>}, into))
    @@ Emitted("iota", Each196(1 .. 3, iota)) @@ Emitted("gather", Each196(Picks, gather))
    @@ Emitted("stack", Each196(1 .. 3, stack)) @@ Emitted("concat", Each196(1 .. 3, concat))
    @@ Emitted("pad", Each196({<<<<3>>, <<2>>, <<1>>>>, <<<<2, 3>>, <<1, 0>>, <<0, 2>>>>}, pad))

Lines ==
    LET axesOf == {<<shape, dims, keep>> : shape \in {<<2, 3, 2>>}, dims \in SUBSET (1 .. 3) \ {{}}, keep \in BOOLEAN}
        reduce(x) == Out(emitReduce(x[1], Numpy!ReducedShape(x[1], x[2], x[3]), x[2], x[3]),
                         Numpy!Reduce(x[1], x[2], x[3]))
        cumsum(axis) == Out(emitCumsum(<<2, 3, 2>>, axis), Numpy!Accumulate(<<2, 3, 2>>, axis))
        std(x) == Out(emitStd(<<2, 3, 2>>, x[1], x[2]), Numpy!Std(<<2, 3, 2>>, x[1], x[2]))
        softmax(axis) == Out(emitSoftmax(<<2, 3, 2>>, axis), Numpy!SoftmaxAlong(<<2, 3, 2>>, axis))
        rows == <<<<1, 0, 1>>, <<0, 0, 0>>, <<2, 3, 3>>, <<5, 4, 4>>, <<-1, 0, 0>>>>
        x196 == [l \in Upto(15) |-> rows[(l \div 3) + 1][(l % 3) + 1]]
        index(wanted(_)) == [r \in Upto(5) |-> {<<"number", wanted(rows[r + 1]) - 1>>}]
        argmax(row) == Ref!ArgMax(row)
        argmin(row) == Ref!ArgMin(row) IN
    Emitted("reduce", Each196(axesOf, reduce)) @@ Emitted("cumsum", Each196(1 .. 3, cumsum))
    @@ Emitted("std", Each196({<<1, 1>>, <<2, 0>>, <<2, 1>>, <<3, 1>>}, std))
    @@ Emitted("softmax", Each196(1 .. 3, softmax))
    @@ Emitted("argmax", <<Out(emitArgmax(x196, 3, 1), index(argmax)), Out(emitArgmax(x196, 3, -1), index(argmin))>>)

(***************************************************************************)
(* Products, convolutions and windows.                                     *)
(***************************************************************************)
Pools196 == {[n |-> 1, c |-> 2, input |-> <<3, 4>>, window |-> <<2, 2>>, stride |-> <<1, 2>>, pad |-> <<1, 0>>,
              dilation |-> <<1, 1>>],
             [n |-> 2, c |-> 1, input |-> <<4, 3>>, window |-> <<3, 2>>, stride |-> <<2, 1>>, pad |-> <<1, 1>>,
              dilation |-> <<1, 1>>]}
Dilated196 == [n |-> 1, c |-> 2, input |-> <<3, 4>>, window |-> <<2, 2>>, stride |-> <<1, 1>>, pad |-> <<1, 1>>,
               dilation |-> <<2, 2>>]

Products ==
    LET matmul(x) == Out(emitMatmul(x), Ref!MatmulOf(x.b, x.m, x.n, x.k, x.ta, x.tb))
        stored == {[b |-> b, m |-> 2, n |-> 3, k |-> 2, ta |-> ta, tb |-> tb] : b \in {1, 2}, ta \in BOOLEAN, tb \in BOOLEAN}
        sdpa(x) == Out(emitSdpa(x), Numpy!Sdpa4d(x))
        heads == {[b |-> 1, h |-> 2, q |-> 2, k |-> 3, d |-> 2, causal |-> c] : c \in BOOLEAN} IN
    Emitted("products", Each196(stored, matmul)
                        \o <<Out(emitKron(<<2, 1>>, <<2, 3>>), Ref!Kron(2, 1, 2, 3)),
                             Out(emitPolar(<<2, 2>>), Ref!Polar(2, 2)), Out(emitGlu(2, 3), Ref!Glu(2, 3))>>)
    @@ Emitted("sdpa", Each196(heads, sdpa))

Windows ==
    LET conv1d(x) == Out(emitConv1d(x), Ref!Conv(x))
        conv2d(x) == Out(emitConv2d(x), Ref!Conv(x))
        conv3d(x) == Out(emitConv3d(x), Ref!Conv(x))
        avg(x) == Out(emitAvgPool2d(x[1], x[2]), Numpy!AveragePool(x[1], x[2]))
        up1d(x) == Out(emitUpsampleNearest1d(1, 2, x[1], x[2]), Ref!UpsampleNearest(1, 2, <<x[1]>>, <<x[2]>>))
        up2d(x) == Out(emitUpsampleNearest2d(1, 2, x[1], x[2]), Ref!UpsampleNearest(1, 2, x[1], x[2]))
        values == [l \in Upto(24) |-> (l * 7) % 5]
        max(x) == Out(emitMaxPool2d(x[1], values, x[2]), Numpy!MaximumPool(x[1], values, x[2])) IN
    Emitted("conv", Each196(Convs1d, conv1d) \o Each196(Convs2d \cup Depthwise, conv2d) \o Each196(Convs3d, conv3d))
    @@ Emitted("pool", Each196(Pools196 \X BOOLEAN, avg) \o Each196((Pools196 \cup {Dilated196}) \X {"values", "indices"}, max))
    @@ Emitted("upsample", Each196({<<2, 3>>, <<3, 5>>}, up1d) \o Each196({<<<<2, 3>>, <<3, 4>>>>}, up2d))

(***************************************************************************)
(* Scattering, selecting, order statistics and losses.                     *)
(***************************************************************************)
Writes ==
    LET select(x) == Out(emitSelectScatter(<<2, 3, 2>>, x, 1), Numpy!SelectScatter(<<2, 3, 2>>, x, 1))
        slice(x) == Out(emitSliceScatter(<<3, 5>>, x), Numpy!SliceScatter(<<3, 5>>, x))
        slices == {[dim |-> 2, start |-> 1, end |-> 5, step |-> 2], [dim |-> 2, start |-> 0, end |-> 4, step |-> 3],
                   [dim |-> 1, start |-> 1, end |-> 3, step |-> 1]}
        scatter(x) == LET index == [l \in Upto(6) |-> (l * l) % <<2, 3>>[x]] IN
                      Out(emitScatter(<<2, 3>>, x, index), Numpy!ScatterInto(<<2, 3>>, x, index))
        add(x) == Out(emitIndexAdd(<<3, 2>>, x, <<1, 0, 1>>), Numpy!IndexAdd(<<3, 2>>, x, <<1, 0, 1>>))
        put(x) == Out(emitIndexPut(<<2, 3>>, <<0, 1, 0>>, <<2, 1, 2>>, x),
                      Numpy!IndexPut(<<2, 3>>, <<0, 1, 0>>, <<2, 1, 2>>, x))
        masks == [Upto(4) -> {0, 1}]
        pick(mask) == Out(emitMaskedSelect(mask), Numpy!MaskedSelect(mask))
        spread(mask) == Out(emitMaskedScatter(mask), Numpy!MaskedScatter(<<2, 2>>, mask)) IN
    Emitted("scatter", Each196(1 .. 3, select) \o Each196(slices, slice) \o Each196({1, 2}, scatter)
                       \o Each196({1, 2}, add) \o Each196(BOOLEAN, put))
    @@ Emitted("masked", Each196(masks \ {[l \in Upto(4) |-> 0]}, pick) \o Each196(masks, spread))

Orders ==
    LET numbers(s) == [l \in Upto(Len(s)) |-> {<<"number", s[l + 1]>>}]
        stable(x) == Out(emitSort(x[1], x[2], TRUE), numbers(Numpy!Sorted(x[1], x[2])))
        unstable(x) == Out(emitSort(<<2, 0, 3, 1>>, x, FALSE), numbers(Numpy!Sorted(<<2, 0, 3, 1>>, x)))
        unique(x) == Out(emitUnique(x), numbers(Ref!Unique(x)))
        nonzero(x) == LET at == Ref!Nonzero(x, 2) IN
                      Out(emitNonzero([l \in Upto(4) |-> x[l + 1]], 2),
                          [l \in Upto(2 * Len(at)) |-> {<<"number", at[(l \div 2) + 1][(l % 2) + 1]>>}])
        quantile(x) == Out(emitQuantile(x[1], x[2], 4), [l \in {0} |-> {<<"number", Numpy!Quantile(x[1], x[2], 4)>>}]) IN
    Emitted("sort", Each196([1 .. 3 -> 0 .. 1] \X BOOLEAN, stable) \o Each196(BOOLEAN, unstable))
    @@ Emitted("unique", Each196([1 .. 3 -> 0 .. 2], unique))
    @@ Emitted("nonzero", Each196([1 .. 4 -> 0 .. 1] \ {<<0, 0, 0, 0>>}, nonzero))
    @@ Emitted("quantile", Each196(({<<3, 1, 2>>, <<0, 5>>} \X (0 .. 4)) \cup ({<<4>>} \X (0 .. 3)), quantile))

\* Losses are averaged over (1) or summed (2); the class 2 is the one that is ignored.
Losses ==
    LET mse(x) == Out(emitMseLoss(2, 3, x), [l \in {0} |-> Numpy!MseLoss(6, x)])
        nll(x) == Out(emitNllLoss(3, 4, x[1], 2, x[2]), [l \in {0} |-> Numpy!NllLoss(3, 4, <<>>, x[1], 2, x[2])])
        nll2d(x) == Out(emitNllLoss2d(2, 3, 1, 2, x[1], 2, x[2]),
                        [l \in {0} |-> Numpy!NllLoss(2, 3, <<1, 2>>, x[1], 2, x[2])])
        targets(n) == {[l \in Upto(n) |-> (l * k) % 3] : k \in 1 .. 3} IN
    Emitted("losses", Each196({1, 2}, mse) \o Each196(targets(3) \X {1, 2}, nll) \o Each196(targets(4) \X {1, 2}, nll2d))

Full196 ==
    Arithmetic @@ Scalars @@ Moves @@ Lines @@ Products @@ Windows @@ Writes @@ Orders @@ Losses

(***************************************************************************)
(* The specialised lowerings.                                              *)
(***************************************************************************)
Op(op, inputs, output) == [op |-> op, inputs |-> inputs, output |-> output]
\* Tensors 1, 2, ... of those shapes.
Intent(shapes, ops, outputs) == [shapes |-> shapes, ops |-> ops, outputs |-> outputs]

\* Scalars are read at 0; the output's name comes between those of the inputs, or after.
Elementwise == {Intent(<<<<2, 3>>, <<>>, <<2, 3>>>>, <<Op("mul", <<1, 2>>, 4), Op("add", <<4, 3>>, 5)>>, <<5>>),
                Intent(<<<<5>>, <<5>>, <<5>>>>, <<Op("sub", <<3, 1>>, 2)>>, <<2>>)}
WithOutput(x) == [x EXCEPT !.shapes = (5 :> x.shapes[1]) @@ @]

\* A vector, a matrix and a diagonal, in either order of their names.
Diagonals == {Intent(<<<<2>>, <<3>>, <<3, 2>>>>, <<Op("diag", <<3>>, 1)>>, <<1>>),
              Intent(<<<<2, 3>>, <<2>>, <<4>>>>, <<Op("diag", <<1>>, 2)>>, <<2>>)}

\* Named tensors; tensors known by their shapes, the weight's name before the bias's; some of each.
Roles(input, weight, bias, out, mean, rstd) ==
    [input |-> input, weight |-> weight, bias |-> bias, out |-> out, mean |-> mean, rstd |-> rstd]
Normed2d(r, M, N, outputs) ==
    [shapes |-> (r.input :> <<M, N>>) @@ (r.out :> <<M, N>>) @@ (r.weight :> <<N>>) @@ (r.bias :> <<N>>)
                @@ (r.mean :> <<M>>) @@ (r.rstd :> <<M>>),
     ops |-> <<>>, outputs |-> outputs, meant |-> r]
LayerNorms ==
    {Normed2d(Roles(in_ptr, weight_ptr, bias_ptr, out_ptr, out_mean_ptr, out_rstd_ptr), 2, 9,
              <<out_mean_ptr, out_ptr, out_rstd_ptr>>),
     Normed2d(Roles(13, 11, 12, 10, 20, 14), 1, 5, <<20, 10, 14>>),
     Normed2d(Roles(in_ptr, weight_ptr, 12, 10, 20, 14), 1, 3, <<10, 20, 14>>)}

RmsNormed(input, weight, inv, out, M, N, outputs) ==
    [shapes |-> (input :> <<M, N>>) @@ (out :> <<M, N>>) @@ (weight :> <<N>>) @@ (inv :> <<M>>),
     ops |-> <<>>, outputs |-> outputs, meant |-> [input |-> input, weight |-> weight, inv |-> inv, out |-> out]]
RmsNorms == {RmsNormed(3, 4, 1, 2, 2, 9, <<2, 1>>), RmsNormed(2, 1, 3, 4, 1, 3, <<3, 4>>)}

PluginLoops ==
    LET elementwise(x) == lowerElementwiseF32(WithOutput(x))
        sum(x) == lowerRowSum(x[1], x[2])
        gather(x) == lowerGather2dLike(<<2, 3>>, x[1], x[2])
        concat(x) == lowerConcat2d(x[1], x[2], x[3])
        subgroup(width) == subgroupAllReduceSumF32(width) IN
    Programs("lowerElementwiseF32", Elementwise, elementwise) @@ Programs("lowerDiag2d", Diagonals, lowerDiag2d)
    @@ Programs("lowerRowSum", {<<2, 3>>}, sum)
    @@ Programs("lowerGather2dLike", {<<[i \in Upto(3) |-> i % 2], [i \in Upto(3) |-> 2 - i]>>}, gather)
    @@ Programs("lowerConcat2d", {<<<<1, 3>>, <<2, 3>>, 0>>, <<<<2, 1>>, <<2, 3>>, 1>>}, concat)
    @@ <<"warpAllReduceSumF32">> :> warpAllReduceSumF32 @@ <<"warpAllReduceMaxF32">> :> warpAllReduceMaxF32
    @@ Programs("subgroupAllReduceSumF32", {1, 2, 4}, subgroup)

PluginNorms ==
    Launches("lowerCudaLayerNormPersistentAxis1V1", LayerNorms, lowerCudaLayerNormPersistentAxis1V1)
    @@ Launches("lowerCudaBatchNorm2dChannelwiseV1",
                {<<2, 2, 2>>, <<4, 1, 1>>, <<1, 2, 3>>, <<3, 2, 2>>, <<2, 1, 5>>}, lowerCudaBatchNorm2dChannelwiseV1)
    @@ Launches("lowerCudaRmsNorm2dRowwiseV1", RmsNorms, lowerCudaRmsNorm2dRowwiseV1)
    @@ Launches("lowerCudaRmsNorm2dRowwiseV2", RmsNorms, lowerCudaRmsNorm2dRowwiseV2)

\* Two warps, three tiles along K: the first buffer is used a second time.
Tiling(M, N, K, bm, bn, bk, async) == [M |-> M, N |-> N, K |-> K, bm |-> bm, bn |-> bn, bk |-> bk, async |-> async]
Tilings == {p \in {Tiling(4, 4, 12, 4, 2, 4, TRUE), Tiling(2, 4, 6, 2, 4, 2, FALSE)} : Tiled(p)}

\* Operands aside: the bias, the masks and a vector of another length, in either order of their names.
Argument(name, type, length) == [name |-> name, type |-> type, length |-> length]
Meant(bias, rows, cols) == [bias |-> bias, rows |-> rows, cols |-> cols]
Epilogues ==
    {[tiles |-> Tiling(4, 2, 4, 4, 2, 2, FALSE), warpEpilogue |-> FALSE, meant |-> Meant(1, 4, 2), mask |-> (4 :> {0, 3}) @@ (2 :> {1}),
      args |-> <<Argument(1, "f32", 2), Argument(2, "bool", 2), Argument(3, "f32", 3), Argument(4, "bool", 4)>>],
     [tiles |-> Tiling(4, 2, 8, 4, 2, 4, TRUE), warpEpilogue |-> TRUE, meant |-> Meant(3, 1, 2), mask |-> (1 :> {1, 2}) @@ (2 :> {0, 1}),
      args |-> <<Argument(1, "bool", 4), Argument(2, "bool", 2), Argument(3, "f32", 2)>>]}

PluginProducts ==
    LET warpV1(x) == lowerCudaAttn2dCausalSoftmaxWarpV1(x[1], x[2], x[3])
        warpV2(x) == lowerCudaAttn2dCausalSoftmaxWarpV2(x[1], x[2], x[3]) IN
    Launches("lowerCudaAiBenchMatmulMmaTF32V1", Tilings, lowerCudaAiBenchMatmulMmaTF32V1)
    @@ Launches("lowerCudaMatmulFusedEpilogue2dMmaTF32V1", Epilogues, lowerCudaMatmulFusedEpilogue2dMmaTF32V1)
    @@ Launches("lowerCudaAttn2dCausalSoftmaxWarpV1", {<<3, 2, 6>>}, warpV1)
    @@ Launches("lowerCudaAttn2dCausalSoftmaxWarpV2", {<<3, 2, 6>>}, warpV2)

\* Two tiles of keys, the second one not full; a tile for each way of loading it.
Flash(Q, KV, async, direct) == [Q |-> Q, KV |-> KV, blockKV |-> 2, scoreWarps |-> 2, async |-> async, direct |-> direct]
FlashShapes == {Flash(2, 3, FALSE, FALSE), Flash(3, 3, TRUE, FALSE), Flash(3, 4, FALSE, TRUE)}
Forward(Z, QH, QCTX, KVCTX, blockKV, tree) ==
    [Z |-> Z, QH |-> QH, QCTX |-> QCTX, KVCTX |-> KVCTX, blockKV |-> blockKV, scoreWarps |-> 2, tree |-> tree]
ForwardShapes == {Forward(1, 2, 1, 3, 2, FALSE), Forward(2, 1, 1, 3, 2, TRUE), Forward(1, 1, 2, 3, 4, TRUE)}

PluginAttentions ==
    LET masked(x) == lowerCudaMaskedAttention2dHd16KeysV1(x[1], x[2]) IN
    Launches("lowerCudaFlashAttention2dCausalSoftmaxV6", FlashShapes, lowerCudaFlashAttention2dCausalSoftmaxV6)
    @@ Launches("lowerCudaAttnFwdSoftmaxV6", ForwardShapes, lowerCudaAttnFwdSoftmaxV6)
    @@ Launches("lowerCudaMaskedAttention2dHd16KeysV1", {<<2, 3>>}, masked)

Plugin == PluginLoops @@ PluginNorms @@ PluginProducts @@ PluginAttentions
\* The seventh version's last sum races with the division by it.
PluginReducers == Programs("attn2d_causal_softmax_v7", {FlashBlock(Flash(3, 3, FALSE, FALSE), 2)}, FlashV7)
================================================================================
