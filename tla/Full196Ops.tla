------------------------------- MODULE Full196Ops -------------------------------
(***************************************************************************)
(* CudaFull196Emitter of the C++ plugin: one CUDA kernel for a whole intent.  *)
(* The kernel's threads share out the elements of every output; the code of  *)
(* an element is pulled from the op that produces it, index by index.  Each   *)
(* operator here is one op: what goes into every element of its output, an    *)
(* operand's element named with its place.  Indices count from 0, axes from 1.*)
(***************************************************************************)
EXTENDS GatherKernels

LOCAL INSTANCE SequencesExt
LOCAL INSTANCE FiniteSetsExt

Axes(shape) == [a \in DOMAIN shape |-> a]

linearizeIndices(indices, shape) ==
    FoldLeft(LAMBDA cur, axis : cur * shape[axis] + indices[axis], 0, Axes(shape))

delinearizeIndex(linear, shape) ==
    FoldRight(LAMBDA dim, got : [cur |-> got.cur \div dim, idx |-> <<got.cur % dim>> \o got.idx],
              shape, [cur |-> linear, idx |-> <<>>]).idx

\* Aligned at the last axis; an axis of extent 1 is always read at 0.
mapIndicesNumpyBroadcast(outIdx, outShape, inShape) ==
    LET lead == Len(outShape) - Len(inShape) IN
    [a \in DOMAIN inShape |-> IF inShape[a] = 1 THEN 0 ELSE outIdx[lead + a]]

loadArgElement(name, idx, shape) == <<name, linearizeIndices(idx, shape)>>

\* The linear places of a tensor.
Places(shape) == Upto(Ref!Size(shape))

(***************************************************************************)
(* The launch: thread lin0 takes the elements lin0, lin0 + stride, ... of     *)
(* every output.  outputs is a sequence of what each output reads and of what *)
(* the interpreter wants there.                                            *)
(***************************************************************************)
lowerCudaFull196GraphV1(outputs) ==
    LET total(o) == Cardinality(DOMAIN outputs[o].read)
        gridX == Max({1} \cup {CeilDiv(total(o), Width) : o \in DOMAIN outputs})
        stride == Width * gridX
        taken(lin0) == {e \in UNION {{o} \X Upto(total(o)) : o \in DOMAIN outputs} : e[2] % stride = lin0}
        by == [b \in Upto(gridX) |->
                 [e \in UNION {taken(b * Width + tid) : tid \in Upto(Width)} |-> (e[2] % stride) - b * Width]]
        elements == UNION {{o} \X DOMAIN outputs[o].want : o \in DOMAIN outputs} IN
    Launch(by, [e \in UNION {{o} \X DOMAIN outputs[o].read : o \in DOMAIN outputs} |-> outputs[e[1]].read[e[2]]],
           "sum", Sums([e \in elements |-> outputs[e[1]].want[e[2]]]))

(***************************************************************************)
(* Numbers and their types: an integer is widened with its sign, an i1        *)
(* without; narrowing keeps the low bits, also to i1.                       *)
(***************************************************************************)
BitsOf == [i1 |-> 1, i32 |-> 32, i64 |-> 64]
castScalar(v, toTy) ==
    [type |-> toTy,
     value |-> CASE v.type = toTy -> v.value
                 [] v.type = "f32" /\ toTy = "i1" -> Ref!Truth(v.value # 0)
                 [] v.type = "f32" /\ toTy \in {"i32", "i64"} -> Numpy!Truncated(v.value)
                 [] v.type # "f32" /\ toTy = "f32" -> 2 * v.value
                 [] v.type # "f32" /\ toTy # "f32" /\ v.type # toTy ->
                      IF BitsOf[v.type] < BitsOf[toTy] THEN v.value
                      ELSE IF toTy = "i1" THEN v.value % 2 ELSE Ref!Narrow(v.value)]

\* The op cast: to i1 an integer is compared with 0 instead.
emitCast(v, to) == IF to = "i1" THEN [type |-> "i1", value |-> Ref!Truth(v.value # 0)] ELSE castScalar(v, to)

ComputeType(x, y) ==
    IF "f32" \in {x.type, y.type} THEN "f32" ELSE IF "i64" \in {x.type, y.type} THEN "i64" ELSE "i32"

emitBinNumeric(op, x, y, outTy) ==
    LET computeTy == ComputeType(x, y)
        p == castScalar(x, computeTy).value
        q == castScalar(y, computeTy).value
        exact == CASE op = "add" -> p + q
                   [] op = "sub" -> p - q
                   [] op = "mul" -> IF computeTy = "f32" THEN (p * q) \div 2 ELSE p * q
                   [] op = "max" -> IF p > q THEN p ELSE q
                   [] op = "min" -> IF p < q THEN p ELSE q
        res == [type |-> computeTy, value |-> IF computeTy = "i32" THEN Ref!Narrow(exact) ELSE exact] IN
    castScalar(res, outTy)

emitAbs(x, outTy) ==
    LET f == castScalar(x, "f32").value IN castScalar([type |-> "f32", value |-> IF f < 0 THEN -f ELSE f], outTy)
emitCeil(x, outTy) ==
    LET f == castScalar(x, "f32").value IN castScalar([type |-> "f32", value |-> f + (f % 2)], outTy)

\* x - floor(x / y) * y
emitRemainder(x, y, outTy) ==
    LET f == castScalar(x, "f32").value
        g == castScalar(y, "f32").value
        flo == IF g > 0 THEN f \div g ELSE (-f) \div (-g) IN
    castScalar([type |-> "f32", value |-> f - flo * g], outTy)

emitWhere(c, x, y, outTy) ==
    LET cond == castScalar(c, "i1").value
        computeTy == IF x.type = y.type THEN x.type ELSE ComputeType(x, y) IN
    castScalar(castScalar(IF cond = 1 THEN x ELSE y, computeTy), outTy)

emitNot(x) == [type |-> "i1", value |-> 1 - castScalar(x, "i1").value]
emitAnd(x, y) == [type |-> "i1", value |-> castScalar(x, "i1").value * castScalar(y, "i1").value]

emitCompare(op, x, y) ==
    LET type == IF "f32" \in {x.type, y.type} THEN "f32" ELSE "i64"
        p == castScalar(x, type).value
        q == castScalar(y, type).value IN
    [type |-> "i1",
     value |-> Ref!Truth(CASE op = "eq" -> p = q [] op = "ne" -> p # q [] op = "lt" -> p < q
                           [] op = "le" -> p <= q [] op = "gt" -> p > q [] op = "ge" -> p >= q)]

(***************************************************************************)
(* Ops that move elements.                                                 *)
(***************************************************************************)
\* Element by element over operands of the given shapes, which may broadcast.
emitBroadcasted(shapes, outShape) ==
    [lin \in Places(outShape) |->
        LET outIdx == delinearizeIndex(lin, outShape) IN
        {loadArgElement(name, mapIndicesNumpyBroadcast(outIdx, outShape, shapes[name]), shapes[name]) :
            name \in DOMAIN shapes}]

emitReshape(inShape, outShape) ==
    [lin \in Places(outShape) |->
        {loadArgElement("x", delinearizeIndex(linearizeIndices(delinearizeIndex(lin, outShape), outShape), inShape),
                        inShape)}]

emitBroadcastInDim(inShape, outShape, bcastDims) ==
    [lin \in Places(outShape) |->
        LET outIdx == delinearizeIndex(lin, outShape) IN
        {loadArgElement("x", [a \in DOMAIN inShape |-> outIdx[bcastDims[a] + 1]], inShape)}]

emitIota(outShape, axis) ==
    [lin \in Places(outShape) |-> {<<"number", delinearizeIndex(lin, outShape)[axis]>>}]

\* A loop nest over the reduced axes, starting from the output's index on the others.
emitReduce(inShape, outShape, red, keepdims) ==
    LET kept == SelectSeq(Axes(inShape), LAMBDA a : a \notin red)
        srcAxis(a) == IF keepdims THEN a ELSE CHOOSE k \in DOMAIN kept : kept[k] = a
        baseIdx(outIdx) == [a \in DOMAIN inShape |-> IF a \in red THEN 0 ELSE outIdx[srcAxis(a)]]
        nest(base) == FoldLeft(LAMBDA at, axis : {[i EXCEPT ![axis] = iv] : i \in at, iv \in Upto(inShape[axis])},
                               {base}, SelectSeq(Axes(inShape), LAMBDA a : a \in red)) IN
    [lin \in Places(outShape) |->
        {loadArgElement("x", i, inShape) : i \in nest(baseIdx(delinearizeIndex(lin, outShape)))}]

\* One index tensor for every axis of the data, each broadcast to the output.
emitGather(dataShape, outShape, index, shapes) ==
    [lin \in Places(outShape) |->
        LET outIdx == delinearizeIndex(lin, outShape)
            at(a) == index[a][linearizeIndices(mapIndicesNumpyBroadcast(outIdx, outShape, shapes[a]), shapes[a])] IN
        {loadArgElement("x", [a \in DOMAIN dataShape |-> at(a)], dataShape)}]

\* The operand the new axis counts; the first one unless another is selected.
emitStack(inputs, outShape, axis) ==
    LET inShape == RemoveAt(outShape, axis) IN
    [lin \in Places(outShape) |->
        LET outIdx == delinearizeIndex(lin, outShape)
            which == outIdx[axis] IN
        {<<"part", IF which \in Upto(inputs) THEN which ELSE 0, linearizeIndices(RemoveAt(outIdx, axis), inShape)>>}]

\* Operand i holds the coordinates offsets[i] up to offsets[i + 1]; the last match is selected.
emitConcat(shapes, outShape, axis) ==
    LET offsets == FoldLeft(LAMBDA at, shape : Append(at, Last(at) + shape[axis]), <<0>>, shapes) IN
    [lin \in Places(outShape) |->
        LET outIdx == delinearizeIndex(lin, outShape)
            inRange(i) == offsets[i] <= outIdx[axis] /\ outIdx[axis] < offsets[i + 1]
            selected == Max({1} \cup {i \in DOMAIN shapes : inRange(i)})
            inIdx == [outIdx EXCEPT ![axis] = @ - offsets[selected]] IN
        {<<"part", selected,
           linearizeIndices(mapIndicesNumpyBroadcast(inIdx, outShape, shapes[selected]), shapes[selected])>>}]

emitPad(inShape, outShape, before) ==
    [lin \in Places(outShape) |->
        LET outIdx == delinearizeIndex(lin, outShape)
            inIdx == [a \in DOMAIN inShape |-> outIdx[a] - before[a]] IN
        IF \A a \in DOMAIN inShape : inIdx[a] >= 0 /\ inIdx[a] < inShape[a]
        THEN {loadArgElement("x", inIdx, inShape)} ELSE {<<"value", 0>>}]

emitPolar(shape) ==
    LET outShape == shape \o <<2>> IN
    [lin \in Places(outShape) |->
        LET outIdx == delinearizeIndex(lin, outShape) IN
        {loadArgElement(IF Last(outIdx) = 0 THEN "cos" ELSE "sin", Front(outIdx), shape)}]

emitKron(shA, shB) ==
    LET outShape == <<shA[1] * shB[1], shA[2] * shB[2]>> IN
    [lin \in Places(outShape) |->
        LET outIdx == delinearizeIndex(lin, outShape) IN
        {<<"product", linearizeIndices(<<outIdx[1] \div shB[1], outIdx[2] \div shB[2]>>, shA),
           linearizeIndices(<<outIdx[1] % shB[1], outIdx[2] % shB[2]>>, shB)>>}]

\* Two matrices, either of which may be stored transposed, or two stacks of matrices.
emitMatmul(p) ==
    LET shA == IF p.ta THEN <<p.b, p.k, p.m>> ELSE <<p.b, p.m, p.k>>
        shB == IF p.tb THEN <<p.b, p.n, p.k>> ELSE <<p.b, p.k, p.n>>
        outShape == <<p.b, p.m, p.n>> IN
    [lin \in Places(outShape) |->
        LET o == delinearizeIndex(lin, outShape) IN
        {<<"product", linearizeIndices(IF p.ta THEN <<o[1], kk, o[2]>> ELSE <<o[1], o[2], kk>>, shA),
           linearizeIndices(IF p.tb THEN <<o[1], o[3], kk>> ELSE <<o[1], kk, o[3]>>, shB)>> : kk \in Upto(p.k)}]

\* cumsum, cummax and cummin walk along the axis up to their own coordinate.
emitCumsum(inShape, axis) ==
    [lin \in Places(inShape) |->
        LET outIdx == delinearizeIndex(lin, inShape) IN
        {loadArgElement("x", [outIdx EXCEPT ![axis] = iv], inShape) : iv \in Upto(outIdx[axis] + 1)}]

\* Mean and squares over the axis; without keepdims the other axes are the output's.
emitStd(inShape, axis, correction) ==
    LET outShape == RemoveAt(inShape, axis)
        N == inShape[axis] IN
    [lin \in Places(outShape) |->
        LET outIdx == delinearizeIndex(lin, outShape)
            at(iv) == linearizeIndices(InsertAt(outIdx, axis, iv), inShape)
            line == {at(iv) : iv \in Upto(N)} IN
        {<<"square", at(iv2), line, Max({1, N - correction})>> : iv2 \in Upto(N)}]

emitSoftmax(inShape, axis) ==
    [lin \in Places(inShape) |->
        LET outIdx == delinearizeIndex(lin, inShape)
            at(iv) == loadArgElement("x", [outIdx EXCEPT ![axis] = iv], inShape) IN
        {<<"quotient", loadArgElement("x", outIdx, inShape), {at(iv) : iv \in Upto(inShape[axis])}>>}]

\* The first greatest or least of a row: the best so far gives way to a better one only.
emitArgmax(x, n, sign) ==
    LET better(row, best, j) == IF sign * x[row * n + j] > sign * x[row * n + best] THEN j ELSE best IN
    [row \in Upto(Cardinality(DOMAIN x) \div n) |->
        {<<"number", FoldLeft(LAMBDA best, j : better(row, best, j), 0, [j \in 1 .. n |-> j - 1])>>}]

(***************************************************************************)
(* The ops that the plugin expands into loops of their own: windows,          *)
(* scattering, selecting by a mask, order statistics, losses and attention.   *)
(* A thread repeats the search for every element it writes.                  *)
(***************************************************************************)

(***************************************************************************)
(* Convolutions walk over the channels of a group and over the window; what   *)
(* lies outside the input leaves the sum alone.  p as for Ref!Conv.         *)
(***************************************************************************)
InputChannel(oc, icg, p) == (oc \div Max({1, p.cout \div p.groups})) * (p.cin \div p.groups) + icg
WindowAt(o, k, p) == [d \in DOMAIN k |-> o[d + 2] * p.stride[d] + k[d] * p.dilation[d] - p.pad[d]]
Within(at, extents) == \A d \in DOMAIN at : at[d] >= 0 /\ at[d] < extents[d]

\* The product of input and weight at one step of the loops, or nothing.
ConvStep(o, icg, k, p) ==
    LET at == WindowAt(o, k, p)
        shIn == <<p.n, p.cin>> \o p.input
        shW == <<p.cout, p.cin \div p.groups>> \o p.window IN
    IF Within(at, p.input)
    THEN {<<"tap", linearizeIndices(<<o[1], InputChannel(o[2], icg, p)>> \o at, shIn),
            linearizeIndices(<<o[2], icg>> \o k, shW)>>} ELSE {}

emitConv1d(p) ==
    [lin \in Places(<<p.n, p.cout>> \o Ref!ConvOut(p)) |->
        LET o == delinearizeIndex(lin, <<p.n, p.cout>> \o Ref!ConvOut(p)) IN
        {<<"bias", o[2], 0>>}
        \cup UNION {ConvStep(o, icg, <<kk>>, p) : icg \in Upto(p.cin \div p.groups), kk \in Upto(p.window[1])}]

\* conv_depthwise2d has as many groups as input channels unless it says otherwise.
emitConv2d(p) ==
    [lin \in Places(<<p.n, p.cout>> \o Ref!ConvOut(p)) |->
        LET o == delinearizeIndex(lin, <<p.n, p.cout>> \o Ref!ConvOut(p)) IN
        {<<"bias", o[2], 0>>}
        \cup UNION {ConvStep(o, icg, <<kh, kw>>, p) : icg \in Upto(p.cin \div p.groups),
                                                      kh \in Upto(p.window[1]), kw \in Upto(p.window[2])}]

emitConv3d(p) ==
    [lin \in Places(<<p.n, p.cout>> \o Ref!ConvOut(p)) |->
        LET o == delinearizeIndex(lin, <<p.n, p.cout>> \o Ref!ConvOut(p)) IN
        {<<"bias", o[2], 0>>}
        \cup UNION {ConvStep(o, icg, <<kd, kh, kw>>, p) :
                      icg \in Upto(p.cin \div p.groups), kd \in Upto(p.window[1]),
                      kh \in Upto(p.window[2]), kw \in Upto(p.window[3])}]

\* Step t of a pooling window: its place in the plane.
PoolStep(o, t, p) == WindowAt(o, <<t \div p.window[2], t % p.window[2]>>, p)
Steps(p) == Upto(p.window[1] * p.window[2])

\* The count is that of the window, or of the steps inside the input.
emitAvgPool2d(p, countIncludePad) ==
    LET outShape == <<p.n, p.c>> \o Numpy!PoolShape(p) IN
    [lin \in Places(outShape) |->
        LET o == delinearizeIndex(lin, outShape)
            ok == {t \in Steps(p) : Within(PoolStep(o, t, p), p.input)}
            cnt == IF countIncludePad THEN p.window[1] * p.window[2] ELSE Cardinality(ok) IN
        IF cnt = 0 THEN {}
        ELSE {<<"x", linearizeIndices(<<o[1], o[2]>> \o PoolStep(o, t, p), <<p.n, p.c>> \o p.input), cnt>> : t \in ok}]

\* A step takes over when its value is greater, or equal at a smaller place.
emitMaxPool2d(p, x, select) ==
    LET outShape == <<p.n, p.c>> \o Numpy!PoolShape(p)
        H == p.input[1]
        W == p.input[2] IN
    [lin \in Places(outShape) |->
        LET o == delinearizeIndex(lin, outShape)
            value(i) == x[linearizeIndices(<<o[1], o[2], i \div W, i % W>>, <<p.n, p.c, H, W>>)]
            step(best, t) ==
              LET at == PoolStep(o, t, p)
                  candI == at[1] * W + at[2] IN
              IF ~Within(at, p.input) THEN best
              ELSE IF best = <<>> \/ value(candI) > value(best[1]) \/ (value(candI) = value(best[1]) /\ candI < best[1])
                   THEN <<candI>> ELSE best
            bestI == FoldLeft(step, <<>>, [t \in 1 .. Cardinality(Steps(p)) |-> t - 1])[1] IN
        {<<"number", IF select = "indices" THEN bestI ELSE value(bestI)>>}]

emitUpsampleNearest1d(n, c, IL, OL) ==
    [lin \in Places(<<n, c, OL>>) |->
        LET o == delinearizeIndex(lin, <<n, c, OL>>) IN
        {loadArgElement("x", <<o[1], o[2], (o[3] * IL) \div OL>>, <<n, c, IL>>)}]

emitUpsampleNearest2d(n, c, input, output) ==
    [lin \in Places(<<n, c>> \o output) |->
        LET o == delinearizeIndex(lin, <<n, c>> \o output) IN
        {loadArgElement("x", <<o[1], o[2], (o[3] * input[1]) \div output[1], (o[4] * input[2]) \div output[2]>>,
                        <<n, c>> \o input)}]

emitGlu(m, half) ==
    [lin \in Places(<<m, half>>) |->
        LET o == delinearizeIndex(lin, <<m, half>>) IN
        {loadArgElement("value", o, <<m, 2 * half>>), loadArgElement("gate", <<o[1], o[2] + half>>, <<m, 2 * half>>)}]

(***************************************************************************)
(* Scattering, seen from the output: an element looks for what is written to  *)
(* it.                                                                     *)
(***************************************************************************)
emitSelectScatter(shape, dim, index) ==
    [lin \in Places(shape) |->
        LET o == delinearizeIndex(lin, shape) IN
        IF o[dim] = index THEN {loadArgElement("src", RemoveAt(o, dim), RemoveAt(shape, dim))}
        ELSE {loadArgElement("inp", o, shape)}]

emitSliceScatter(shape, p) ==
    LET srcShape == [shape EXCEPT ![p.dim] = Numpy!SliceLength(p)] IN
    [lin \in Places(shape) |->
        LET o == delinearizeIndex(lin, shape)
            off == o[p.dim] - p.start
            inRange == o[p.dim] >= p.start /\ o[p.dim] < p.end IN
        IF inRange /\ off % p.step = 0
        THEN {loadArgElement("src", [o EXCEPT ![p.dim] = off \div p.step], srcShape)}
        ELSE {loadArgElement("inp", o, shape)}]

\* The last match along the axis wins.
emitScatter(shape, dim, index) ==
    [lin \in Places(shape) |->
        LET o == delinearizeIndex(lin, shape)
            at(j) == linearizeIndices([o EXCEPT ![dim] = j], shape)
            match == {j \in Upto(shape[dim]) : index[at(j)] = o[dim]} IN
        IF match = {} THEN {loadArgElement("inp", o, shape)} ELSE {<<"src", at(Max(match))>>}]

emitIndexAdd(shape, axis, index) ==
    LET srcShape == [shape EXCEPT ![axis] = Len(index)] IN
    [lin \in Places(shape) |->
        LET o == delinearizeIndex(lin, shape) IN
        {loadArgElement("inp", o, shape)}
        \cup {loadArgElement("src", [o EXCEPT ![axis] = i], srcShape) :
                i \in {j \in Upto(Len(index)) : index[j + 1] = o[axis]}}]

emitIndexPut(shape, rows, cols, accumulate) ==
    [lin \in Places(shape) |->
        LET o == delinearizeIndex(lin, shape)
            match == {i \in DOMAIN rows : rows[i] = o[1] /\ cols[i] = o[2]}
            base == loadArgElement("inp", o, shape) IN
        IF accumulate THEN {base} \cup {<<"src", i - 1>> : i \in match}
        ELSE {IF match = {} THEN base ELSE <<"src", Max(match) - 1>>}]

\* The element whose rank among the selected ones is the output's place.
emitMaskedSelect(mask) ==
    LET cnt(lin) == Cardinality({l \in Upto(lin) : mask[l] # 0}) IN
    [target \in Upto(cnt(Cardinality(DOMAIN mask))) |->
        {<<"x", lin>> : lin \in {l \in DOMAIN mask : mask[l] # 0 /\ cnt(l) = target}}]

emitMaskedScatter(mask) ==
    [lin \in DOMAIN mask |->
        LET rank == Cardinality({l \in Upto(lin) : mask[l] # 0}) IN
        {IF mask[lin] # 0 THEN <<"src", rank>> ELSE <<"inp", lin>>}]

(***************************************************************************)
(* Order statistics by counting: an element belongs at the place given by the *)
(* number of those that come before it.                                    *)
(***************************************************************************)
Before(w, v, descending) == IF descending THEN w > v ELSE w < v
emitSort(row, descending, stable) ==
    LET rank(j) == Cardinality({k \in DOMAIN row : \/ Before(row[k], row[j], descending)
                                                   \/ stable /\ row[k] = row[j] /\ k < j})
        here(pos) == {j \in DOMAIN row : rank(j) = pos} IN
    [pos \in Upto(Len(row)) |-> {<<"number", IF here(pos) = {} THEN 0 ELSE row[Min(here(pos))]>>}]

emitUnique(row) ==
    LET firstOcc(k) == \A t \in 1 .. k - 1 : row[t] # row[k]
        distinctLess(j) == Cardinality({k \in DOMAIN row : row[k] < row[j] /\ firstOcc(k)})
        match(u) == {j \in DOMAIN row : firstOcc(j) /\ distinctLess(j) = u} IN
    [u \in Upto(Cardinality({k \in DOMAIN row : firstOcc(k)})) |-> {<<"number", row[Min(match(u))]>>}]

\* Rows of two: the coordinates of the non-zero element with that rank.
emitNonzero(x, N) ==
    LET nz(l) == x[l] # 0
        cnt(lin) == Cardinality({l \in Upto(lin) : nz(l)})
        take(target) == CHOOSE l \in DOMAIN x : nz(l) /\ cnt(l) = target IN
    [lin \in Places(<<cnt(Cardinality(DOMAIN x)), 2>>) |->
        LET o == <<lin \div 2, lin % 2>>
            idx == delinearizeIndex(take(o[1]), <<Cardinality(DOMAIN x) \div N, N>>) IN
        {<<"number", IF o[2] = 0 THEN idx[1] ELSE idx[2]>>}]

\* The quantile q / of, times of, of a row.
emitQuantile(row, q, of) ==
    LET N == Len(row)
        kf == q * Max({1, N - 1})
        k0 == kf \div of
        k1c == Min({k0 + 1, N - 1})
        kthValue(kk) == LET at == CHOOSE pos \in Upto(N) : pos = kk IN
                        (CHOOSE number \in emitSort(row, FALSE, TRUE)[at] : TRUE)[2] IN
    [row0 \in {0} |-> {<<"number", of * kthValue(k0) + (kf % of) * (kthValue(k1c) - kthValue(k0))>>}]

(***************************************************************************)
(* Losses are of rank 0: one thread walks over everything.                   *)
(***************************************************************************)
emitMseLoss(M, N, reduction) ==
    [lin0 \in {0} |-> {<<"square", linearizeIndices(delinearizeIndex(lin, <<M, N>>), <<M, N>>),
                         IF reduction = 2 THEN 1 ELSE Max({1, M * N})>> : lin \in Upto(M * N)}]

emitNllLoss(n, c, target, ignoreIndex, reduction) ==
    LET keep == {i \in Upto(n) : target[i] # ignoreIndex}
        wsum == IF reduction = 2 THEN {} ELSE {<<i, target[i]>> : i \in keep} IN
    [lin0 \in {0} |-> {<<"loss", linearizeIndices(<<i, target[i]>>, <<n, c>>), target[i], wsum>> : i \in keep}]

emitNllLoss2d(n, c, H, W, target, ignoreIndex, reduction) ==
    LET total == n * H * W
        keep == {lin \in Upto(total) : target[lin] # ignoreIndex}
        wsum == IF reduction = 2 THEN {} ELSE {<<lin, target[lin]>> : lin \in keep}
        logit(lin) == linearizeIndices(<<(lin \div W) \div H, target[lin], (lin \div W) % H, lin % W>>, <<n, c, H, W>>) IN
    [lin0 \in {0} |-> {<<"loss", logit(lin), target[lin], wsum>> : lin \in keep}]

\* First the greatest score over the keys in view, then sum of exponentials and of weighted values.
emitSdpa(p) ==
    LET shape(rows) == <<p.b, p.h, rows, p.d>> IN
    [lin \in Places(shape(p.q)) |->
        LET o == delinearizeIndex(lin, shape(p.q))
            allow == {k \in Upto(p.k) : ~p.causal \/ k <= o[3]}
            score(k) == {<<linearizeIndices(<<o[1], o[2], o[3], dd>>, shape(p.q)),
                           linearizeIndices(<<o[1], o[2], k, dd>>, shape(p.k))>> : dd \in Upto(p.d)}
            denom == {score(k) : k \in allow} IN
        {<<"weighted", linearizeIndices(<<o[1], o[2], k, o[4]>>, shape(p.k)), score(k), denom>> : k \in allow}]
================================================================================
