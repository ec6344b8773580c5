--------------------------- MODULE InterpreterTensors ---------------------------
(***************************************************************************)
(* More of the reference interpreter (verify/interpreter.py): numbers of      *)
(* several types, reductions over any axes, joining, padding and scattering, *)
(* sorting, pooling windows of any size, and the losses.                     *)
(***************************************************************************)
EXTENDS InterpreterOps

LOCAL INSTANCE SequencesExt
LOCAL INSTANCE FiniteSetsExt

(***************************************************************************)
(* A number has a type: i1, i32 (of 8 bits here), i64 or f32 (counted in      *)
(* halves).                                                                *)
(***************************************************************************)
Types == <<"i1", "i32", "i64", "f32">>
Rank(type) == CHOOSE r \in DOMAIN Types : Types[r] = type
Truncated(halves) == IF halves < 0 THEN -((-halves) \div 2) ELSE halves \div 2

astype(v, type) ==
    LET whole == IF v.type = "f32" THEN Truncated(v.value) ELSE v.value IN
    [type |-> type,
     value |-> CASE type = "i1" -> Truth(v.value # 0)
                 [] type = "i32" -> Narrow(whole)
                 [] type = "i64" -> whole
                 [] type = "f32" -> IF v.type = "f32" THEN v.value ELSE 2 * v.value]

\* numpy computes in the wider of the operands' types.
Promoted(a, b) == IF Rank(a.type) < Rank(b.type) THEN b.type ELSE a.type
NumBin(op, a, b) ==
    LET type == Promoted(a, b)
        x == astype(a, type).value
        y == astype(b, type).value
        exact == CASE op = "add" -> x + y
                   [] op = "sub" -> x - y
                   [] op = "mul" -> IF type = "f32" THEN (x * y) \div 2 ELSE x * y
                   [] op = "max" -> Max({x, y})
                   [] op = "min" -> Min({x, y})
                   [] op = "remainder" -> Elementwise("remainder", x, y) IN
    [type |-> type, value |-> IF type = "i32" THEN Narrow(exact) ELSE exact]

Compared(op, a, b) ==
    LET type == Promoted(a, b) IN
    [type |-> "i1", value |-> Elementwise(op, astype(a, type).value, astype(b, type).value)]

Where(c, x, y) == astype(IF c.value # 0 THEN x ELSE y, Promoted(x, y))
Absolute(v) == [v EXCEPT !.value = IF @ < 0 THEN -@ ELSE @]
Ceiling(v) == [v EXCEPT !.value = 2 * (-((-@) \div 2))]

\* Integers of 8 bits as sets of bits.
Bits(a) == {i \in 0 .. 7 : (a \div 2 ^ i) % 2 = 1}
OnBits(op, a, b) ==
    CASE op = "bitwise_and" -> CHOOSE n \in -128 .. 127 : Bits(n) = Bits(a) \cap Bits(b)
      [] op = "bitwise_or" -> CHOOSE n \in -128 .. 127 : Bits(n) = Bits(a) \cup Bits(b)
      [] op = "bitwise_left_shift" -> Narrow(a * 2 ^ b)
      [] op = "bitwise_right_shift" -> a \div 2 ^ b
      [] op = "bitwise_not" -> -a - 1

\* What an op makes of the numbers v; a function of reals is left as its name and its arguments.
Ufunc(op, v, to) ==
    CASE op \in {"add", "sub", "mul", "max", "min", "remainder"} -> NumBin(op, v[1], v[2])
      [] op \in {"eq", "ne", "lt", "le", "gt", "ge"} -> Compared(op, v[1], v[2])
      [] op = "where" -> Where(v[1], v[2], v[3])
      [] op = "cast" -> astype(v[1], to)
      [] op = "identity" -> v[1]
      [] op \in {"and", "not"} -> [type |-> "i1", value |-> Elementwise(op, v[1].value, v[Len(v)].value)]
      [] op = "abs" -> Absolute(v[1])
      [] op = "neg" -> [v[1] EXCEPT !.value = -@]
      [] op = "relu" -> [v[1] EXCEPT !.value = Max({@, 0})]
      [] op = "ceil" -> Ceiling(v[1])
      [] op = "floor" -> [v[1] EXCEPT !.value = 2 * (@ \div 2)]
      [] op \in {"bitwise_and", "bitwise_or", "bitwise_left_shift", "bitwise_right_shift", "bitwise_not"} ->
           [v[1] EXCEPT !.value = OnBits(op, @, v[Len(v)].value)]
      [] op \in {"div", "pow", "exp", "log", "sqrt", "rsqrt", "erf", "sin", "cos", "tan", "tanh", "acos", "atan"} ->
           [type |-> "f32", value |-> <<op>> \o [k \in DOMAIN v |-> astype(v[k], "f32").value]]

(***************************************************************************)
(* A reduction over the axes dims, kept with extent 1 or dropped: an element  *)
(* is made of those of the input that agree with it on the other axes.      *)
(***************************************************************************)
Without(i, dims) ==
    FoldLeft(LAMBDA kept, d : IF d \in dims THEN kept ELSE Append(kept, i[d]), <<>>, [d \in DOMAIN i |-> d])
Reduced(i, dims, keepdims, kept) ==
    IF keepdims THEN [d \in DOMAIN i |-> IF d \in dims THEN kept ELSE i[d]] ELSE Without(i, dims)
ReducedShape(shape, dims, keepdims) == Reduced(shape, dims, keepdims, 1)
Reduce(shape, dims, keepdims) ==
    LET value(o) == {<<"x", Flat(i, shape)>> : i \in {j \in Indices(shape) : Reduced(j, dims, keepdims, 0) = o}} IN
    RowMajor(ReducedShape(shape, dims, keepdims), value)

\* The elements of that axis up to and including the output's own.
Accumulate(shape, axis) ==
    LET value(o) == {<<"x", Flat([o EXCEPT ![axis] = k], shape)>> : k \in 0 .. o[axis]} IN RowMajor(shape, value)

\* Along any axis: the element's exponential over the sum of those of its line.
SoftmaxAlong(shape, axis) ==
    LET line(o) == {<<"x", Flat([o EXCEPT ![axis] = k], shape)>> : k \in Extent(shape[axis])}
        value(o) == {<<"quotient", <<"x", Flat(o, shape)>>, line(o)>>} IN
    RowMajor(shape, value)

\* Squared distances from the mean of a line, over its length less the correction.
Std(shape, axis, correction) ==
    LET line(o) == {Flat(i, shape) : i \in {j \in Indices(shape) : Without(j, {axis}) = o}}
        value(o) == {<<"square", at, line(o), shape[axis] - correction>> : at \in line(o)} IN
    RowMajor(Without(shape, {axis}), value)

Reshape(shape) == [l \in Extent(Size(shape)) |-> {<<"x", l>>}]
Iota(shape, axis) == LET value(o) == {<<"number", o[axis]>>} IN RowMajor(shape, value)

StackAlong(count, shape, axis) ==
    LET out == SubSeq(shape, 1, axis - 1) \o <<count>> \o SubSeq(shape, axis, Len(shape))
        value(o) == {<<"part", o[axis], Flat(Without(o, {axis}), shape)>>} IN
    RowMajor(out, value)

\* The parts one behind the other: part p holds the coordinates from start(p) on.
ConcatAlong(shapes, axis) ==
    LET start(p) == FoldLeft(LAMBDA sum, q : sum + shapes[q][axis], 0, [q \in 1 .. p - 1 |-> q])
        out == [shapes[1] EXCEPT ![axis] = start(Len(shapes) + 1)]
        part(o) == CHOOSE p \in DOMAIN shapes : start(p) <= o[axis] /\ o[axis] < start(p + 1)
        value(o) == {<<"part", part(o), Flat([o EXCEPT ![axis] = @ - start(part(o))], shapes[part(o)])>>} IN
    RowMajor(out, value)

\* A frame of before[d] and after[d] elements of the same value.
PadShape(shape, before, after) == [d \in DOMAIN shape |-> before[d] + shape[d] + after[d]]
Pad(shape, before, after) ==
    LET value(o) == LET i == [d \in DOMAIN shape |-> o[d] - before[d]] IN
                    IF InBounds(i, shape) THEN {<<"x", Flat(i, shape)>>} ELSE {<<"value", 0>>} IN
    RowMajor(PadShape(shape, before, after), value)

(***************************************************************************)
(* Writing into a copy of the input: the writes are a sequence of index and   *)
(* place in the source, of which the last to an element stays; or they add.  *)
(***************************************************************************)
Written(shape, writes, adding) ==
    LET at(o) == {w \in DOMAIN writes : writes[w][1] = o}
        value(o) == IF adding THEN {<<"inp", Flat(o, shape)>>} \cup {<<"src", writes[w][2]>> : w \in at(o)}
                    ELSE IF at(o) = {} THEN {<<"inp", Flat(o, shape)>>} ELSE {<<"src", writes[Max(at(o))][2]>>} IN
    RowMajor(shape, value)

RowMajorWrites(shape) == [l \in 1 .. Size(shape) |-> IndexOf(l - 1, shape)]
ScatterInto(shape, dim, index) ==
    LET from == RowMajorWrites(shape) IN
    Written(shape, [l \in DOMAIN from |-> <<[from[l] EXCEPT ![dim] = index[l - 1]], l - 1>>], FALSE)

SelectScatter(shape, dim, index) ==
    LET from == RowMajorWrites(Without(shape, {dim}))
        to(i) == SubSeq(i, 1, dim - 1) \o <<index>> \o SubSeq(i, dim, Len(i)) IN
    Written(shape, [l \in DOMAIN from |-> <<to(from[l]), l - 1>>], FALSE)

\* The coordinates start, start + step, ... of that dimension below end.
SliceLength(p) == (p.end - p.start + p.step - 1) \div p.step
SliceScatter(shape, p) ==
    LET from == RowMajorWrites([shape EXCEPT ![p.dim] = SliceLength(p)]) IN
    Written(shape, [l \in DOMAIN from |-> <<[from[l] EXCEPT ![p.dim] = p.start + @ * p.step], l - 1>>], FALSE)

IndexAdd(shape, axis, index) ==
    LET from == RowMajorWrites([shape EXCEPT ![axis] = Len(index)]) IN
    Written(shape, [l \in DOMAIN from |-> <<[from[l] EXCEPT ![axis] = index[@ + 1]], l - 1>>], TRUE)

IndexPut(shape, rows, cols, accumulate) ==
    Written(shape, [l \in DOMAIN rows |-> <<<<rows[l], cols[l]>>, l - 1>>], accumulate)

\* The places that a mask over the input selects, in order.
Selected(mask) == SetToSortSeq({l \in DOMAIN mask : mask[l] # 0}, <)
MaskedSelect(mask) == [l \in Extent(Len(Selected(mask))) |-> {<<"x", Selected(mask)[l + 1]>>}]
MaskedScatter(shape, mask) ==
    Written(shape, [w \in DOMAIN Selected(mask) |-> <<IndexOf(Selected(mask)[w], shape), w - 1>>], FALSE)

\* Rows of numbers in order, or in the opposite order.
Sorted(row, descending) == SortSeq(row, LAMBDA v, w : IF descending THEN v > w ELSE v < w)

\* The value at q / of of the way through a row in order, between two neighbours, times of.
Quantile(row, q, of) ==
    LET at == q * (Len(row) - 1)
        low == at \div of
        v(k) == Sorted(row, FALSE)[Min({k, Len(row) - 1}) + 1] IN
    of * v(low) + (at % of) * (v(low + 1) - v(low))

(***************************************************************************)
(* Pooling with any window, stride, padding and (for the greatest) dilation.  *)
(***************************************************************************)
PoolShape(p) == [d \in {1, 2} |->
                    (p.input[d] + 2 * p.pad[d] - p.dilation[d] * (p.window[d] - 1) - 1) \div p.stride[d] + 1]
Pooled(o, p) ==
    {i \in {[d \in {1, 2} |-> o[d + 2] * p.stride[d] + k[d] * p.dilation[d] - p.pad[d]] : k \in Indices(p.window)} :
        InBounds(i, p.input)}

\* The mean of the window, over all its places or over those inside the input.
AveragePool(p, countIncludePad) ==
    LET places(o) == {Flat(<<o[1], o[2]>> \o i, <<p.n, p.c>> \o p.input) : i \in Pooled(o, p)}
        denom(o) == IF countIncludePad THEN Size(p.window) ELSE Max({Cardinality(Pooled(o, p)), 1})
        value(o) == {<<"x", l, denom(o)>> : l \in places(o)} IN
    RowMajor(<<p.n, p.c>> \o PoolShape(p), value)

MaximumPool(p, x, select) ==
    LET held(o, i) == x[Flat(<<o[1], o[2]>> \o i, <<p.n, p.c>> \o p.input)]
        best(o) == CHOOSE i \in Pooled(o, p) : \A j \in Pooled(o, p) :
                     \/ held(o, j) < held(o, i)
                     \/ held(o, j) = held(o, i) /\ Flat(i, p.input) <= Flat(j, p.input)
        value(o) == {<<"number", IF select = "indices" THEN Flat(best(o), p.input) ELSE held(o, best(o))>>} IN
    RowMajor(<<p.n, p.c>> \o PoolShape(p), value)

(***************************************************************************)
(* Losses, summed or averaged over all elements or over the weights of the    *)
(* targets that are not ignored.                                           *)
(***************************************************************************)
MseLoss(size, reduction) ==
    {<<"square", l, IF reduction = 1 THEN size ELSE 1>> : l \in Extent(size)}

\* target[l] is the class of place l of the spatial extents space; the logits are n by c by space.
NllLoss(n, c, space, target, ignore_index, reduction) ==
    LET shape == <<n>> \o space
        valid == {l \in DOMAIN target : target[l] # ignore_index}
        logit(l) == LET i == IndexOf(l, shape) IN Flat(<<i[1], target[l]>> \o Tail(i), <<n, c>> \o space)
        over == IF reduction = 1 THEN {<<l, target[l]>> : l \in valid} ELSE {} IN
    {<<"loss", logit(l), target[l], over>> : l \in valid}

Sdpa4d(p) ==
    LET shape(rows) == <<p.b, p.h, rows, p.d>>
        keys(o) == {k \in Extent(p.k) : p.causal => k <= o[3]}
        score(o, k) == {<<Flat(<<o[1], o[2], o[3], d>>, shape(p.q)), Flat(<<o[1], o[2], k, d>>, shape(p.k))>> :
                           d \in Extent(p.d)}
        value(o) == {<<"weighted", Flat(<<o[1], o[2], k, o[4]>>, shape(p.k)), score(o, k),
                       {score(o, j) : j \in keys(o)}>> : k \in keys(o)} IN
    RowMajor(shape(p.q), value)
================================================================================
