----------------------------- MODULE InterpreterOps -----------------------------
(***************************************************************************)
(* What the reference interpreter (verify/interpreter.py) computes for the  *)
(* ops that move, gather and convolve: for every element of the output, the *)
(* set of the contributions that make it up.  A contribution names the      *)
(* operand and the place in it, counted row-major over the operand's shape; *)
(* a shape is a sequence of extents and an index a sequence of coordinates  *)
(* from 0.                                                                 *)
(***************************************************************************)
EXTENDS Integers, Sequences, FiniteSets

LOCAL INSTANCE SequencesExt
LOCAL INSTANCE FiniteSetsExt

Extent(n) == 0 .. n - 1
Size(shape) == FoldLeft(LAMBDA x, y : x * y, 1, shape)
Indices(shape) == {i \in [DOMAIN shape -> 0 .. Max(Range(shape) \cup {1}) - 1] :
                     \A d \in DOMAIN shape : i[d] < shape[d]}
Flat(i, shape) == FoldLeft(LAMBDA at, d : at * shape[d] + i[d], 0, [d \in DOMAIN shape |-> d])

\* The index of the l-th element of that shape.
IndexOf(l, shape) == [d \in DOMAIN shape |-> (l \div Size(SubSeq(shape, d + 1, Len(shape)))) % shape[d]]

\* The output of the given shape, row-major, whose element at index i is value(i).
RowMajor(shape, value(_)) == [l \in Extent(Size(shape)) |-> value(IndexOf(l, shape))]

\* The places of a window of the extents size over input that starts at o, in steps.
InBounds(at, input) == \A d \in DOMAIN at : at[d] \in Extent(input[d])

(***************************************************************************)
(* conv1d, conv2d, conv3d and conv_depthwise2d are one operation of torch,   *)
(* for any number of spatial dimensions.  p: n, cin, cout, groups, and the   *)
(* sequences input, window, stride, pad, dilation.                         *)
(***************************************************************************)
ConvOut(p) ==
    [d \in DOMAIN p.input |->
        (p.input[d] + 2 * p.pad[d] - p.dilation[d] * (p.window[d] - 1) - 1) \div p.stride[d] + 1]

Conv(p) ==
    LET perGroup == p.cin \div p.groups
        group(oc) == oc \div (p.cout \div p.groups)
        at(o, k) == [d \in DOMAIN k |-> o[d + 2] * p.stride[d] + k[d] * p.dilation[d] - p.pad[d]]
        taps(o) == {<<ic, k>> \in Extent(perGroup) \X Indices(p.window) : InBounds(at(o, k), p.input)}
        tap(o, t) == <<"tap",
                       Flat(<<o[1], group(o[2]) * perGroup + t[1]>> \o at(o, t[2]), <<p.n, p.cin>> \o p.input),
                       Flat(<<o[2], t[1]>> \o t[2], <<p.cout, perGroup>> \o p.window)>>
        value(o) == {<<"bias", o[2], 0>>} \cup {tap(o, t) : t \in taps(o)} IN
    RowMajor(<<p.n, p.cout>> \o ConvOut(p), value)

\* Pooling windows of 2 by 2 at stride 2, without padding.
PoolOut(p) == [d \in {1, 2} |-> (p.input[d] - 2) \div 2 + 1]
PoolWindow(o, p) == {<<2 * o[3] + k[1], 2 * o[4] + k[2]>> : k \in Indices(<<2, 2>>)}

AvgPool2d(p) ==
    LET value(o) == {<<"x", Flat(<<o[1], o[2]>> \o at, <<p.n, p.c>> \o p.input)>> : at \in PoolWindow(o, p)} IN
    RowMajor(<<p.n, p.c>> \o PoolOut(p), value)

\* The first greatest value of the window in row-major order, with its index in the plane.
MaxPool2d(p, x) ==
    LET value(o) ==
          LET places == {Flat(at, p.input) : at \in PoolWindow(o, p)}
              held(i) == x[Flat(<<o[1], o[2], i \div p.input[2], i % p.input[2]>>, <<p.n, p.c>> \o p.input)]
              best == CHOOSE i \in places : \A j \in places : held(j) < held(i) \/ (held(j) = held(i) /\ i <= j) IN
          <<held(best), best>> IN
    RowMajor(<<p.n, p.c>> \o PoolOut(p), value)

Stack(m, n) == LET value(o) == {<<"part", o[1], Flat(<<o[2], o[3]>>, <<m, n>>)>>} IN RowMajor(<<2, m, n>>, value)
Concat(m, n, k) ==
    LET value(o) == {IF o[2] < n THEN <<"part", 0, Flat(o, <<m, n>>)>>
                 ELSE <<"part", 1, Flat(<<o[1], o[2] - n>>, <<m, k>>)>>} IN
    RowMajor(<<m, n + k>>, value)
Transpose(m, n) == LET value(o) == {<<"x", Flat(<<o[2], o[1]>>, <<m, n>>)>>} IN RowMajor(<<n, m>>, value)
Diag(n, m) == LET value(o) == {<<"x", Flat(<<o[1], o[1]>>, <<n, m>>)>>}
              IN RowMajor(<<Min({n, m})>>, value)

\* real and imaginary part, of the same magnitude and angle.
Polar(m, n) ==
    LET value(o) == {<<IF o[3] = 0 THEN "cos" ELSE "sin", Flat(<<o[1], o[2]>>, <<m, n>>)>>} IN
    RowMajor(<<m, n, 2>>, value)

DiagEmbed(b, n) ==
    LET value(o) == IF o[2] = o[3] THEN {<<"x", Flat(<<o[1], o[2]>>, <<b, n>>)>>} ELSE {} IN
    RowMajor(<<b, n, n>>, value)

Kron(m, n, p, q) ==
    LET value(o) == {<<"product", Flat(<<o[1] \div p, o[2] \div q>>, <<m, n>>),
                      Flat(<<o[1] % p, o[2] % q>>, <<p, q>>)>>} IN
    RowMajor(<<m * p, n * q>>, value)

UpsampleNearest(n, c, input, output) ==
    LET from(o) == [d \in DOMAIN input |-> (o[d + 2] * input[d]) \div output[d]]
        value(o) == {<<"x", Flat(<<o[1], o[2]>> \o from(o), <<n, c>> \o input)>>} IN
    RowMajor(<<n, c>> \o output, value)

\* The left half of a row times the sigmoid of the right half.
Glu(m, half) ==
    LET value(o) == {<<"value", Flat(o, <<m, 2 * half>>)>>,
                     <<"gate", Flat(<<o[1], half + o[2]>>, <<m, 2 * half>>)>>} IN
    RowMajor(<<m, half>>, value)

\* out[oc, h, w] sums src0[ic, h, w] * src1[ic, h, w - oc].
Correlation(ic, oc, h, w) ==
    LET value(o) == IF o[3] < o[1] THEN {}
                    ELSE {<<"product", Flat(<<k, o[2], o[3]>>, <<ic, h, w>>),
                            Flat(<<k, o[2], o[3] - o[1]>>, <<ic, h, w>>)>> : k \in Extent(ic)} IN
    RowMajor(<<oc, h, w>>, value)

(***************************************************************************)
(* Bilinear doubling in fixed point with hw_fl = 7: the coordinate is the    *)
(* output's shifted left by 6; its low 7 bits are the weight of the second   *)
(* of the two neighbours, which is clamped to the edge.                     *)
(***************************************************************************)
Neighbours(o, extent) ==
    LET first == (o * 64) \div 128
        second == Min({first + 1, extent - 1})
        weight == o * 64 - first * 128 IN
    {<<"near", first, 128 - weight>>, <<"far", second, weight>>}
Resize(c, h, w) ==
    LET value(o) == {<<y[1], x[1], Flat(<<o[1], y[2], x[2]>>, <<c, h, w>>), y[3], x[3]>> :
                        y \in Neighbours(o[2], h), x \in Neighbours(o[3], w)} IN
    RowMajor(<<c, 2 * h, 2 * w>>, value)

(***************************************************************************)
(* The pixel offset[h, w] to the left of w (in whole pixels) and the one     *)
(* further left, each clipped to the row, or nothing where it lies left of   *)
(* the row.  Columns are counted in 8 bits.                                *)
(***************************************************************************)
Narrow(x) == ((x + 128) % 256) - 128
Warp(c, h, w, offset) ==
    LET value(o) ==
          LET right == Narrow(o[3] - offset[Flat(<<o[2], o[3]>>, <<h, w>>)])
              taken(side, x) == IF x < 0 THEN {}
                                ELSE {<<side, Flat(<<o[1], o[2], Min({x, w - 1})>>, <<c, h, w>>)>>} IN
          taken("right", right) \cup taken("left", Narrow(right - 1)) IN
    RowMajor(<<c, h, w>>, value)

\* x[s, b, hd, :] rotated: the two halves of a head, by the angles of position s.
Rope(seq, batch, heads, half) ==
    LET shape == <<seq, batch, heads, 2 * half>>
        value(o) ==
          LET j == o[4] % half
              first == <<o[1], o[2], o[3], j>>
              second == <<o[1], o[2], o[3], j + half>>
              angle == Flat(<<o[1], j>>, <<seq, half>>) IN
          IF o[4] < half THEN {<<"cos", Flat(first, shape), angle>>, <<"minus sin", Flat(second, shape), angle>>}
          ELSE {<<"sin", Flat(first, shape), angle>>, <<"cos", Flat(second, shape), angle>>} IN
    RowMajor(shape, value)

\* The same with heads before positions ("bhsd") or behind, and angles for each batch or for all.
RopeLayout(p, heads, layout) ==
    LET shape == IF layout = "bhsd" THEN <<p.b, heads, p.s, 2 * p.half>> ELSE <<p.b, p.s, heads, 2 * p.half>>
        value(o) ==
          LET j == o[4] % p.half
              first == Flat([o EXCEPT ![4] = j], shape)
              angle == Flat(<<IF p.cos_b = 1 THEN 0 ELSE o[1], IF layout = "bhsd" THEN o[3] ELSE o[2], j>>,
                            <<p.cos_b, p.s, p.cos_w>>) IN
          IF o[4] < p.half THEN {<<"cos", first, angle>>, <<"minus sin", first + p.half, angle>>}
          ELSE {<<"sin", first, angle>>, <<"cos", first + p.half, angle>>} IN
    RowMajor(shape, value)

\* Element i is kept or dropped by the random number of offset i.
Dropout(n) == [i \in Extent(n) |-> {<<"x", i, i>>}]

(***************************************************************************)
(* scaled_dot_product_attention over (batch, head): each output coordinate   *)
(* sums the values of the keys in view, weighted by the score of the query   *)
(* with that key, which is a sum over all coordinates.                      *)
(***************************************************************************)
Sdpa(p) ==
    LET heads == p.b * p.h
        inView(o) == {k \in Extent(p.k) : p.causal => k <= o[2]}
        value(o) == {<<"score", Flat(<<o[1], o[2], d>>, <<heads, p.q, p.d>>),
                       Flat(<<o[1], k, d>>, <<heads, p.k, p.d>>)>> : k \in inView(o), d \in Extent(p.d)}
                    \cup {<<"value", k, Flat(<<o[1], k, o[3]>>, <<heads, p.k, p.d>>)>> : k \in inView(o)} IN
    RowMajor(<<heads, p.q, p.d>>, value)

\* The distinct values of a row in order; the coordinates of its non-zero elements.
Unique(x) == SetToSortSeq(Range(x), <)
Nonzero(x, n) ==
    LET places == SetToSortSeq({i \in DOMAIN x : x[i] # 0}, <) IN
    [j \in DOMAIN places |-> <<(places[j] - 1) \div n, (places[j] - 1) % n>>]

(***************************************************************************)
(* Reductions over the last axis, and what is built from them.  A value that *)
(* is made of others is the name of its op with their places in it.         *)
(***************************************************************************)
ReduceRows(m, n, z(_)) == [r \in Extent(m) |-> {z(<<r, j>>) : j \in Extent(n)}]

Softmax(m, n) ==
    LET x(o) == <<"x", Flat(o, <<m, n>>)>>
        x_max == ReduceRows(m, n, x)
        e(o) == <<"exp", x(o), x_max[o[1]]>>
        total == ReduceRows(m, n, e)
        value(o) == {<<"quotient", e(o), total[o[1]]>>} IN
    RowMajor(<<m, n>>, value)

Matmul(a, b, m, n, k) ==
    LET value(o) == {<<"product", a, Flat(<<o[1], t>>, <<m, k>>), b, Flat(<<t, o[2]>>, <<k, n>>)>> :
                        t \in Extent(k)} IN
    RowMajor(<<m, n>>, value)

\* The first place of the least and of the greatest value of a row.
ArgMin(row) == CHOOSE i \in DOMAIN row : \A j \in DOMAIN row : row[i] < row[j] \/ (row[i] = row[j] /\ i <= j)
ArgMax(row) == CHOOSE i \in DOMAIN row : \A j \in DOMAIN row : row[i] > row[j] \/ (row[i] = row[j] /\ i <= j)

\* data[rows, cols], index by index.
GatherAt(rows, cols, shape) == [i \in DOMAIN rows |-> {<<"x", Flat(<<rows[i], cols[i]>>, shape)>>}]

\* Rows below one another.
ConcatRows(m, k, n) ==
    LET value(o) == {IF o[1] < m THEN <<"part", 0, Flat(o, <<m, n>>)>>
                     ELSE <<"part", 1, Flat(<<o[1] - m, o[2]>>, <<k, n>>)>>} IN
    RowMajor(<<m + k, n>>, value)

CountNonzero(x) == Cardinality({i \in DOMAIN x : x[i] # 0})

\* The element of an operand that spans the axes dims of an output, at index o of the output.
AtIndex(operand, o, extents) ==
    LET d == operand.dims IN
    operand.at[Flat([k \in DOMAIN d |-> o[d[k] + 1]], [k \in DOMAIN d |-> extents[d[k] + 1]])]

\* What numpy computes element by element, on integers of 8 bits or on numbers.
Truth(p) == IF p THEN 1 ELSE 0
Elementwise(op, a, b) ==
    CASE op = "add" -> Narrow(a + b)
      [] op = "sub" -> Narrow(a - b)
      [] op = "mul" -> Narrow(a * b)
      [] op = "max" -> Max({a, b})
      [] op = "min" -> Min({a, b})
      [] op = "remainder" -> CHOOSE r \in -128 .. 127 : /\ \E q \in -128 .. 128 : a = q * b + r
                                                        /\ IF b > 0 THEN 0 <= r /\ r < b ELSE b < r /\ r <= 0
      [] op = "eq" -> Truth(a = b)
      [] op = "ne" -> Truth(a # b)
      [] op = "lt" -> Truth(a < b)
      [] op = "le" -> Truth(a <= b)
      [] op = "gt" -> Truth(a > b)
      [] op = "ge" -> Truth(a >= b)
      [] op = "and" -> Truth(a # 0 /\ b # 0)
      [] op = "or" -> Truth(a # 0 \/ b # 0)
      [] op = "not" -> Truth(a = 0)
      [] op = "bool" -> Truth(a # 0)
      [] op = "where" -> IF a # 0 THEN b ELSE -b
      [] op = "relu" -> Max({a, 0})
      [] op = "abs" -> IF a < 0 THEN -a ELSE a
      [] op = "neg" -> -a

(***************************************************************************)
(* numpy's broadcasting: an operand of extent 1 in a dimension has the same  *)
(* element for every coordinate of it.                                     *)
(***************************************************************************)
Spread(name, o, shape) == <<name, Flat([d \in DOMAIN shape |-> IF shape[d] = 1 THEN 0 ELSE o[d]], shape)>>
Broadcast(shapes, out) ==
    LET value(o) == {Spread(name, o, shapes[name]) : name \in DOMAIN shapes} IN RowMajor(out, value)

\* The dimensions of the input become dims of the output; the others are of extent 1.
BroadcastInDim(shape, out, dims) ==
    LET new_shape == [d \in DOMAIN out |-> IF d - 1 \in Range(dims)
                                           THEN shape[CHOOSE i \in DOMAIN dims : dims[i] = d - 1] ELSE 1]
        value(o) == {Spread("x", o, new_shape)} IN
    RowMajor(out, value)

\* Dimension d of the output is dimension perm[d] of the input.
TransposeBy(shape, perm) ==
    LET value(o) == {<<"x", Flat([d \in DOMAIN shape |-> o[CHOOSE e \in DOMAIN perm : perm[e] = d - 1]], shape)>>} IN
    RowMajor([d \in DOMAIN perm |-> shape[perm[d] + 1]], value)

\* data[idxs], the index arrays broadcast to the output's shape; at[a] are the indices along axis a.
GatherAll(shape, out, at, shapes) ==
    LET value(o) == {<<"x", Flat([a \in DOMAIN shape |-> at[a][Spread("index", o, shapes[a])[2]]], shape)>>} IN
    RowMajor(out, value)

\* Product of stacks of matrices; ta and tb swap the last two axes of an operand.
MatmulOf(b, m, n, k, ta, tb) ==
    LET left(o, t) == IF ta THEN Flat(<<o[1], t, o[2]>>, <<b, k, m>>) ELSE Flat(<<o[1], o[2], t>>, <<b, m, k>>)
        right(o, t) == IF tb THEN Flat(<<o[1], o[3], t>>, <<b, n, k>>) ELSE Flat(<<o[1], t, o[3]>>, <<b, k, n>>)
        value(o) == {<<"product", left(o, t), right(o, t)>> : t \in Extent(k)} IN
    RowMajor(<<b, m, n>>, value)
================================================================================
