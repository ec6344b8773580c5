--------------------------------- MODULE RvvOps ---------------------------------
(***************************************************************************)
(* The C runtime of the RVV backend (runtime/intentir_ops.c), in the build   *)
(* with OpenMP and vector instructions.  A call runs its loop as a parallel  *)
(* region: the threads of a team take their shares of the iterations and     *)
(* meet at its end.  An iteration goes along its row in strips of at most    *)
(* Lanes elements, and writes the cells of the output it is given by.        *)
(***************************************************************************)
EXTENDS CpuKernels

LOCAL INSTANCE SequencesExt
LOCAL INSTANCE FiniteSetsExt

CONSTANTS
    Lanes,      \* elements of a vector register
    Large,      \* the number of elements from which a loop is shared (16384 or 4096)
    Panel,          \* columns below which a panel of a product is not split (32)
    Addressable     \* elements of a tensor whose offsets fit 32 bits (2^30)

ASSUME LanesAssumption == Lanes \in Nat \ {0} /\ Large \in Nat \ {0}
ASSUME PanelAssumption == Panel \in Nat \ {0} /\ Addressable \in Nat

(***************************************************************************)
(* Shares of n iterations: those of schedule(static) differ by one at most; *)
(* the element-wise loops cut the array into equal chunks themselves.        *)
(***************************************************************************)
Team(parallel) == IF parallel THEN Width ELSE 1
Static(n, nt) ==
    LET first(t) == t * (n \div nt) + Min({t, n % nt}) IN
    [t \in Ts |-> IF t < nt THEN first(t) .. first(t + 1) - 1 ELSE {}]
Chunks_fault(n, nt) ==      \* rounded down
    LET chunk == n \div nt IN
    [t \in Ts |-> IF t < nt THEN t * chunk .. Min({(t + 1) * chunk, n}) - 1 ELSE {}]
Chunks(n, nt) ==
    LET chunk == CeilDiv(n, nt) IN
    [t \in Ts |-> IF t < nt THEN t * chunk .. Min({(t + 1) * chunk, n}) - 1 ELSE {}]

\* A region in which iteration i leaves in its cells what iteration(i) gives.
Region(share, iteration(_)) ==
    LET is == UNION {share[t] : t \in Ts}
        leaves == [i \in is |-> iteration(i)]
        cells == UNION {DOMAIN leaves[i] : i \in is}
        value == [c \in cells |-> leaves[CHOOSE i \in is : c \in DOMAIN leaves[i]][c]] IN
    [Put(Ts, [c \in cells |-> 0], value)
        EXCEPT !.store = [t \in Ts |-> UNION {DOMAIN leaves[i] : i \in share[t]}]]
Runs(share, iteration(_), expected) ==
    [Leaving(Ts, <<Region(share, iteration)>>, Sums(expected))
        EXCEPT !.cells = @ \cup DOMAIN expected]     \* what no iteration writes stays unwritten
SharedRows(n, least, iteration(_), expected) == Runs(Static(n, Team(n >= least)), iteration, Output("y", expected))
Alone1(n, iteration(_), expected) == Runs(Static(n, 1), iteration, Output("y", expected))

\* The strips of n elements: for each, the elements by lane.
Strips(n) ==
    [s \in 1 .. CeilDiv(n, Lanes) |->
        [l \in Upto(Min({Lanes, n - (s - 1) * Lanes})) |-> (s - 1) * Lanes + l]]
Strided(n) == UNION {Range(strip) : strip \in Range(Strips(n))}

(***************************************************************************)
(* A vector accumulator takes a strip in its first lanes.  The lanes past    *)
(* the strip are agnostic: the machine may leave them or fill them with      *)
(* ones, so they count for nothing (README, Known disagreements).           *)
(***************************************************************************)
Agnostic == <<"agnostic">>
Accumulate(acc, strip, z) ==
    [l \in DOMAIN acc |-> IF l \in DOMAIN strip THEN acc[l] \cup {z[strip[l]]} ELSE {Agnostic}]
Reduce(n, z) ==
    UNION Range(FoldLeft(LAMBDA acc, strip : Accumulate(acc, strip, z),
                         [l \in Upto(Min({Lanes, n})) |-> {}], Strips(n)))

\* The elements of a row of n from base on, by their place in the row.
Row(base, n) == [k \in Upto(n) |-> <<"x", base + k>>]

intentir_reduce_sum_2d_axis1_f32(M, K) ==
    LET row(m) == Output("y", [i \in {m} |-> Reduce(K, Row(m * K, K))])
        x(o) == <<"x", Ref!Flat(o, <<M, K>>)>> IN
    SharedRows(M, 4, row, Ref!ReduceRows(M, K, x))

intentir_reduce_sum_4d_axis23_f32(N, G, GS, HW) ==
    LET len == GS * HW
        group(i) == Output("y", [j \in {(i \div G) * G + (i % G)} |-> Reduce(len, Row(j * len, len))])
        value(o) == {<<"x", Ref!Flat(o \o q, <<N, G, GS, HW>>)>> : q \in Ref!Indices(<<GS, HW>>)} IN
    SharedRows(N * G, 4, group, Ref!RowMajor(<<N, G>>, value))

intentir_reduce_max_2d_axis1_f32(M, K) ==
    LET row(m) == Output("y", [i \in {m} |-> Reduce(K, Row(m * K, K))])
        x(o) == <<"x", Ref!Flat(o, <<M, K>>)>> IN
    SharedRows(M, 4, row, Ref!ReduceRows(M, K, x))

intentir_layernorm_2d_f32(M, N) ==
    LET row(m) ==
          LET x == [n \in Upto(N) |-> Input(m * N + n, n)]
              mean == {<<"mean", Reduce(N, x)>>}
              rstd == {<<"rstd", Reduce(N, [n \in Upto(N) |-> <<x[n], mean>>])>>}
              y(n) == mean \cup rstd \cup x[n] \cup WeightAndBias(n) IN
          Output("mean", [i \in {m} |-> mean]) @@ Output("rstd", [i \in {m} |-> rstd])
          @@ Output("y", [i \in {m * N + n : n \in Strided(N)} |-> y(i - m * N)]) IN
    Runs(Static(M, Team(M >= 4)), row, Normed(M, N, Input, WeightAndBias, TRUE))

(***************************************************************************)
(* p <= 0 keeps everything, p >= 1 nothing; else a chunk of Large elements   *)
(* is an iteration, and every lane asks Philox at its own offset.           *)
(***************************************************************************)
intentir_dropout_f32(n, p) ==
    LET plain(i) == Output("y", [j \in {i} |-> IF p = "none" THEN {<<"x", i>>} ELSE {}])
        chunk(c) == LET first == c * Large
                        end == Min({first + Large, n}) IN
                    Output("y", [i \in {first + j : j \in Strided(end - first)} |-> {<<"x", i, i>>}]) IN
    IF p \in {"none", "all"}
    THEN SharedRows(n, Large, plain, [i \in Upto(n) |-> IF p = "none" THEN {<<"x", i>>} ELSE {}])
    ELSE Runs(Static(CeilDiv(n, Large), Team(n >= 2 * Large)), chunk, Output("y", Ref!Dropout(n)))

intentir_correlation_i8(OC, IC, H, W) ==
    LET hw == H * W
        row(i) ==
          LET oc == i \div H
              row_base == (i % H) * W
              out_base == oc * hw + row_base
              prefix == IF oc < W THEN oc ELSE W
              sum(w_base, l) == {<<"product", k * hw + row_base + w_base + l,
                                   k * hw + row_base + (w_base - oc) + l>> : k \in Upto(IC)} IN
          Output("y", [j \in {out_base + w : w \in Upto(prefix)} |-> {}]
                      @@ [j \in {out_base + oc + l : l \in Strided(W - oc)} |-> sum(oc, j - out_base - oc)]) IN
    SharedRows(OC * H, 4, row, Ref!Correlation(IC, OC, H, W))

intentir_resize_bilinear2x_i8(C, H, W, hw_fl) ==
    LET fl == IF hw_fl <= 0 THEN 7 ELSE hw_fl
        factor == 2 ^ fl
        side(o, extent) ==
          LET input == o * 2 ^ (fl - 1)
              y0 == input \div factor
              h1 == input - y0 * factor IN
          {<<"near", y0, factor - h1>>, <<"far", IF y0 + 1 >= extent THEN extent - 1 ELSE y0 + 1, h1>>}
        row(i) ==
          LET c == i \div (2 * H)
              h == i % (2 * H)
              out_base == c * 4 * H * W + h * 2 * W
              at(v, u) == c * H * W + v * W + u IN
          Output("y", [j \in {out_base + w : w \in Upto(2 * W)} |->
                         {<<v[1], u[1], at(v[2], u[2]), v[3], u[3]>> : v \in side(h, H), u \in side(j - out_base, W)}]) IN
    SharedRows(C * 2 * H, 4, row, Ref!Resize(C, H, W))

\* Nothing is taken right of the row: the offsets of an instance are none to the right.
intentir_warp_q8_8_i8_i16(C, H, W, offset) ==
    LET row(i) ==
          LET off_base == (i % H) * W
              row_base == (i \div H) * H * W + off_base
              right(w) == I8(w - offset[off_base + w])
              taken(side, x) == IF x >= 0 /\ x < W THEN {<<side, row_base + x>>} ELSE {} IN
          Output("y", [j \in {row_base + w : w \in Upto(W)} |->
                         taken("right", right(j - row_base)) \cup taken("left", I8(right(j - row_base) - 1))]) IN
    SharedRows(C * H, 4, row, Ref!Warp(C, H, W, offset))

intentir_rope_f32(seq, batch, heads, half) ==
    LET pair(i) ==
          LET s == i \div (batch * heads)
              base == ((s * batch + (i % (batch * heads)) \div heads) * heads + (i % heads)) * 2 * half
              y1(j) == {<<"cos", base + j, s * half + j>>, <<"minus sin", base + half + j, s * half + j>>}
              y2(j) == {<<"sin", base + j, s * half + j>>, <<"cos", base + half + j, s * half + j>>} IN
          Output("y", [p \in {base + j : j \in Strided(half)} |-> y1(p - base)]
                      @@ [p \in {base + half + j : j \in Strided(half)} |-> y2(p - base - half)]) IN
    Runs(Static(seq * batch * heads, Team(seq * batch >= 4)), pair, Output("y", Ref!Rope(seq, batch, heads, half)))

(***************************************************************************)
(* Softmaxes, a row in three passes: the greatest, the exponentials stored   *)
(* to the output and summed, the output scaled in place.                    *)
(***************************************************************************)
SoftmaxRow(base, K) ==
    LET mx == Reduce(K, Row(base, K))
        e == [k \in Upto(K) |-> <<"exp", <<"x", base + k>>, mx>>]
        sum == Reduce(K, e) IN
    Output("y", [i \in {base + k : k \in Strided(K)} |-> {Quotient(e[i - base], sum)}])

intentir_softmax_1d_last_f32(K) ==
    LET row(m) == SoftmaxRow(0, K) IN Alone1(1, row, Ref!Softmax(1, K))
intentir_softmax_2d_last_f32(M, K) ==
    LET row(m) == SoftmaxRow(m * K, K) IN SharedRows(M, 4, row, Ref!Softmax(M, K))
intentir_softmax_3d_last_f32(A0, A1, K) ==
    LET row(i) == SoftmaxRow(((i \div A1) * A1 + (i % A1)) * K, K) IN
    SharedRows(A0 * A1, 4, row, Ref!Softmax(A0 * A1, K))
intentir_softmax_4d_last_f32(B, H, Q, K) ==
    LET row(i) == SoftmaxRow((((i \div (H * Q)) * H + ((i \div Q) % H)) * Q + (i % Q)) * K, K) IN
    SharedRows((B * H) * Q, 4, row, Ref!Softmax(B * H * Q, K))

(***************************************************************************)
(* Tensors of up to four dimensions: element-wise ops and broadcasts,       *)
(* gathers, transposes and products.  Only the loops that the build with     *)
(* vector instructions reaches are kept; a place in a tensor is the one the  *)
(* C code computes from its strides.                                       *)
(***************************************************************************)
\* Loops over an array without dimensions: shared when it is large.
Contiguous(n, read(_), expected) ==
    LET element(i) == Output("y", [j \in {i} |-> read(i)]) IN
    Runs(Chunks(n, Team(n >= Large)), element, Output("y", expected))
Same(n) == [i \in Upto(n) |-> {<<"x", i>>}]
Unary(n) == LET read(i) == {<<"x", i>>} IN Contiguous(n, read, Same(n))
UnaryStatic(n) == LET element(i) == Output("y", [j \in {i} |-> {<<"x", i>>}]) IN SharedRows(n, Large, element, Same(n))

intentir_f32_bin_contig(n) ==
    LET read(i) == {<<"a", i>>, <<"b", i>>} IN
    Contiguous(n, read, Ref!Broadcast([a |-> <<n>>, b |-> <<n>>], <<n>>))
intentir_abs_f32(n) == Unary(n)
intentir_floor_f32(n) == Unary(n)
intentir_rsqrt_f32(n) == Unary(n)
intentir_exp_f32(n) == Unary(n)
intentir_relu_f32(n) == Unary(n)
intentir_cos_f32(n) == UnaryStatic(n)
intentir_erf_f32(n) == UnaryStatic(n)

(***************************************************************************)
(* Broadcasts with vectors go along the last dimension of the output.  In a  *)
(* dimension of extent 1 an operand has stride 0; if that is the last one,   *)
(* the element is splat over the lanes.                                    *)
(***************************************************************************)
intentir_make_bcast_strides(shape) ==
    [d \in DOMAIN shape |-> IF shape[d] <= 1 THEN 0 ELSE Ref!Size(SubSeq(shape, d + 1, Len(shape)))]

\* The place in an operand that element i of the output is made from.
PlaceByStrides(shape, out, i) ==
    LET o == Ref!IndexOf(i, out)
        r == Len(out)
        strides == intentir_make_bcast_strides(shape)
        base == FoldLeft(LAMBDA at, d : at + o[d] * strides[d], 0, [d \in 1 .. r - 1 |-> d]) IN
    IF shape[r] = 1 THEN base ELSE base + o[r]
Innermost(out) == out[Len(out)]
RowOf(out, q) == {q * Innermost(out) + j : j \in Strided(Innermost(out))}
ByRows(out, read(_), expected) ==
    LET row(q) == Output("y", [i \in RowOf(out, q) |-> read(i)]) IN
    Alone1(Ref!Size(out) \div Innermost(out), row, expected)

intentir_f32_bin_broadcast_vec(shapes, out) ==
    LET read(i) == {<<name, PlaceByStrides(shapes[name], out, i)>> : name \in DOMAIN shapes} IN
    ByRows(out, read, Ref!Broadcast(shapes, out))
intentir_f32_bin_broadcast(shapes, out) ==
    IF \A name \in DOMAIN shapes : shapes[name] = out
    THEN intentir_f32_bin_contig(Ref!Size(out))
    ELSE intentir_f32_bin_broadcast_vec(shapes, out)

\* The element of an operand that an index of the output broadcasts from.
intentir_unravel_index(i, shape) ==
    LET rest == [d \in DOMAIN shape |-> i \div Ref!Size(SubSeq(shape, d + 1, Len(shape)))] IN
    [d \in DOMAIN shape |-> rest[d] % shape[d]]
intentir_ravel_broadcast(coords, shape) ==
    FoldLeft(LAMBDA idx, d : idx * shape[d] + (IF shape[d] = 1 THEN 0 ELSE coords[d]), 0, [d \in DOMAIN shape |-> d])
At(operand, coords) == operand.at[intentir_ravel_broadcast(coords, operand.shape)]

\* a, b: a shape and the numbers in it.
Compared(op, x, y) ==
    CASE op = "lt" -> x < y [] op = "le" -> x <= y [] op = "gt" -> x > y [] op = "ge" -> x >= y [] op = "ne" -> x # y
BroadcastNumbers(op, a, b, out) ==
    LET at(operand, o) == operand.at[Ref!Spread("at", o, operand.shape)[2]]
        value(o) == Number(Ref!Elementwise(op, at(a, o), at(b, o))) IN
    Ref!RowMajor(out, value)
ComparedElements(op, a, b, out) ==
    LET coords(i) == intentir_unravel_index(i, out)
        element(i) == Output("y", [j \in {i} |-> Number(Ref!Truth(Compared(op, At(a, coords(i)), At(b, coords(i)))))]) IN
    Alone1(Ref!Size(out), element, BroadcastNumbers(op, a, b, out))
intentir_cmp_f32_broadcast_u8(op, a, b, out) == ComparedElements(op, a, b, out)
intentir_cmp_i32_broadcast_u8(op, a, b, out) == ComparedElements(op, a, b, out)

\* Of bytes, those not zero count as true.
BoolBin(op, x, y) == Number(IF op = "or" THEN Ref!Truth(x # 0 \/ y # 0) ELSE Ref!Truth(x # 0 /\ y # 0))
intentir_bool_bin_broadcast_vec(op, a, b, out) ==
    LET read(i) == BoolBin(op, a.at[PlaceByStrides(a.shape, out, i)], b.at[PlaceByStrides(b.shape, out, i)]) IN
    ByRows(out, read, BroadcastNumbers(op, a, b, out))
intentir_bool_bin_broadcast_u8(op, a, b, out) ==
    LET read(i) == BoolBin(op, a.at[i], b.at[i])
        n == Ref!Size(out) IN
    IF a.shape # out \/ b.shape # out
    THEN intentir_bool_bin_broadcast_vec(op, a, b, out)
    ELSE ByRows(<<n>>, read, BroadcastNumbers(op, a, b, out))

\* x where the condition holds and y elsewhere; cond has numbers, x and y are shapes.
Chosen(cond, x, y, out) ==
    LET value(o) == {IF cond.at[Ref!Spread("at", o, cond.shape)[2]] # 0
                     THEN Ref!Spread("x", o, x) ELSE Ref!Spread("y", o, y)} IN
    Ref!RowMajor(out, value)
intentir_where_broadcast_vec(cond, x, y, out) ==
    LET read(i) == {IF cond.at[PlaceByStrides(cond.shape, out, i)] # 0
                    THEN <<"x", PlaceByStrides(x, out, i)>> ELSE <<"y", PlaceByStrides(y, out, i)>>} IN
    ByRows(out, read, Chosen(cond, x, y, out))
intentir_where_broadcast_f32(cond, x, y, out) ==
    LET read(i) == {IF cond.at[i] # 0 THEN <<"x", i>> ELSE <<"y", i>>} IN
    IF cond.shape = out /\ x = out /\ y = out
    THEN ByRows(<<Ref!Size(out)>>, read, Chosen(cond, x, y, out))
    ELSE intentir_where_broadcast_vec(cond, x, y, out)

\* x: a sequence of numbers.  To bytes and from them a number becomes a Boolean.
intentir_cast_1d(x, from, to) ==
    LET n == Len(x)
        read(i) == Number(IF to = "u8" \/ (from = "u8" /\ to \in {"f32", "f64"}) THEN Ref!Truth(x[i + 1] # 0) ELSE x[i + 1])
        value(i) == Number(IF to = "u8" THEN Ref!Elementwise("bool", x[i + 1], 0) ELSE x[i + 1]) IN
    ByRows(<<n>>, read, [i \in Upto(n) |-> value(i)])

intentir_iota_i32(out, axis) ==
    LET element(i) == Output("y", [j \in {i} |-> Number(intentir_unravel_index(i, out)[axis + 1])])
        value(o) == Number(o[axis + 1]) IN
    Alone1(Ref!Size(out), element, Ref!RowMajor(out, value))

(***************************************************************************)
(* A gather.  at[a] are the indices along axis a of the data, in an array    *)
(* of shape shapes[a] that broadcasts to the output.  With vectors the       *)
(* offsets are 32 bits wide, so a large tensor goes element by element.      *)
(***************************************************************************)
Offset(data, index) == FoldLeft(LAMBDA di, ax : di * data[ax] + index[ax], 0, [ax \in DOMAIN data |-> ax])
GatherStride(shape, d) == Ref!Size(SubSeq(shape, d + 1, Len(shape)))
GatherVectors(data, out, at, shapes) ==
    LET r == Len(out)
        base(ax, o) == FoldLeft(LAMBDA b, d : IF shapes[ax][d] # 1 THEN b + o[d] * GatherStride(shapes[ax], d) ELSE b,
                                0, [d \in 1 .. r - 1 |-> d])
        place(ax, o) == base(ax, o) + (IF shapes[ax][r] # 1 THEN o[r] ELSE 0)
        read(i) == LET o == Ref!IndexOf(i, out) IN
                   {<<"x", Offset(data, [ax \in DOMAIN data |-> at[ax][place(ax, o)]])>>} IN
    ByRows(out, read, Ref!GatherAll(data, out, at, shapes))
GatherElements(data, out, at, shapes) ==
    LET coords(i) == intentir_unravel_index(i, out)
        index(i) == [ax \in DOMAIN data |-> at[ax][intentir_ravel_broadcast(coords(i), shapes[ax])]]
        element(i) == Output("y", [j \in {i} |-> {<<"x", Offset(data, index(i))>>}]) IN
    Alone1(Ref!Size(out), element, Ref!GatherAll(data, out, at, shapes))
intentir_gather_f32_i32(data, out, at, shapes) ==
    IF Ref!Size(data) < Addressable THEN GatherVectors(data, out, at, shapes) ELSE GatherElements(data, out, at, shapes)

\* rows: a sequence of rows of bytes; a strip with any byte set ends the scan of its row.
intentir_reduce_any_2d_axis1_u8(rows) ==
    LET hit(row) == \E strip \in Range(Strips(Len(row))) : \E l \in DOMAIN strip : row[strip[l] + 1] # 0
        line(m) == Output("y", [i \in {m} |-> Number(Ref!Truth(hit(rows[m + 1])))])
        any(row) == Ref!Truth(\E n \in DOMAIN row : row[n] # 0) IN
    Alone1(Len(rows), line, [m \in Upto(Len(rows)) |-> Number(any(rows[m + 1]))])

intentir_transpose_4d_0132_f32(B, H, K, D) ==
    LET line(q) ==
          LET bh == q \div D
              d == q % D IN
          Output("y", [i \in {(bh * D + d) * K + k : k \in Strided(K)} |-> {<<"x", (bh * K + (i % K)) * D + d>>}]) IN
    Alone1(B * H * D, line, Ref!TransposeBy(<<B, H, K, D>>, <<0, 1, 3, 2>>))

intentir_transpose_f32(shape, perm) ==
    LET out == [d \in DOMAIN perm |-> shape[perm[d] + 1]]
        from(o) == FoldLeft(LAMBDA at, d : [at EXCEPT ![perm[d] + 1] = o[d]], [d \in DOMAIN perm |-> 0],
                            [d \in DOMAIN perm |-> d])
        element(i) == Output("y", [j \in {i} |-> {<<"x", Ref!Flat(from(Ref!IndexOf(i, out)), shape)>>}]) IN
    Alone1(Ref!Size(out), element, Ref!TransposeBy(shape, perm))

(***************************************************************************)
(* dims[d] is the dimension of the output, from 0, that dimension d of the   *)
(* input becomes.                                                          *)
(***************************************************************************)
ScalarFill(shape, out, dims) ==
    LET read(i) == {<<"x", 0>>} IN Contiguous(Ref!Size(out), read, Ref!BroadcastInDim(shape, out, dims))
BroadcastVectors(shape, out, dims) ==
    LET r == Len(out)
        strides == [d \in DOMAIN shape |-> Ref!Size(SubSeq(shape, d + 1, Len(shape)))]
        spread == {d \in DOMAIN shape : shape[d] # 1}
        base0(o) == FoldLeft(LAMBDA at, d : IF d \in spread /\ dims[d] # r - 1 THEN at + o[dims[d] + 1] * strides[d] ELSE at,
                             0, [d \in DOMAIN shape |-> d])
        last == {d \in spread : dims[d] = r - 1}
        stride_last == IF last = {} THEN 0 ELSE strides[CHOOSE d \in last : TRUE]
        read(i) == LET o == Ref!IndexOf(i, out) IN {<<"x", base0(o) + o[r] * stride_last>>}
        row(q) == Output("y", [i \in RowOf(out, q) |-> read(i)])
        outer == Ref!Size(out) \div Innermost(out) IN
    Runs(Static(outer, Team(outer >= 4)), row, Output("y", Ref!BroadcastInDim(shape, out, dims)))
intentir_broadcast_in_dim_f32(shape, out, dims) ==
    IF \A d \in DOMAIN shape : shape[d] = 1 THEN ScalarFill(shape, out, dims) ELSE BroadcastVectors(shape, out, dims)

(***************************************************************************)
(* Products of M by K and K by N.  The work is shared out by panels of the   *)
(* output's columns if that occupies every thread, else by blocks of four    *)
(* rows, or by these and tiles of columns, else by tiles.  tile: the wished  *)
(* extents m, n and k of a tile, 0 for all.                                *)
(***************************************************************************)
mr == 4
TilesOf(n, tile) == [i \in 1 .. CeilDiv(n, tile) |-> {j \in (i - 1) * tile .. i * tile - 1 : j < n}]
TileExtent(wished, n) == IF wished > 0 THEN Min({wished, n}) ELSE n

\* Rows and columns that an iteration of the loop nest writes: its share of <<rows, cols, parallel>>.
PanelColumns(N, tn) ==
    LET halved == {w \in 1 .. tn : \E h \in 0 .. tn : w = tn \div 2 ^ h} IN
    Max({w \in halved : w <= Panel \/ CeilDiv(N, w) >= Width})
UseFine(M, N, tm, tn) == CeilDiv(M, tm) * CeilDiv(N, tn) < Width
NPanels(M, N, tn) == <<<<Upto(M)>>, TilesOf(N, PanelColumns(N, tn)), N >= Large>>
MBlocks(M, N) == <<TilesOf(M, mr), <<Upto(N)>>, M >= Large>>
BlocksAndTiles(M, N, tn) == <<TilesOf(M, mr), TilesOf(N, tn), M * N >= Large>>
MNTiles(M, N, tm, tn) == <<TilesOf(M, tm), TilesOf(N, tn), M * N >= Large>>
ScalarFine(M, N, tn) == <<TilesOf(M, 1), TilesOf(N, tn), M * N >= Large>>
ScalarTiles(M, N, tm, tn) == <<TilesOf(M, tm), TilesOf(N, tn), M * N >= Large>>

Work(M, N, ta, tile) ==
    LET tm == TileExtent(tile.m, M)
        tn == TileExtent(tile.n, N)
        panels == CeilDiv(N, PanelColumns(N, tn)) IN
    CASE ~ta /\ panels >= Width -> NPanels(M, N, tn)
      [] ~ta /\ panels < Width /\ UseFine(M, N, tm, tn) /\ CeilDiv(M, mr) >= Width -> MBlocks(M, N)
      [] ~ta /\ panels < Width /\ UseFine(M, N, tm, tn) /\ CeilDiv(M, mr) < Width -> BlocksAndTiles(M, N, tn)
      [] ~ta /\ panels < Width /\ ~UseFine(M, N, tm, tn) -> MNTiles(M, N, tm, tn)
      [] ta /\ UseFine(M, N, tm, tn) -> ScalarFine(M, N, tn)
      [] ta /\ ~UseFine(M, N, tm, tn) -> ScalarTiles(M, N, tm, tn)

\* Element (m, n) of product number b0 of a stack: a sum over tiles of the inner extent.
Accumulated(b0, m, n, M, N, K, ta, tb, tile) ==
    LET a(k) == b0 * M * K + (IF ta THEN k * M + m ELSE m * K + k)
        b(k) == b0 * K * N + (IF tb THEN n * K + k ELSE k * N + n) IN
    {<<"product", a(k), b(k)>> : k \in UNION Range(TilesOf(K, TileExtent(tile.k, K)))}
Rectangle(b0, rows, cols, M, N, K, ta, tb, tile) ==
    LET places == {(b0 * M + m) * N + Min(cols) + j : m \in rows, j \in Strided(Cardinality(cols))} IN
    Output("y", [i \in places |-> Accumulated(b0, (i \div N) % M, i % N, M, N, K, ta, tb, tile)])

intentir_matmul_2d_f32(M, N, K, ta, tb, tile) ==
    LET work == Work(M, N, ta, tile)
        across == Len(work[2])
        part(i) == Rectangle(0, work[1][i \div across + 1], work[2][(i % across) + 1], M, N, K, ta, tb, tile) IN
    Runs(Static(Len(work[1]) * across, Team(work[3])), part, Output("y", Ref!MatmulOf(1, M, N, K, ta, tb)))

\* A product to an iteration; a single one is shared out itself.
intentir_matmul_3d_f32(B, M, N, K, ta, tb, tile) ==
    LET product(b0) == Rectangle(b0, Upto(M), Upto(N), M, N, K, ta, tb, tile) IN
    IF B >= 2
    THEN Runs(Static(B, Width), product, Output("y", Ref!MatmulOf(B, M, N, K, ta, tb)))
    ELSE intentir_matmul_2d_f32(M, N, K, ta, tb, tile)

MatmulVectors4d(B, H, M, N, K, tb, tile) ==
    LET tiles == TilesOf(M, TileExtent(tile.m, M))
        across == TilesOf(N, TileExtent(tile.n, N))
        product(b0) ==
          LET part == [t \in (DOMAIN tiles) \X (DOMAIN across) |->
                        Rectangle(b0, tiles[t[1]], across[t[2]], M, N, K, FALSE, tb, tile)]
              cells == UNION {DOMAIN part[t] : t \in DOMAIN part} IN
          [c \in cells |-> part[CHOOSE t \in DOMAIN part : c \in DOMAIN part[t]][c]] IN
    Runs(Static(B * H, Team(B * H >= 2)), product, Output("y", Ref!MatmulOf(B * H, M, N, K, FALSE, tb)))
MatmulScalars4d(B, H, M, N, K, tb, tile) ==
    LET element(b0, m, n) == Accumulated(b0, m, n, M, N, K, TRUE, tb, tile)
        product(b0) == Output("y", [i \in {b0 * M * N + j : j \in Upto(M * N)} |-> element(b0, (i \div N) % M, i % N)]) IN
    Runs(Static(B * H, Team(B * H >= 2)), product, Output("y", Ref!MatmulOf(B * H, M, N, K, TRUE, tb)))
intentir_matmul_4d_f32(B, H, M, N, K, ta, tb, tile) ==
    IF ta THEN MatmulScalars4d(B, H, M, N, K, tb, tile) ELSE MatmulVectors4d(B, H, M, N, K, tb, tile)
================================================================================
