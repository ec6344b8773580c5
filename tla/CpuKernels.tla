------------------------------ MODULE CpuKernels ------------------------------
(***************************************************************************)
(* The loop nests that lower_intent_to_rvv_cpu_kernel.py emits for a RISC-V  *)
(* core: one thread goes through the rows of a kernel and writes its         *)
(* outputs.  A scalar of the loop nest is what it is computed from, with the *)
(* places the emitted index arithmetic reads; the expected output is what    *)
(* the ops of the reference interpreter give.                              *)
(***************************************************************************)
EXTENDS GatherKernels

LOCAL INSTANCE SequencesExt
LOCAL INSTANCE FiniteSetsExt

Core == {0}

\* The cells of the named output of those values.
Output(name, f) == [c \in {<<name, i>> : i \in DOMAIN f} |-> f[c[2]]]
Write(name, f) == Put(Core, [c \in DOMAIN Output(name, f) |-> 0], Output(name, f))
ForRows(M, body(_)) == FlattenSeq([i \in 1 .. M |-> body(i - 1)])
Sequential(rounds, expected) == Leaving(Core, rounds, Sums(expected))

\* The places of row m of a matrix with rows of N.
RowPlaces(m, N) == {m * N + n : n \in Upto(N)}

(***************************************************************************)
(* Row norms.  z(i, n) is the element at place i, in column n: the input,    *)
(* with what is added to it first.  A kernel that is centred stores the mean *)
(* and subtracts it.                                                       *)
(***************************************************************************)
NormedRows(M, N, z(_, _), gain(_), centred) ==
    LET body(m) ==
          LET base == m * N
              mean == IF centred THEN {<<"mean", {z(base + n, n) : n \in Upto(N)}>>} ELSE {}
              rstd == {<<"rstd", {<<z(base + n, n), mean>> : n \in Upto(N)}>>}
              y(i) == mean \cup rstd \cup z(i, i - base) \cup gain(i - base) IN
          (IF centred THEN <<Write("mean", [i \in {m} |-> mean])>> ELSE <<>>)
          \o <<Write("rstd", [i \in {m} |-> rstd]), Write("y", [i \in RowPlaces(m, N) |-> y(i)])>> IN
    ForRows(M, body)

\* The same by whole arrays, as the interpreter computes it.
Normed(M, N, z(_, _), gain(_), centred) ==
    LET value(o) == z(Ref!Flat(o, <<M, N>>), o[2])
        sums == Ref!ReduceRows(M, N, value)
        mean(m) == IF centred THEN {<<"mean", sums[m]>>} ELSE {}
        deviation(o) == <<value(o), mean(o[1])>>
        squares == Ref!ReduceRows(M, N, deviation)
        y(o) == mean(o[1]) \cup {<<"rstd", squares[o[1]]>>} \cup value(o) \cup gain(o[2]) IN
    Output("y", Ref!RowMajor(<<M, N>>, y))
    @@ Output("rstd", [m \in Upto(M) |-> {<<"rstd", squares[m]>>}])
    @@ (IF centred THEN Output("mean", [m \in Upto(M) |-> mean(m)]) ELSE Nothing)

Input(i, n) == {<<"x", i>>}
Residual(i, n) == {<<"x", i>>, <<"residual", i>>}
ResidualAndBias(i, n) == {<<"x", i>>, <<"residual", i>>, <<"bias", n>>}
Weight(n) == {<<"weight", n>>}
WeightAndBias(n) == {<<"weight", n>>, <<"bias", n>>}

emit_rms_norm2d(M, N) ==
    Sequential(NormedRows(M, N, Input, Weight, FALSE), Normed(M, N, Input, Weight, FALSE))
emit_rms_norm_residual2d(M, N) ==
    Sequential(NormedRows(M, N, ResidualAndBias, Weight, FALSE), Normed(M, N, ResidualAndBias, Weight, FALSE))
emit_layer_norm_persistent(M, N) ==
    Sequential(NormedRows(M, N, Input, WeightAndBias, TRUE), Normed(M, N, Input, WeightAndBias, TRUE))
emit_layer_norm_residual2d(M, N) ==
    Sequential(NormedRows(M, N, Residual, WeightAndBias, TRUE), Normed(M, N, Residual, WeightAndBias, TRUE))

\* Element t of a group: channel t \div HW of the group, place t % HW in it.
emit_group_norm(N, C, HW, G) ==
    LET GS == C \div G
        channel(g, t) == g * GS + (t \div HW)
        place(n, g, t) == (n * C + channel(g, t)) * HW + (t % HW)
        members(n, g) == {place(n, g, t) : t \in Upto(GS * HW)}
        mean(n, g) == {<<"mean", members(n, g)>>}
        rstd(n, g) == {<<"rstd", mean(n, g), members(n, g)>>}
        y(n, g, t) == mean(n, g) \cup rstd(n, g) \cup WeightAndBias(channel(g, t)) \cup {<<"x", place(n, g, t)>>}
        body(i) ==
          LET n == i \div G
              g == i % G IN
          <<Write("mean", [j \in {n * G + g} |-> mean(n, g)]), Write("rstd", [j \in {n * G + g} |-> rstd(n, g)]),
            Write("y", [j \in members(n, g) |->
                          y(n, g, CHOOSE t \in Upto(GS * HW) : place(n, g, t) = j)])>>
        shape == <<N, C, HW>>
        peers(n, g) == {Ref!Flat(o, shape) : o \in {q \in Ref!Indices(shape) : q[1] = n /\ q[2] \div GS = g}}
        expected(o) ==
          LET g == o[2] \div GS IN
          {<<"mean", peers(o[1], g)>>, <<"rstd", {<<"mean", peers(o[1], g)>>}, peers(o[1], g)>>,
           <<"x", Ref!Flat(o, shape)>>} \cup WeightAndBias(o[2])
        group(o) == {<<"mean", peers(o[1], o[2])>>}
        deviation(o) == {<<"rstd", group(o), peers(o[1], o[2])>>} IN
    Sequential(ForRows(N * G, body),
               Output("y", Ref!RowMajor(shape, expected)) @@ Output("mean", Ref!RowMajor(<<N, G>>, group))
               @@ Output("rstd", Ref!RowMajor(<<N, G>>, deviation)))

(***************************************************************************)
(* Two layers: the hidden row is filled in a buffer of all rows, then read   *)
(* for every output of the row.                                            *)
(***************************************************************************)
emit_mlp2d(M, K, H, N) ==
    LET hidden(m, h) == <<"relu", {<<"b1", h>>}, {<<"product", "A", m * K + k, "W1", k * H + h>> : k \in Upto(K)}>>
        buffer == [i \in Upto(M * H) |-> hidden(i \div H, i % H)]
        y(m, n) == {<<"b2", n>>} \cup {<<"W2", h2 * N + n, buffer[m * H + h2]>> : h2 \in Upto(H)}
        body(m) == <<Write("y", [i \in RowPlaces(m, N) |-> y(m, i - m * N)])>>
        product == Ref!Matmul("A", "W1", M, H, K)
        layer(o) == <<"relu", {<<"b1", o[2]>>}, product[Ref!Flat(o, <<M, H>>)]>>
        expected(o) == {<<"b2", o[2]>>} \cup {<<"W2", Ref!Flat(<<h, o[2]>>, <<H, N>>), layer(<<o[1], h>>)>> :
                                                h \in Upto(H)} IN
    Sequential(ForRows(M, body), Output("y", Ref!RowMajor(<<M, N>>, expected)))

(***************************************************************************)
(* The operands of a product are found by their shapes, among the tensors in *)
(* the order the intent lists them; only when the extents differ is there    *)
(* just one way to match them (README, Known disagreements).               *)
(***************************************************************************)
InferredOperands(tensors, M, N) ==
    LET fits(i, j) == /\ i # j
                      /\ tensors[i].shape[1] = M
                      /\ tensors[j].shape[2] = N
                      /\ tensors[i].shape[2] = tensors[j].shape[1]
        a == Min({i \in DOMAIN tensors : \E j \in DOMAIN tensors : fits(i, j)}) IN
    [a |-> tensors[a], b |-> tensors[Min({j \in DOMAIN tensors : fits(a, j)})]]

\* p: relu and bias as Booleans, row_mask and col_mask as sequences of 0 and 1, empty for none.
emit_matmul2d(tensors, M, N, p) ==
    LET ab == InferredOperands(tensors, M, N)
        K == ab.a.shape[2]
        biased(S, n) == S \cup (IF p.bias THEN {<<"bias", n>>} ELSE {})
        activated(S) == IF p.relu THEN {<<"relu", S>>} ELSE S
        kept(m, n) == p.row_mask = <<>> \/ (p.row_mask[m + 1] # 0 /\ p.col_mask[n + 1] # 0)
        acc(m, n) == {<<"product", ab.a.name, m * K + k, ab.b.name, k * N + n>> : k \in Upto(K)}
        y(m, n) == IF kept(m, n) THEN activated(biased(acc(m, n), n)) ELSE {}
        body(m) == <<Write("y", [i \in RowPlaces(m, N) |-> y(m, i - m * N)])>>
        product == Ref!Matmul("A", "B", M, N, K)
        expected(o) == IF kept(o[1], o[2]) THEN activated(biased(product[Ref!Flat(o, <<M, N>>)], o[2])) ELSE {} IN
    Sequential(ForRows(M, body), Output("y", Ref!RowMajor(<<M, N>>, expected)))

(***************************************************************************)
(* Softmaxes: the greatest of the row, the sum of the exponentials, then     *)
(* every element, in three passes over the row.                            *)
(***************************************************************************)
SoftmaxRows(M, N, x(_, _), last(_, _)) ==
    LET mx(m) == {x(m * N + n, n) : n \in Upto(N)}
        ex(m, i) == <<"exp", x(i, i - m * N), mx(m)>>
        sum(m) == {ex(m, i) : i \in RowPlaces(m, N)}
        body(m) == <<Write("y", [i \in RowPlaces(m, N) |-> {last(ex(m, i), sum(m))}])>> IN
    ForRows(M, body)

Plain(i, n) == <<"x", i>>
Quotient(e, sum) == <<"quotient", e, sum>>
LogQuotient(e, sum) == <<"shifted", e[2], e[3], sum>>

emit_softmax_inner(M, N) ==
    Sequential(SoftmaxRows(M, N, Plain, Quotient), Output("y", Ref!Softmax(M, N)))

\* The logarithm of the softmax, without the division.
emit_log_softmax2d(M, N) ==
    LET logarithm(S) == LET q == CHOOSE t \in S : TRUE IN {LogQuotient(q[2], q[3])}
        softmax == Ref!Softmax(M, N) IN
    Sequential(SoftmaxRows(M, N, Plain, LogQuotient), Output("y", [i \in DOMAIN softmax |-> logarithm(softmax[i])]))

\* A column whose mask is zero stands for the most negative number.
emit_row_softmax2d(M, N, mask) ==
    LET masked(i, n) == IF mask = <<>> \/ mask[n + 1] # 0 THEN <<"x", i>> ELSE <<"masked_neg">>
        x(o) == masked(Ref!Flat(o, <<M, N>>), o[2])
        rows == Ref!ReduceRows(M, N, x)
        e(o) == <<"exp", x(o), rows[o[1]]>>
        sums == Ref!ReduceRows(M, N, e)
        value(o) == {Quotient(e(o), sums[o[1]])} IN
    Sequential(SoftmaxRows(M, N, masked, Quotient), Output("y", Ref!RowMajor(<<M, N>>, value)))

(***************************************************************************)
(* Attention.  A weight exp(score - shift) is kept as the key and what was   *)
(* subtracted from its score, the greatest score of the keys in shift.       *)
(***************************************************************************)
Score(q, kv, HD) == {<<"qk", q * HD + d, kv * HD + d>> : d \in Upto(HD)}
Attended(q, d, weights, sums, HD) ==
    {<<"weighted", Score(q, w[1], HD), w[2], w[1] * HD + d>> : w \in weights} \cup {<<"divided by", sums>>}

\* Every key up to the query's own place, or all of them.
Attention(Q, KV, HD, causal) ==
    LET keys(q) == {kv \in Upto(KV) : causal => kv <= q}
        weights(q) == {<<kv, keys(q)>> : kv \in keys(q)}
        score(q, kv) == {<<"qk", Ref!Flat(<<q, d>>, <<Q, HD>>), Ref!Flat(<<kv, d>>, <<KV, HD>>)>> : d \in Upto(HD)}
        value(o) == {<<"weighted", score(o[1], kv), keys(o[1]), Ref!Flat(<<kv, o[2]>>, <<KV, HD>>)>> : kv \in keys(o[1])}
                    \cup {<<"divided by", weights(o[1])>>} IN
    Output("y", Ref!RowMajor(<<Q, HD>>, value))

\* Another tile of keys: what was accumulated so far is scaled from the old maximum to the new one.
Tile_fault(s, kvs) ==   \* the sum of the weights not scaled
    LET m_new == s.m \cup kvs
        scaled(ws) == {IF w[2] = s.m THEN <<w[1], m_new>> ELSE w : w \in ws}
        added == {<<kv, m_new>> : kv \in kvs} IN
    [m |-> m_new, l |-> s.l \cup added, acc |-> scaled(s.acc) \cup added]
Tile(s, kvs) ==
    LET m_new == s.m \cup kvs
        scaled(ws) == {IF w[2] = s.m THEN <<w[1], m_new>> ELSE w : w \in ws}
        added == {<<kv, m_new>> : kv \in kvs} IN
    [m |-> m_new, l |-> scaled(s.l) \cup added, acc |-> scaled(s.acc) \cup added]

emit_attention2d_causal(Q, KV, HD, block_kv) ==
    LET kv_end(q) == Min({q + 1, KV})
        tiles(q) == [i \in 1 .. CeilDiv(kv_end(q), block_kv) |->
                        {kv \in (i - 1) * block_kv .. i * block_kv - 1 : kv < kv_end(q)}]
        online(q) == FoldLeft(Tile, [m |-> {}, l |-> {}, acc |-> {}], tiles(q))
        body(q) == <<Write("y", [i \in RowPlaces(q, HD) |->
                                   Attended(q, i - q * HD, online(q).acc, online(q).l, HD)])>> IN
    Sequential(ForRows(Q, body), Attention(Q, KV, HD, TRUE))

\* The maximum in one pass over all keys, the weights in a second.
emit_attn_fwd(Q, KV, HD) ==
    LET weights == {<<kv, Upto(KV)>> : kv \in Upto(KV)}
        body(q) == <<Write("y", [i \in RowPlaces(q, HD) |-> Attended(q, i - q * HD, weights, weights, HD)])>> IN
    Sequential(ForRows(Q, body), Attention(Q, KV, HD, FALSE))

(***************************************************************************)
(* Reductions of rows and of whole arrays.                                 *)
(***************************************************************************)
RowReduction(M, N) ==
    LET body(m) == <<Write("y", [i \in {m} |-> {<<"x", p>> : p \in RowPlaces(m, N)}])>>
        x(o) == <<"x", Ref!Flat(o, <<M, N>>)>> IN
    Sequential(ForRows(M, body), Output("y", Ref!ReduceRows(M, N, x)))

emit_row_reduce(M, N) == RowReduction(M, N)
emit_row_mean(M, N) == RowReduction(M, N)
emit_row_reduce_prod(M, N) == RowReduction(M, N)

\* Group g of a row: the elements from g * GS on.
emit_grouped_row_sum2d(M, N, G) ==
    LET GS == N \div G
        sum(m, g) == {<<"x", m * N + g * GS + i>> : i \in Upto(GS)}
        body(m) == <<Write("y", [i \in RowPlaces(m, G) |-> sum(m, i - m * G)])>>
        x(o) == <<"x", Ref!Flat(o, <<M * G, GS>>)>> IN
    Sequential(ForRows(M, body), Output("y", Ref!ReduceRows(M * G, GS, x)))

Number(v) == {<<"value", v>>}
Scalar(v) == Write("y", [i \in {0} |-> Number(v)])

\* rows: a sequence of rows of numbers; any element that is not zero.
emit_row_reduce_any(rows) ==
    LET any(row) == FoldLeft(LAMBDA a, x : IF x # 0 THEN 1 ELSE a, 0, row)
        body(m) == <<Write("y", [i \in {m} |-> Number(any(rows[m + 1]))])>> IN
    Sequential(ForRows(Len(rows), body),
               Output("y", [m \in Upto(Len(rows)) |-> Number(Ref!Truth(\E n \in DOMAIN rows[m + 1] : rows[m + 1][n] # 0))]))

(***************************************************************************)
(* The scan of a row for its least or greatest value starts from an infinite *)
(* one at index 0, which a row may hold itself; an equal value counts only   *)
(* at a smaller index.                                                     *)
(***************************************************************************)
Infinity == 3
Better(mode, x, v) == IF mode = "min" THEN x < v ELSE x > v
Scan_fault(mode, row) ==    \* starts from the value that every other one is worse than
    FoldLeft(LAMBDA s, n : IF Better(mode, row[n + 1], s[1]) \/ (row[n + 1] = s[1] /\ n < s[2])
                           THEN <<row[n + 1], n>> ELSE s,
             <<IF mode = "min" THEN -Infinity ELSE Infinity, 0>>, [i \in DOMAIN row |-> i - 1])
Scan(mode, row) ==
    FoldLeft(LAMBDA s, n : IF Better(mode, row[n + 1], s[1]) \/ (row[n + 1] = s[1] /\ n < s[2])
                           THEN <<row[n + 1], n>> ELSE s,
             <<IF mode = "min" THEN Infinity ELSE -Infinity, 0>>, [i \in DOMAIN row |-> i - 1])
ArgOf(mode, row) == IF mode = "min" THEN Ref!ArgMin(row) ELSE Ref!ArgMax(row)

emit_row_argminmax(mode, row) ==
    Sequential(<<Scalar(Scan(mode, row)[2])>>, Output("y", [i \in {0} |-> Number(ArgOf(mode, row) - 1)]))
emit_row_reduce_min_argmin(row) ==
    LET best == Ref!ArgMin(row) IN
    Sequential(<<Scalar(Scan("min", row)[1]), Write("index", [i \in {0} |-> Number(Scan("min", row)[2])])>>,
               Output("y", [i \in {0} |-> Number(row[best])]) @@ Output("index", [i \in {0} |-> Number(best - 1)]))
emit_reduce_min_all(x) ==
    Sequential(<<Scalar(FoldLeft(LAMBDA a, v : IF v < a THEN v ELSE a, Infinity, x))>>,
               Output("y", [i \in {0} |-> Number(x[Ref!ArgMin(x)])]))
emit_count_nonzero2d(x) ==
    Sequential(<<Scalar(FoldLeft(LAMBDA a, v : IF v # 0 THEN a + 1 ELSE a, 0, x))>>,
               Output("y", [i \in {0} |-> Number(Ref!CountNonzero(x))]))
emit_trace2d(M, N) ==
    LET diagonal == Ref!Diag(M, N) IN
    Sequential(<<Write("y", [i \in {0} |-> {<<"x", j * N + j>> : j \in Upto(Min({M, N}))}])>>,
               Output("y", [i \in {0} |-> UNION {diagonal[j] : j \in DOMAIN diagonal}]))

\* a and b agree everywhere when no element is farther off than atol + rtol * |b|.
emit_allclose2d(a, b, atol, rtol) ==
    LET size(v) == IF v < 0 THEN -v ELSE v
        close(i) == size(a[i] - b[i]) <= atol + rtol * size(b[i])
        any == FoldLeft(LAMBDA far, i : far \/ ~close(i), FALSE, [i \in DOMAIN a |-> i])
        within(i) == /\ a[i] <= b[i] + atol + rtol * Max({b[i], -b[i]})
                     /\ a[i] >= b[i] - atol - rtol * Max({b[i], -b[i]}) IN
    Sequential(<<Scalar(Ref!Truth(~any))>>,
               Output("y", [i \in {0} |-> Number(Ref!Truth(\A j \in DOMAIN a : within(j)))]))

(***************************************************************************)
(* Kernels that compute every element by itself.                           *)
(***************************************************************************)
Elements(read, expected) == Sequential(<<Write("y", read)>>, Output("y", expected))

emit_arange1d(start, step, N) ==
    Elements([i \in Upto(N) |-> Number(i * step + start)], [i \in Upto(N) |-> Number(start + step * i)])

emit_transpose2d(M, N) ==
    LET body(m) == <<Write("y", [o \in {n * M + m : n \in Upto(N)} |-> {<<"x", m * N + (o \div M)>>}])>> IN
    Sequential(ForRows(M, body), Output("y", Ref!Transpose(M, N)))

emit_gather2d(rows, cols, M, N) ==
    Elements([i \in DOMAIN rows |-> {<<"x", rows[i] * N + cols[i]>>}], Ref!GatherAt(rows, cols, <<M, N>>))

\* A diagonal may be shorter than the matrix's.
emit_diag2d(M, N, L) ==
    LET diagonal == Ref!Diag(M, N) IN
    Elements([i \in Upto(L) |-> {<<"x", i * N + i>>}], [i \in Upto(L) |-> diagonal[i]])

emit_concat2d_axis0(Am, Bm, N) ==
    LET part(m, n) == IF m < Am THEN <<"part", 0, m * N + n>> ELSE <<"part", 1, (m - Am) * N + n>> IN
    Elements([i \in Upto((Am + Bm) * N) |-> {part(i \div N, i % N)}], Ref!ConcatRows(Am, Bm, N))
emit_concat2d_axis1(M, An, Bn) ==
    LET N == An + Bn
        part(m, n) == IF n < An THEN <<"part", 0, m * An + n>> ELSE <<"part", 1, m * Bn + (n - An)>> IN
    Elements([i \in Upto(M * N) |-> {part(i \div N, i % N)}], Ref!Concat(M, An, Bn))

emit_ai_bench_rope(seq, batch, heads, half) ==
    LET base(s, b, h) == ((s * batch + b) * heads + h) * 2 * half
        pair(x1_i, d, cos_base) ==
          [i \in {x1_i, x1_i + half} |->
              IF i = x1_i THEN {<<"cos", x1_i, cos_base + d>>, <<"minus sin", x1_i + half, cos_base + d>>}
              ELSE {<<"sin", x1_i, cos_base + d>>, <<"cos", x1_i + half, cos_base + d>>}]
        body(i) ==
          LET h == i % heads
              b == (i \div heads) % batch
              s == i \div (heads * batch) IN
          [d \in 1 .. half |-> Write("y", pair(base(s, b, h) + d - 1, d - 1, s * half))] IN
    Sequential(ForRows(seq * batch * heads, body), Output("y", Ref!Rope(seq, batch, heads, half)))

\* Philox on the element's own index decides whether it is kept.
emit_ai_bench_dropout(n) == Elements([i \in Upto(n) |-> {<<"x", i, i>>}], Ref!Dropout(n))

\* Output channel oc compares with the place oc to the left; none there for the first oc places.
emit_ai_bench_correlation(IC, OC, H, W) ==
    LET HW == H * W
        skip(oc, w) == oc # 0 /\ w < oc
        sum(oc, h, w) == {<<"product", k * HW + h * W + w, k * HW + h * W + (w - oc)>> : k \in Upto(IC)}
        y(oc, h, w) == IF skip(oc, w) THEN {} ELSE sum(oc, h, w) IN
    Elements([i \in Upto(OC * HW) |-> y(i \div HW, (i \div W) % H, i % W)], Ref!Correlation(IC, OC, H, W))

\* In fixed point: seven bits of weight below the index of the neighbour.
emit_ai_bench_resize(C, H, W) ==
    LET OW == 2 * W
        OH == 2 * H
        side(o, extent) ==
          LET input == o * 64
              first == input \div 128
              weight == input - first * 128 IN
          {<<"near", first, 128 - weight>>,
           <<"far", IF first + 1 > extent - 1 THEN extent - 1 ELSE first + 1, weight>>}
        y(c, oh, ow) == {<<v[1], u[1], c * H * W + v[2] * W + u[2], v[3], u[3]>> : v \in side(oh, H), u \in side(ow, W)} IN
    Elements([i \in Upto(C * OH * OW) |-> y(i \div (OH * OW), (i \div OW) % OH, i % OW)], Ref!Resize(C, H, W))

\* Columns are subtracted in 8 bits and clipped to the row; what lies left of it counts as zero.
I8(v) == ((v + 128) % 256) - 128
emit_ai_bench_warp(C, H, W, offset) ==
    LET right(hW, w) == I8(w - offset[hW + w])
        left(hW, w) == I8(right(hW, w) - 1)
        clipped(v) == IF v < 0 THEN 0 ELSE IF v > W - 1 THEN W - 1 ELSE v
        taken(side, v, row_base) == IF v >= 0 THEN {<<side, row_base + clipped(v)>>} ELSE {}
        y(hW, w, row_base) == taken("right", right(hW, w), row_base) \cup taken("left", left(hW, w), row_base)
        hWOf(i) == ((i \div W) % H) * W IN
    Elements([i \in Upto(C * H * W) |-> y(hWOf(i), i % W, (i \div (H * W)) * H * W + hWOf(i))],
             Ref!Warp(C, H, W, offset))

(***************************************************************************)
(* The fall-back: a loop over the elements of a matrix, in which every op of *)
(* the intent becomes a scalar instruction.  An operand is                  *)
(*   dims   the axes of the matrix it spans (none for a scalar)             *)
(*   at     its elements, row-major, from 0                                 *)
(* Numbers are integers; those of 8 bits wrap.                             *)
(***************************************************************************)
(***************************************************************************)
(* A vector as long as a row is taken for one value per column, whatever    *)
(* axis it spans; any other is as long as a column, a value per row.         *)
(***************************************************************************)
emit_load(operand, m, n, M, N) ==
    CASE Len(operand.dims) = 0 -> operand.at[0]
      [] Len(operand.dims) = 1 /\ Cardinality(DOMAIN operand.at) = N -> operand.at[n]
      [] Len(operand.dims) = 1 /\ Cardinality(DOMAIN operand.at) = M /\ M # N -> operand.at[m]
      [] Len(operand.dims) = 2 -> operand.at[m * N + n]

\* select: one where the condition holds.
Select(p) == IF p THEN 1 ELSE 0
Nonzero(a) == a # 0

\* arith.cmpf and arith.cmpi.
emit_compare(op, a, b) ==
    Select(CASE op = "eq" -> a = b
             [] op = "ne" -> a # b
             [] op = "lt" -> a < b
             [] op = "le" -> a <= b
             [] op = "gt" -> a > b
             [] op = "ge" -> a >= b)

\* Booleans are bytes, true when not zero; a cast to one and from one normalises it.
emit_logic(op, a, b) ==
    Select(CASE op = "and" -> Nonzero(a) /\ Nonzero(b)
             [] op = "or" -> Nonzero(a) \/ Nonzero(b)
             [] op = "not" -> ~Nonzero(a))
emit_cast(a) == Select(Nonzero(a))
emit_where(cond, a, b) == IF Nonzero(cond) THEN a ELSE b

(***************************************************************************)
(* The sums, differences and products of integers wrap.  Their maximum and   *)
(* minimum compare them without sign (README, Known disagreements).         *)
(***************************************************************************)
Unsigned(a) == a % 256
FloorDiv(a, b) == IF b > 0 THEN a \div b ELSE (-a) \div (-b)
emit_binary(op, a, b) ==
    CASE op = "add" -> I8(a + b)
      [] op = "sub" -> I8(a - b)
      [] op = "mul" -> I8(a * b)
      [] op = "max" -> IF Unsigned(a) >= Unsigned(b) THEN a ELSE b
      [] op = "min" -> IF Unsigned(a) <= Unsigned(b) THEN a ELSE b
      [] op = "remainder" -> a - FloorDiv(a, b) * b

emit_unary(op, a) ==
    CASE op = "relu" -> IF a > 0 THEN a ELSE 0
      [] op = "abs" -> IF a < 0 THEN -a ELSE a
      [] op = "neg" -> -a

Instruction(op, a, b) ==
    CASE op \in {"eq", "ne", "lt", "le", "gt", "ge"} -> emit_compare(op, a, b)
      [] op \in {"and", "or", "not"} -> emit_logic(op, a, b)
      [] op = "bool" -> emit_cast(a)
      [] op = "where" -> emit_where(a, b, -b)
      [] op \in {"add", "sub", "mul", "max", "min", "remainder"} -> emit_binary(op, a, b)
      [] op \in {"relu", "abs", "neg"} -> emit_unary(op, a)

emit_elementwise(op, x, y, M, N) ==
    LET value(m, n) == Number(Instruction(op, emit_load(x, m, n, M, N), emit_load(y, m, n, M, N)))
        body(m) == <<Write("y", [i \in RowPlaces(m, N) |-> value(m, i - m * N)])>>
        expected(o) == Number(Ref!Elementwise(op, Ref!AtIndex(x, o, <<M, N>>), Ref!AtIndex(y, o, <<M, N>>))) IN
    Sequential(ForRows(M, body), Output("y", Ref!RowMajor(<<M, N>>, expected)))

\* Comparisons of two matrices, and bitwise ops on one or two, element i with element i.
emit_cmp2d(op, x, y, M, N) ==
    LET expected(o) == Number(Ref!Elementwise(op, Ref!AtIndex(x, o, <<M, N>>), Ref!AtIndex(y, o, <<M, N>>))) IN
    Elements([i \in Upto(M * N) |-> Number(emit_compare(op, x.at[i], y.at[i]))],
             Ref!RowMajor(<<M, N>>, expected))
emit_bitwise2d(operands, M, N) ==
    LET y(i) == {<<operand, i>> : operand \in operands}
        expected(o) == y(Ref!Flat(o, <<M, N>>)) IN
    Elements([i \in Upto(M * N) |-> y(i)], Ref!RowMajor(<<M, N>>, expected))

\* A chain of const 0, gt and where over one matrix becomes a single relu.
rewrite_relu2d(ops, v) ==
    IF ops = <<"const", "gt", "where">> THEN emit_unary("relu", v) ELSE emit_where(emit_compare("gt", v, 0), v, 0)
emit_relu2d(ops, x, M, N) ==
    LET expected(o) == Number(Ref!Elementwise("relu", Ref!AtIndex(x, o, <<M, N>>), 0)) IN
    Elements([i \in Upto(M * N) |-> Number(rewrite_relu2d(ops, x.at[i]))], Ref!RowMajor(<<M, N>>, expected))

(***************************************************************************)
(* The loop nest emitted for a kernel that is known by its name, at M by N,  *)
(* with the inner extent K.  Only these names are emitted as what they are   *)
(* called; every other kernel goes by the ops of its intent.                *)
(***************************************************************************)
NoEpilogue == [relu |-> FALSE, bias |-> FALSE, row_mask |-> <<>>, col_mask |-> <<>>]
lower_intent_to_rvv_cpu_kernel(M, N, K) ==
    LET ab == <<[name |-> "A", shape |-> <<M, K>>], [name |-> "B", shape |-> <<K, N>>],
                [name |-> "AB", shape |-> <<M, N>>]>>
        matmul(p) == emit_matmul2d(ab, M, N, p)
        flipped == [i \in Upto(M * N) |-> N - 1 - (i % N)]
        matrix == [dims |-> <<0, 1>>, at |-> [i \in Upto(M * N) |-> (i % 5) - 2]] IN
    "softmax_inner" :> emit_softmax_inner(M, N) @@ "log_softmax2d" :> emit_log_softmax2d(M, N)
    @@ "flash_attention2d" :> emit_attention2d_causal(M + 2, N, K, 2)
    @@ "masked_attention2d" :> emit_attention2d_causal(M, M + N, K, 3)
    @@ "_attn_fwd" :> emit_attn_fwd(M, N, K)
    @@ "ai_bench_softmax" :> emit_row_softmax2d(M, N, <<>>)
    @@ "masked_softmax2d" :> emit_row_softmax2d(M, N, [n \in 1 .. N |-> n % 2])
    @@ "diag2d" :> emit_diag2d(M, N, M)
    @@ "gather2d" :> emit_gather2d([i \in Upto(K) |-> i % M], [i \in Upto(K) |-> (i + 1) % N], M, N)
    @@ "flip2d" :> emit_gather2d([i \in Upto(M * N) |-> i \div N], flipped, M, N)
    @@ "vstack2d" :> emit_concat2d_axis0(M, K, N) @@ "hstack2d" :> emit_concat2d_axis1(M, N, K)
    @@ "grouped_row_sum2d" :> emit_grouped_row_sum2d(M, 2 * N, N)
    @@ "any_kernel_dim" :> emit_row_reduce_any([m \in 1 .. M |-> [n \in 1 .. N |-> IF n = 2 THEN m - 1 ELSE 0]])
    @@ "row_mean" :> emit_row_mean(M, N)
    @@ "ai_bench_matmul" :> matmul(NoEpilogue)
    @@ "matmul_relu2d" :> matmul([NoEpilogue EXCEPT !.relu = TRUE])
    @@ "matmul_bias_relu2d" :> matmul([NoEpilogue EXCEPT !.relu = TRUE, !.bias = TRUE])
    @@ "matmul_fused_epilogue2d" :> matmul([NoEpilogue EXCEPT !.bias = TRUE, !.row_mask = [m \in 1 .. M |-> m % 2],
                                                              !.col_mask = [n \in 1 .. N |-> (n + 1) % 2]])
    @@ "mlp2d" :> emit_mlp2d(M, K, N, K)
    @@ "count_nonzero2d" :> emit_count_nonzero2d([i \in 1 .. M * N |-> i % 3])
    @@ "trace2d" :> emit_trace2d(M, N)
    @@ "rms_norm2d" :> emit_rms_norm2d(M, N) @@ "rms_norm_residual2d" :> emit_rms_norm_residual2d(M, N)
    @@ "layer_norm_persistent" :> emit_layer_norm_persistent(M, N)
    @@ "ai_bench_layernorm" :> emit_layer_norm_persistent(N, M)
    @@ "layer_norm_residual2d" :> emit_layer_norm_residual2d(M, N)
    @@ "ai_bench_dropout" :> emit_ai_bench_dropout(N) @@ "ai_bench_rope" :> emit_ai_bench_rope(M, 1, K, N)
    @@ "ai_bench_correlation" :> emit_ai_bench_correlation(M, N, K, N + 1)
    @@ "ai_bench_resize" :> emit_ai_bench_resize(M, K, N)
    @@ "group_norm_kernel" :> emit_group_norm(M, 2 * K, N, K)
    @@ "arange1d" :> emit_arange1d(3, -2, N)
    @@ "bitwise_and2d" :> emit_bitwise2d({"A", "B"}, M, N) @@ "bitwise_not2d" :> emit_bitwise2d({"A"}, M, N)
    @@ "lt2d" :> emit_cmp2d("lt", matrix, [matrix EXCEPT !.at = flipped], M, N)
==============================================================================
