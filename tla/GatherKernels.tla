----------------------------- MODULE GatherKernels -----------------------------
(***************************************************************************)
(* The emitted CUDA kernels in which a thread computes an output element by  *)
(* itself, from input elements whose places it works out with index          *)
(* arithmetic.  A launch is a family of blocks; each must leave in its part  *)
(* of the output what the reference interpreter says, and no element may be  *)
(* left out by all of them.                                                *)
(***************************************************************************)
EXTENDS BlockShape

Ref == INSTANCE InterpreterOps
Numpy == INSTANCE InterpreterTensors
LOCAL INSTANCE SequencesExt
LOCAL INSTANCE FiniteSetsExt

Upto(n) == 0 .. n - 1
CeilDiv(x, y) == (x + y - 1) \div y

(***************************************************************************)
(* The blocks of a launch: by[b] is the part of the output block b writes    *)
(* and the thread that writes each element.  read[c] is what goes into       *)
(* element c, want[c] what the interpreter says.                           *)
(***************************************************************************)
Launch(by, read, pick, want) ==
    LET missed == DOMAIN want \ UNION {DOMAIN by[b] : b \in DOMAIN by} IN
    [b \in DOMAIN by |->
        LET gathers == Picking(Put(Ts, by[b], [c \in DOMAIN by[b] |-> read[c]]), pick)
            output == [c \in DOMAIN by[b] \cup missed |-> want[c]] IN
        [Leaving(Ts, <<gathers>>, output) EXCEPT !.cells = DOMAIN output]]

Sums(contributions) == [c \in DOMAIN contributions |-> SetToBag(contributions[c])]

\* One thread per element: grid of ceil(total / block) blocks, elements past the total skipped.
LinearBlocks(total) ==
    [b \in Upto(CeilDiv(total, Width)) |->
        [lin \in {l \in b * Width .. (b + 1) * Width - 1 : l < total} |-> lin - b * Width]]

Gather(total, read, contributions) == Launch(LinearBlocks(total), read, "sum", Sums(contributions))

\* Blocks along the last dimension, one row of blocks per pair of the outer two.
RowBlocks(outer, rows, w) ==
    [b \in Upto(outer) \X Upto(rows) \X Upto(CeilDiv(w, Width)) |->
        [c \in {(b[1] * rows + b[2]) * w + x : x \in {y \in b[3] * Width .. (b[3] + 1) * Width - 1 : y < w}} |->
            (c % w) - b[3] * Width]]

(***************************************************************************)
(* Convolutions: the thread of output element lin decodes its coordinates    *)
(* and walks over the channels of its group and over the window, skipping    *)
(* what lies outside the input.                                            *)
(***************************************************************************)
Spatial(o, k, p, d) == o * p.stride[d] + k * p.dilation[d] - p.pad[d]
Inside(at, p, d) == at >= 0 /\ at < p.input[d]

conv1d_ncl_v1(p) ==
    LET OL == Ref!ConvOut(p)[1]
        L == p.input[1]
        K == p.window[1]
        C_PER_G == p.cin \div p.groups
        total == p.n * p.cout * OL
        read(lin) ==
          LET ol == lin % OL
              oc == (lin \div OL) % p.cout
              nn == (lin \div OL) \div p.cout
              in_c_base == (oc \div (p.cout \div p.groups)) * C_PER_G IN
          {<<"bias", oc, 0>>}
          \cup {<<"tap", (nn * p.cin + in_c_base + t[1]) * L + Spatial(ol, t[2], p, 1),
                  (oc * C_PER_G + t[1]) * K + t[2]>> :
                  t \in {u \in Upto(C_PER_G) \X Upto(K) : Inside(Spatial(ol, u[2], p, 1), p, 1)}} IN
    Gather(total, [lin \in Upto(total) |-> read(lin)], Ref!Conv(p))

\* The window of an image at output place (oh, ow): the place in the plane and in the weights.
Window2d(oh, ow, p) ==
    {<<Spatial(oh, k[1], p, 1) * p.input[2] + Spatial(ow, k[2], p, 2), k[1] * p.window[2] + k[2]>> :
        k \in {j \in Upto(p.window[1]) \X Upto(p.window[2]) :
                  Inside(Spatial(oh, j[1], p, 1), p, 1) /\ Inside(Spatial(ow, j[2], p, 2), p, 2)}}

conv2d_nchw_v1(p) ==
    LET OH == Ref!ConvOut(p)[1]
        OW == Ref!ConvOut(p)[2]
        HW == p.input[1] * p.input[2]
        KHKW == p.window[1] * p.window[2]
        C_PER_G == p.cin \div p.groups
        total == p.n * p.cout * OH * OW
        read(lin) ==
          LET oh == (lin \div OW) % OH
              oc == (lin \div (OW * OH)) % p.cout
              nn == (lin \div (OW * OH)) \div p.cout
              in_c_base == (oc \div (p.cout \div p.groups)) * C_PER_G IN
          {<<"bias", oc, 0>>}
          \cup {<<"tap", (nn * p.cin + in_c_base + t[1]) * HW + t[2][1], (oc * C_PER_G + t[1]) * KHKW + t[2][2]>> :
                  t \in Upto(C_PER_G) \X Window2d(oh, lin % OW, p)} IN
    Gather(total, [lin \in Upto(total) |-> read(lin)], Ref!Conv(p))

conv3d_ncdhw_v1(p) ==
    LET OD == Ref!ConvOut(p)[1]
        OH == Ref!ConvOut(p)[2]
        OW == Ref!ConvOut(p)[3]
        HW == p.input[2] * p.input[3]
        KHKW == p.window[2] * p.window[3]
        C_PER_G == p.cin \div p.groups
        total == p.n * p.cout * OD * OH * OW
        read(lin) ==
          LET rest == lin \div (OW * OH * OD)
              at(k) == <<Spatial((lin \div (OW * OH)) % OD, k[1], p, 1),
                         Spatial((lin \div OW) % OH, k[2], p, 2), Spatial(lin % OW, k[3], p, 3)>>
              oc == rest % p.cout
              nn == rest \div p.cout
              in_c_base == (oc \div (p.cout \div p.groups)) * C_PER_G
              taps == {k \in Upto(p.window[1]) \X Upto(p.window[2]) \X Upto(p.window[3]) :
                         \A d \in 1 .. 3 : Inside(at(k)[d], p, d)} IN
          {<<"bias", oc, 0>>}
          \cup {<<"tap", (nn * p.cin + in_c_base + t[1]) * p.input[1] * HW
                         + at(t[2])[1] * HW + at(t[2])[2] * p.input[3] + at(t[2])[3],
                  (oc * C_PER_G + t[1]) * p.window[1] * KHKW
                  + t[2][1] * KHKW + t[2][2] * p.window[3] + t[2][3]>> : t \in Upto(C_PER_G) \X taps} IN
    Gather(total, [lin \in Upto(total) |-> read(lin)], Ref!Conv(p))

\* Every input channel has mult outputs of its own: torch's convolution with cin groups.
conv_depthwise2d_nchw_v1(p) ==
    LET OH == Ref!ConvOut(p)[1]
        OW == Ref!ConvOut(p)[2]
        mult == p.cout \div p.cin
        total == p.n * p.cout * OH * OW
        read(lin) ==
          LET oc == (lin \div (OW * OH)) % p.cout
              nn == (lin \div (OW * OH)) \div p.cout IN
          {<<"bias", oc, 0>>}
          \cup {<<"tap", (nn * p.cin + (oc \div mult)) * p.input[1] * p.input[2] + t[1],
                  oc * p.window[1] * p.window[2] + t[2]>> : t \in Window2d((lin \div OW) % OH, lin % OW, p)} IN
    Gather(total, [lin \in Upto(total) |-> read(lin)], Ref!Conv(p))

(***************************************************************************)
(* A convolution of l by l attention scores whose rows are softmaxes of what *)
(* lies on or below the diagonal; the output is masked the same way.        *)
(***************************************************************************)
multi_token_attention_fused_v1(p) ==
    LET OH == Ref!ConvOut(p)[1]
        OW == Ref!ConvOut(p)[2]
        l == p.input[1]
        C_PER_G == p.cin \div p.groups
        total == p.n * p.cout * OH * OW
        read(lin) ==
          LET oh == (lin \div OW) % OH
              co == (lin \div (OW * OH)) % p.cout
              b == (lin \div (OW * OH * p.cout)) % p.n
              cin_group_base == (co \div (p.cout \div p.groups)) * C_PER_G IN
          IF lin % OW > oh THEN {}
          ELSE {<<"bias", co, 0>>}
               \cup {<<"tap", ((b * p.cin + cin_group_base + t[1]) * l) * l + t[2][1],
                       (co * C_PER_G + t[1]) * p.window[1] * p.window[2] + t[2][2]>> :
                       t \in Upto(C_PER_G) \X {w \in Window2d(oh, lin % OW, p) : w[1] % l <= w[1] \div l}}
        below(tap) == tap[1] = "bias" \/ tap[2] % l <= (tap[2] \div l) % l
        want(lin) == IF lin % OW > (lin \div OW) % OH THEN {} ELSE {tap \in Ref!Conv(p)[lin] : below(tap)} IN
    Gather(total, [lin \in Upto(total) |-> read(lin)], [lin \in Upto(total) |-> want(lin)])

\* The top left corner of the window of lin, in the input and in the plane.
Corner(lin, p) ==
    LET OH == Ref!PoolOut(p)[1]
        OW == Ref!PoolOut(p)[2]
        plane == (lin \div (OW * OH)) * p.input[1] * p.input[2]
        at == (((lin \div OW) % OH) * 2) * p.input[2] + (lin % OW) * 2 IN
    <<plane + at, at>>
WindowOffsets(p) == {0, 1, p.input[2], p.input[2] + 1}

avg_pool2d_nchw_v1(p) ==
    LET total == p.n * p.c * Ref!PoolOut(p)[1] * Ref!PoolOut(p)[2] IN
    Gather(total, [lin \in Upto(total) |-> {<<"x", Corner(lin, p)[1] + i>> : i \in WindowOffsets(p)}],
           Ref!AvgPool2d(p))

max_pool2d_with_indices_nchw_v1(p, x) ==
    LET total == p.n * p.c * Ref!PoolOut(p)[1] * Ref!PoolOut(p)[2]
        read(lin) == {<<x[Corner(lin, p)[1] + i], Corner(lin, p)[2] + i>> : i \in WindowOffsets(p)} IN
    Launch(LinearBlocks(total), [lin \in Upto(total) |-> read(lin)], "top", Ref!MaxPool2d(p, x))

stack2d_v1(m, n) ==
    Gather(2 * m * n, [lin \in Upto(2 * m * n) |-> {<<"part", lin \div (m * n), lin % (m * n)>>}], Ref!Stack(m, n))

polar2d_v1(m, n) ==
    Gather(2 * m * n, [lin \in Upto(2 * m * n) |-> {<<IF lin % 2 = 0 THEN "cos" ELSE "sin", lin \div 2>>}],
           Ref!Polar(m, n))

diag_embed2d_v1(b, n) ==
    LET total == b * n * n
        read(lin) == LET rem == lin % (n * n)
                         ii == rem \div n IN
                     IF ii = rem % n THEN {<<"x", (lin \div (n * n)) * n + ii>>} ELSE {} IN
    Gather(total, [lin \in Upto(total) |-> read(lin)], Ref!DiagEmbed(b, n))

kron2d_v1(m, n, p, q) ==
    LET total == m * p * n * q
        read(lin) == LET out_row == lin \div (n * q)
                         out_col == lin % (n * q) IN
                     {<<"product", (out_row \div p) * n + (out_col \div q), (out_row % p) * q + (out_col % q)>>} IN
    Gather(total, [lin \in Upto(total) |-> read(lin)], Ref!Kron(m, n, p, q))

upsample_nearest1d_ncl_v1(n, c, il, ol) ==
    LET total == n * c * ol IN
    Gather(total, [lin \in Upto(total) |-> {<<"x", (lin \div ol) * il + (((lin % ol) * il) \div ol)>>}],
           Ref!UpsampleNearest(n, c, <<il>>, <<ol>>))

upsample_nearest2d_nchw_v1(n, c, input, output) ==
    LET total == n * c * output[1] * output[2]
        read(lin) == LET oh == (lin \div output[2]) % output[1]
                         ncc == lin \div (output[2] * output[1]) IN
                     {<<"x", ncc * input[1] * input[2] + ((oh * input[1]) \div output[1]) * input[2]
                             + (((lin % output[2]) * input[2]) \div output[2])>>} IN
    Gather(total, [lin \in Upto(total) |-> read(lin)], Ref!UpsampleNearest(n, c, input, output))

glu2d_v1(m, half) ==
    LET idx_a(lin) == (lin \div half) * (2 * half) + (lin % half) IN
    Gather(m * half, [lin \in Upto(m * half) |-> {<<"value", idx_a(lin)>>, <<"gate", idx_a(lin) + half>>}],
           Ref!Glu(m, half))

\* Philox on the element's own offset decides whether it is kept.
dropout_philox_v1(n) == Gather(n, [idx \in Upto(n) |-> {<<"x", idx, idx>>}], Ref!Dropout(n))

correlation_v1(ic, oc, h, w) ==
    LET HW == h * w
        read(c) == LET base0 == c % HW IN
                   IF c % w < c \div HW THEN {}
                   ELSE {<<"product", i * HW + base0, i * HW + base0 - (c \div HW)>> : i \in Upto(ic)} IN
    Launch(RowBlocks(oc, h, w), [c \in Upto(oc * HW) |-> read(c)], "sum", Sums(Ref!Correlation(ic, oc, h, w)))

\* Where a neighbour would lie past the edge, the last row or column is taken instead.
Side(o, extent) ==
    LET first == o \div 2
        second == IF first + 1 < extent THEN first + 1 ELSE extent - 1 IN
    {<<"near", first, 128 - (o % 2) * 64>>, <<"far", second, (o % 2) * 64>>}
resize_bilinear2x_hwfl7_v1(c, h, w) ==
    LET OH == 2 * h
        OW == 2 * w
        read(o) == {<<y[1], x[1], (o \div (OH * OW)) * h * w + y[2] * w + x[2], y[3], x[3]>> :
                       y \in Side((o \div OW) % OH, h), x \in Side(o % OW, w)} IN
    Launch(RowBlocks(c, OH, OW), [o \in Upto(c * OH * OW) |-> read(o)], "sum", Sums(Ref!Resize(c, h, w)))

\* What lies right of the row is not clipped to it: the offsets of a launch are none to the right.
warp_v1(c, h, w, offset) ==
    LET read(o) == LET src_base == (o \div w) * w
                       right == (o % w) - offset[o % (h * w)]
                       taken(side, x) == IF x >= 0 THEN {<<side, src_base + x>>} ELSE {} IN
                   taken("right", right) \cup taken("left", right - 1) IN
    Launch(RowBlocks(c, h, w), [o \in Upto(c * h * w) |-> read(o)], "sum", Sums(Ref!Warp(c, h, w, offset)))

(***************************************************************************)
(* A block per head, batch and position; the threads stride over the half of *)
(* the head, and each writes the two elements of its pair.                  *)
(***************************************************************************)
RopeBlocks(heads, batch, seq, half) ==
    LET base(b) == ((b[3] * batch + b[2]) * heads + b[1]) * 2 * half IN
    [b \in Upto(heads) \X Upto(batch) \X Upto(seq) |->
        [c \in {base(b) + j : j \in Upto(2 * half)} |-> ((c - base(b)) % half) % Width]]
rope_v1(seq, batch, heads, half) ==
    LET total == seq * batch * heads * 2 * half
        read(c) == LET first == (c % (2 * half)) < half
                       idx1 == IF first THEN c ELSE c - half
                       cidx == (c \div (2 * half * batch * heads)) * half + (idx1 % (2 * half)) IN
                   IF first THEN {<<"cos", idx1, cidx>>, <<"minus sin", idx1 + half, cidx>>}
                   ELSE {<<"sin", idx1, cidx>>, <<"cos", idx1 + half, cidx>>} IN
    Launch(RopeBlocks(heads, batch, seq, half), [c \in Upto(total) |-> read(c)], "sum",
           Sums(Ref!Rope(seq, batch, heads, half)))

\* Queries and keys, of different numbers of heads, in one launch; both read the cosine's place.
rope_dual_v1(p) ==
    LET heads == [q |-> p.qh, k |-> p.kh]
        base(x, b) == (IF p.layout = "bshd" THEN (b[2] * p.s + b[3]) * heads[x] + b[1]
                       ELSE (b[2] * heads[x] + b[1]) * p.s + b[3]) * 2 * p.half
        grid == {b \in Upto(p.qh + p.kh) \X Upto(p.b) \X Upto(p.s) : b[1] < p.qh \/ b[1] < p.kh}
        cells(b) == UNION {{<<x, base(x, b) + j>> : j \in Upto(2 * p.half)} : x \in {y \in DOMAIN heads : b[1] < heads[y]}}
        by == [b \in grid |-> [c \in cells(b) |-> (c[2] % p.half) % Width]]
        cidx(b, j) == ((IF p.cos_b = 1 THEN 0 ELSE b[2]) * p.s + b[3]) * p.cos_w + j
        read(c, b) ==
          LET first == (c[2] % (2 * p.half)) < p.half
              idx1 == IF first THEN c[2] ELSE c[2] - p.half
              angle == cidx(b, idx1 % p.half) IN
          IF first THEN {<<"cos", idx1, angle>>, <<"minus sin", idx1 + p.half, angle>>}
          ELSE {<<"sin", idx1, angle>>, <<"cos", idx1 + p.half, angle>>}
        written == UNION {DOMAIN by[b] : b \in grid}
        rotated(x) == Ref!RopeLayout(p, heads[x], p.layout)
        want == [c \in UNION {{x} \X DOMAIN rotated(x) : x \in DOMAIN heads} |-> rotated(c[1])[c[2]]] IN
    Launch(by, [c \in written |-> read(c, CHOOSE b \in grid : c \in DOMAIN by[b])], "sum", Sums(want))

(***************************************************************************)
(* A block of one warp per query of a head; lane tid has coordinate tid of   *)
(* the query, the keys and the values, and the score with a key is summed    *)
(* over the lanes by shuffles.                                             *)
(***************************************************************************)
sdpa_bhsd_v2(p) ==
    LET lanes == {t \in Ts : t < p.d}
        by(bid) == [c \in {bid * p.d + t : t \in lanes} |-> c - bid * p.d]
        read(c) ==
          LET bid == c \div p.d
              k_base0 == (bid \div p.q) * p.k
              inView == {kk \in Upto(p.k) : p.causal => ~(kk > bid % p.q)} IN
          {<<"score", bid * p.d + t, (k_base0 + kk) * p.d + t>> : kk \in inView, t \in lanes}
          \cup {<<"value", kk, (k_base0 + kk) * p.d + (c % p.d)>> : kk \in inView} IN
    Launch([bid \in Upto(p.b * p.h * p.q) |-> by(bid)], [c \in Upto(p.b * p.h * p.q * p.d) |-> read(c)],
           "sum", Sums(Ref!Sdpa(p)))

(***************************************************************************)
(* Kernels in which thread 0 does everything: the output is cleared, then    *)
(* the values not yet there are appended while there is room, and what is    *)
(* there sorted in place.                                                  *)
(***************************************************************************)
Alone(steps, output) ==
    LET put(s) == Picking(Put(Ts, [c \in DOMAIN s |-> 0], [c \in DOMAIN s |-> {s[c]}]), "min") IN
    Leaving(Ts, [i \in DOMAIN steps |-> put(steps[i])], output)

Appended(x, room) ==
    LET first == {i \in DOMAIN x : \A j \in 1 .. i - 1 : x[j] # x[i]}
        slot(i) == Cardinality({j \in first : j < i}) IN
    [s \in {slot(i) : i \in first} \cap Upto(room) |-> x[CHOOSE i \in first : slot(i) = s]]
Exchange(a, si, sj) == IF a[si] > a[sj] THEN [a EXCEPT ![si] = a[sj], ![sj] = a[si]] ELSE a
ExchangeSort(a, n) ==
    LET places == SetToSortSeq({p \in Upto(n) \X Upto(n) : p[1] < p[2]},
                               LAMBDA p, q : p[1] < q[1] \/ (p[1] = q[1] /\ p[2] < q[2])) IN
    FoldLeft(LAMBDA b, p : Exchange(b, p[1], p[2]), a, places)

unique2d_v1(x, room) ==
    LET cleared == [s \in Upto(room) |-> 0]
        appended == Appended(x, room)
        item(a) == [s \in Upto(room) |-> <<a[s], 0>>]
        want == Ref!Unique(x) IN
    Alone(<<item(cleared), item(appended @@ cleared), item(ExchangeSort(appended @@ cleared, room))>>,
          [s \in Upto(room) |-> <<want[s + 1], 0>>])

\* The coordinates of the first room non-zero elements of an image with rows of n.
nonzero2d_v1(x, n, room) ==
    LET found == {ii \in Upto(Len(x)) : x[ii + 1] # 0}
        pos(ii) == Cardinality({jj \in found : jj < ii})
        at(s) == CHOOSE ii \in found : pos(ii) = s
        want == Ref!Nonzero(x, n) IN
    Alone(<<[s \in {pos(ii) : ii \in found} \cap Upto(room) |-> <<at(s) \div n, at(s) % n>>]>>,
          [s \in Upto(room) |-> want[s + 1]])

(***************************************************************************)
(* Every other intent becomes one kernel, in which a thread computes elems    *)
(* neighbouring elements op by op.  A tensor has the axes dims of the output  *)
(* that it spans and its elements at, row-major; a number has a type, i32     *)
(* counting in 8 bits and f32 in halves.                                   *)
(***************************************************************************)
\* How a tensor is read is told by its extents alone.
arg_specs_broadcast(shape, out_dims) ==
    IF shape = <<>> THEN "scalar"
    ELSE IF Ref!Size(shape) = Ref!Size(out_dims) THEN "elementwise"
    ELSE IF Len(out_dims) = 2 /\ shape = <<out_dims[2]>> THEN "broadcast_n"
    ELSE IF Len(out_dims) = 2 /\ shape = <<out_dims[1]>> THEN "broadcast_m" ELSE "none"
Extents(tensor, out_dims) == [d \in DOMAIN tensor.dims |-> out_dims[tensor.dims[d] + 1]]

\* The row's value taken by the column.
_load_tensor_fault(bcast, out_dims, idx) ==
    CASE bcast = "scalar" -> 0
      [] bcast = "elementwise" -> idx
      [] bcast = "broadcast_n" -> idx % out_dims[2]
      [] bcast = "broadcast_m" -> idx % out_dims[1]

\* Where element idx of the output finds its operand.
_load_tensor(bcast, out_dims, idx) ==
    CASE bcast = "scalar" -> 0
      [] bcast = "elementwise" -> idx
      [] bcast = "broadcast_n" -> idx % out_dims[2]
      [] bcast = "broadcast_m" -> idx \div out_dims[2]

\* The same for lane of a vector of elements from base on, loaded or copied as a whole.
_load_tensor_vector(bcast, out_dims, base, lane) ==
    CASE bcast = "scalar" -> 0
      [] bcast = "elementwise" -> base + lane
      [] bcast = "broadcast_n" -> (base % out_dims[2]) + lane
      [] bcast = "broadcast_m" -> base \div out_dims[2]

_eligible_for_vectorization_with(elems, op, tensors, out_dims) ==
    LET kinds == {arg_specs_broadcast(Extents(tensors[k], out_dims), out_dims) : k \in DOMAIN tensors} IN
    /\ elems > 1
    /\ Ref!Size(out_dims) % elems = 0
    /\ "none" \notin kinds
    /\ kinds \cap {"broadcast_n", "broadcast_m"} # {} => out_dims[2] % elems = 0
    /\ \A k \in DOMAIN tensors : \A i \in DOMAIN tensors[k].at : tensors[k].at[i].type = "f32"
    /\ op \in {"abs", "add", "ceil", "cos", "div", "erf", "exp", "floor", "identity", "log", "max", "min", "mul",
              "neg", "relu", "rsqrt", "sin", "sqrt", "sub", "tan", "tanh"}

_coerce_scalar(v, dst_ty) ==
    [type |-> dst_ty,
     value |-> CASE v.type = dst_ty -> v.value
                 [] v.type # "i1" /\ dst_ty = "i1" -> Ref!Truth(v.value # 0)
                 [] v.type = "f32" /\ dst_ty \in {"i32", "i64"} -> Numpy!Truncated(v.value)
                 [] v.type # "f32" /\ dst_ty = "f32" -> 2 * v.value
                 [] v.type = "i64" /\ dst_ty = "i32" -> Ref!Narrow(v.value)
                 [] v.type = "i1" /\ dst_ty \in {"i32", "i64"} -> v.value
                 [] v.type = "i32" /\ dst_ty = "i64" -> v.value]
Float(v) == _coerce_scalar(v, "f32").value

elementwise_arith(op, a, b, out_ty) ==
    LET lhs == _coerce_scalar(a, out_ty).value
        rhs == _coerce_scalar(b, out_ty).value
        exact == CASE op = "add" -> lhs + rhs
                   [] op = "sub" -> lhs - rhs
                   [] op = "mul" -> IF out_ty = "f32" THEN (lhs * rhs) \div 2 ELSE lhs * rhs IN
    [type |-> out_ty, value |-> IF out_ty = "i32" THEN Ref!Narrow(exact) ELSE exact]

\* Two numbers, or two truth values, of which max is the disjunction.
elementwise_max_min(op, a, b) ==
    LET either == a.value + b.value - a.value * b.value IN
    [a EXCEPT !.value = IF a.type = "i1" THEN IF op = "max" THEN either ELSE a.value * b.value
                        ELSE IF (op = "max") = (a.value > b.value) THEN a.value ELSE b.value]

\* Integers compare with their sign: the truth value 1 is -1 in one bit.
elementwise_cmp(op, a, b) ==
    LET types == {a.type, b.type}
        cmp_ty == IF "f32" \in types THEN "f32" ELSE IF "i64" \in types THEN "i64"
                  ELSE IF "i32" \in types THEN "i32" ELSE "i1"
        signed(v) == IF cmp_ty = "i1" THEN -v ELSE v
        lhs == signed(_coerce_scalar(a, cmp_ty).value)
        rhs == signed(_coerce_scalar(b, cmp_ty).value) IN
    [type |-> "i1",
     value |-> Ref!Truth(CASE op = "eq" -> lhs = rhs [] op = "ne" -> lhs # rhs [] op = "lt" -> lhs < rhs
                           [] op = "le" -> lhs <= rhs [] op = "gt" -> lhs > rhs [] op = "ge" -> lhs >= rhs)]

\* Two's complement; a right shift repeats the sign.
elementwise_bitwise(op, v) ==
    LET bits(k) == Numpy!Bits(v[k].value)
        shift == v[Len(v)].value
        set == CASE op = "bitwise_and" -> bits(1) \cap bits(2)
                 [] op = "bitwise_or" -> bits(1) \cup bits(2)
                 [] op = "bitwise_left_shift" -> {i \in Upto(8) : i - shift \in bits(1)}
                 [] op = "bitwise_right_shift" -> {i \in Upto(8) : (IF i + shift < 7 THEN i + shift ELSE 7) \in bits(1)}
                 [] op = "bitwise_not" -> Upto(8) \ bits(1) IN
    [type |-> "i32", value |-> Ref!Narrow(MapThenSumSet(LAMBDA i : 2 ^ i, set))]

\* x - floor(x / y) * y
elementwise_remainder(a, b) ==
    LET floor == IF b.value > 0 THEN a.value \div b.value ELSE (-a.value) \div (-b.value) IN
    [type |-> "f32", value |-> a.value - floor * b.value]

elementwise_unary(op, a) ==
    LET x == Float(a) IN
    [type |-> "f32",
     value |-> CASE op = "abs" -> IF x < 0 THEN -x ELSE x
                 [] op = "floor" -> x - (x % 2)
                 [] op = "ceil" -> x + (x % 2)
                 [] op = "neg" -> -x
                 [] op = "relu" -> IF x > 0 THEN x ELSE 0]

\* Functions of reals: which, and of what.
elementwise_math(op, v) == [type |-> "f32", value |-> <<op>> \o [k \in DOMAIN v |-> Float(v[k])]]

elementwise_where(cond, a, b, out_ty) ==
    IF cond.value # 0 THEN _coerce_scalar(a, out_ty) ELSE _coerce_scalar(b, out_ty)

elementwise_logic(op, v) ==
    [type |-> "i1", value |-> IF op = "and" THEN v[1].value * v[2].value ELSE 1 - v[1].value]

_emit_elementwise_for_index(op, v, out_ty) ==
    CASE op \in {"add", "sub", "mul"} -> elementwise_arith(op, v[1], v[2], out_ty)
      [] op \in {"max", "min"} -> elementwise_max_min(op, v[1], v[2])
      [] op \in {"eq", "ne", "lt", "le", "gt", "ge"} -> elementwise_cmp(op, v[1], v[2])
      [] op \in {"bitwise_and", "bitwise_or", "bitwise_left_shift", "bitwise_right_shift", "bitwise_not"} ->
           elementwise_bitwise(op, v)
      [] op = "remainder" -> elementwise_remainder(v[1], v[2])
      [] op = "cast" -> _coerce_scalar(v[1], out_ty)
      [] op = "identity" -> v[1]
      [] op \in {"abs", "floor", "ceil", "neg", "relu"} -> elementwise_unary(op, v[1])
      [] op = "where" -> elementwise_where(v[1], v[2], v[3], out_ty)
      [] op \in {"and", "not"} -> elementwise_logic(op, v)
      [] op \in {"div", "pow", "exp", "log", "sqrt", "rsqrt", "erf", "sin", "cos", "tan", "tanh", "acos", "atan"} ->
           elementwise_math(op, v)

\* The same for a lane of the vectors, which hold f32 only.
_emit_elementwise_vector_for_base(op, tensors, bcast, out_dims, base, lane) ==
    _emit_elementwise_for_index(
        op, [k \in DOMAIN tensors |-> tensors[k].at[_load_tensor_vector(bcast[k], out_dims, base, lane)]], "f32")

(***************************************************************************)
(* The launch: thread lin takes the elements from lin * elems on, those past  *)
(* the total left out; a vector lies within the total or not at all.         *)
(***************************************************************************)
ElementBlocks(total, elems) ==
    [b \in Upto(CeilDiv(total, Width * elems)) |->
        [i \in {j \in Upto(total) : j \div (elems * Width) = b} |-> (i \div elems) - b * Width]]

elementwise_v1(op, tensors, out_dims, out_ty, elems) ==
    LET vectorize == _eligible_for_vectorization_with(elems, op, tensors, out_dims)
        bcast == [k \in DOMAIN tensors |-> arg_specs_broadcast(Extents(tensors[k], out_dims), out_dims)]
        item(v) == {<<"number", v.type, v.value>>}
        operands(i) == [k \in DOMAIN tensors |-> tensors[k].at[_load_tensor(bcast[k], out_dims, i)]]
        got(i) == item(IF vectorize THEN _emit_elementwise_vector_for_base(op, tensors, bcast, out_dims, i - (i % elems), i % elems)
                       ELSE _emit_elementwise_for_index(op, operands(i), out_ty))
        want(o) == item(Numpy!Ufunc(op, [k \in DOMAIN tensors |-> Ref!AtIndex(tensors[k], o, out_dims)], out_ty))
        total == Ref!Size(out_dims) IN
    Launch(ElementBlocks(total, elems), [i \in Upto(total) |-> got(i)], "sum", Sums(Ref!RowMajor(out_dims, want)))

(***************************************************************************)
(* Ops that move elements, by the row and the column of the output.          *)
(***************************************************************************)
elementwise_moves(total, elems, idx(_), contributions) ==
    Launch(ElementBlocks(total, elems), [i \in Upto(total) |-> {idx(i)}], "sum", Sums(contributions))

elementwise_iota(dims, axis, elems) ==
    LET stride == Ref!Size(SubSeq(dims, axis + 1, Len(dims)))
        coord(i) == <<"number", (i \div stride) % dims[axis]>> IN
    elementwise_moves(Ref!Size(dims), elems, coord, Numpy!Iota(dims, axis))

elementwise_concat(a, b, axis, elems) ==
    LET N == IF axis = 1 THEN a[2] + b[2] ELSE a[2]
        columns(row, col) == IF col < a[2] THEN <<"part", 1, row * a[2] + col>>
                             ELSE <<"part", 2, row * b[2] + (col - a[2])>>
        rows(row, col) == IF row < a[1] THEN <<"part", 1, row * a[2] + col>>
                          ELSE <<"part", 2, (row - a[1]) * a[2] + col>>
        part(i) == IF axis = 1 THEN columns(i \div N, i % N) ELSE rows(i \div N, i % N)
        total == Ref!Size(a) + Ref!Size(b) IN
    elementwise_moves(total, elems, part, Numpy!ConcatAlong(<<a, b>>, axis + 1))

elementwise_pad(shape, before, after, elems) ==
    LET out_dims == Numpy!PadShape(shape, before, after)
        inside(at, d) == at >= before[d] /\ at < before[d] + shape[d]
        padded(row, col) == IF inside(row, 1) /\ inside(col, 2)
                            THEN <<"x", (row - before[1]) * shape[2] + (col - before[2])>> ELSE <<"value", 0>>
        at(i) == padded(i \div out_dims[2], i % out_dims[2]) IN
    elementwise_moves(Ref!Size(out_dims), elems, at, Numpy!Pad(shape, before, after))

\* One index tensor for every axis of the input, read by the rules of an operand.
elementwise_gather(shape, out_dims, at, shapes, elems) ==
    LET index(a, i) == at[a][_load_tensor(arg_specs_broadcast(shapes[a], out_dims), out_dims, i)]
        acc(i) == <<"x", FoldLeft(LAMBDA sum, a : sum * shape[a] + index(a, i), 0, [a \in DOMAIN shape |-> a])>>
        aligned == [a \in DOMAIN shapes |-> IF Len(shapes[a]) = 1 THEN <<1>> \o shapes[a] ELSE shapes[a]] IN
    elementwise_moves(Ref!Size(out_dims), elems, acc, Ref!GatherAll(shape, out_dims, at, aligned))

elementwise_transpose(m, n, elems) ==
    LET from(i) == <<"x", (i % m) * n + (i \div m)>> IN
    elementwise_moves(m * n, elems, from, Ref!Transpose(m, n))
================================================================================
