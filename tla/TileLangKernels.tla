---------------------------- MODULE TileLangKernels -----------------------------
(***************************************************************************)
(* The kernels of the TileLang pipeline: for each, the deterministic intent    *)
(* and the numpy reference (tilelang/core.py), the PrimFunc that the pipeline  *)
(* executes (kernels/tilelang/ops) and the outcome of comparing the intent     *)
(* with the arrays of the one and of the other.  The extents a PrimFunc is     *)
(* built for are small here, and so are its tiles.  The arrays are those of a  *)
(* case that brings its inputs; without them arrays of one seed are equal.     *)
(* An intent's tensors are left out where the interpreter does not ask for      *)
(* their shapes.                                                           *)
(***************************************************************************)
EXTENDS DiffRunner

LOCAL INSTANCE TLC
LOCAL INSTANCE SequencesExt
LOCAL INSTANCE FiniteSetsExt

\* The eps of the norms (1e-5) and the score of a masked element (-1e9, the least number here).
Eps == 5
Masked == -48

(***************************************************************************)
(* The tile language: what the programs of a launch write, and fragments.      *)
(***************************************************************************)
\* An element that no program writes, or that two programs write differently, is no number.
Launched(class, shape, pids, writes(_)) ==
    LET parts == [p \in pids |-> writes(p) @@ <<>>] @@ <<>>
        at(o) == LET values == {parts[p][o] : p \in {q \in pids : o \in DOMAIN parts[q]}} IN
                 IF Cardinality(values) = 1 THEN CHOOSE v \in values : TRUE ELSE NaN IN
    Filled(class, shape, at)
\* One program for every row, writing the row or a value.
RowLaunch(shape, row(_)) ==
    LET writes(p) == LET held == row(p) @@ <<>> IN [o \in {<<p, r>> : r \in DOMAIN held} |-> held[o[2]]] IN
    Launched("float", shape, Extent(shape[1]), writes)
ValueLaunch(class, rows, value(_)) ==
    LET writes(p) == <<p>> :> value(p) IN Launched(class, <<rows>>, Extent(rows), writes)
Fragment(t) == [r \in Extent(t.shape[1]) |-> At(t, <<r>>)]

\* A tile of an array from row r and column c on, with zeros behind the array's end.
Tile2(t, r, c, h, w) ==
    [p \in Extent(h) \X Extent(w) |->
        IF r + p[1] < t.shape[1] /\ c + p[2] < t.shape[2] THEN At(t, <<r + p[1], c + p[2]>>) ELSE 0]
Strip(t, from, n) == [j \in Extent(n) |-> IF from + j < t.shape[1] THEN At(t, <<from + j>>) ELSE 0]
\* T.gemm adds a product of tiles to a tile; inner is the extent they share.
Gemm(acc, a, b, inner) ==
    [p \in DOMAIN acc |-> LET product(k) == Times(a[<<p[1], k>>], b[<<k, p[2]>>]) IN
                          Plus(acc[p], FloatSum(Extent(inner), product))] @@ <<>>
BlockM == 2
BlockN == 2
BlockK == 2
BlockH == 2
Cleared(h, w) == [p \in Extent(h) \X Extent(w) |-> 0]
\* The pipelined loop over the blocks of the inner extent.
GemmLoop(A, B, by, bx, inner) ==
    FoldLeft(LAMBDA acc, ko : Gemm(acc, Tile2(A, by * BlockM, (ko - 1) * BlockK, BlockM, BlockK),
                                   Tile2(B, (ko - 1) * BlockK, bx * BlockN, BlockK, BlockN), BlockK),
             Cleared(BlockM, BlockN), [ko \in 1 .. (inner + BlockK - 1) \div BlockK |-> ko])
\* One program for every tile of the output.
TileLaunch(rows, cols, tile(_, _)) ==
    LET writes(p) ==
          LET bx == p[1]
              by == p[2]
              held == tile(by, bx) IN
          [o \in {<<by * BlockM + e[1], bx * BlockN + e[2]>> : e \in DOMAIN held} |->
              held[<<o[1] - by * BlockM, o[2] - bx * BlockN>>]] IN
    Launched("float", <<rows, cols>>, Extent((cols + BlockN - 1) \div BlockN) \X Extent((rows + BlockM - 1) \div BlockM), writes)

(***************************************************************************)
(* The arrays a kernel leaves, next to those it was given, and the outcomes.   *)
(***************************************************************************)
_run_tilelang_ref(io, outputs) == outputs @@ io
OfKernel(cases, intent, reference(_), prim_func(_)) ==
    [s \in cases |-> run_diff(intent, _run_tilelang_ref(reference(s), prim_func(reference(s))), s, <<>>)]
\* With a reference that returns outputs of its own.
OfBoth(cases, intent, reference(_), prim_func(_)) ==
    LET launched == OfKernel(cases, intent, reference, prim_func)
        numpy == Verdicts(cases, intent, reference) IN
    [k \in {"kernel", "numpy"} \X cases |-> IF k[1] = "kernel" THEN launched[k[2]] ELSE numpy[k[2]]]
\* run_metamorphic_suite launches a kernel once and gives what it was fed, under the names of the runner
\* and of the intent, to the cases of the relations.
FrozenInputs(intent, sampled_raw) ==
    LET sampled == _with_io_aliases(intent, sampled_raw)
        external == ExternalInputs(intent) \cap DOMAIN sampled
        norms == {_normalize_io_name(n) : n \in external} IN
    [n \in external \cup {k \in DOMAIN sampled_raw : _normalize_io_name(k) \in norms} |-> sampled[n]]
\* A kernel with relations runs once more on the frozen inputs of its base case.
OfSuite(cases, intent, reference(_), prim_func(_)) ==
    LET again(s) == LET io == _run_tilelang_ref(reference(s), prim_func(reference(s))) IN
                    run_diff(intent, io, s, FrozenInputs(intent, io)) IN
    [k \in {"frozen"} \X cases |-> again(k[2])] @@ OfBoth(cases, intent, reference, prim_func)

(***************************************************************************)
(* Element by element.                                                     *)
(***************************************************************************)
InOutIntent(op) == OneOp(Shaped({"inp", "out"}, MN), op, "out", <<"inp">>, [n \in {} |-> 0])
InReference(s) == [inp |-> Draw(Matrix(s), 1)]
\* The rows of inp one by one, f of every element.
EachElement(io, f(_)) ==
    LET row(p) == LET held == Line(io.inp, p) IN [r \in DOMAIN held |-> f(held[r])] IN
    [out |-> RowLaunch(io.inp.shape, row)]

_add2d_reference(s) == [A |-> Draw(Matrix(s), 1), B |-> Draw(Matrix(s), 2)]
add2d_prim_func(io) ==
    LET row(p) == LET a == Line(io.A, p)
                      b == Line(io.B, p) IN [r \in DOMAIN a |-> Plus(a[r], b[r])] IN
    [C |-> RowLaunch(io.A.shape, row)]
_add2d_intent == IntentFunction(Shaped({"A", "B", "C"}, MN), <<OpOf("add", "C", <<"A", "B">>)>>, <<"C">>)
add2d == OfKernel(MatrixCases, _add2d_intent, _add2d_reference, add2d_prim_func)

_transpose2d_reference(s) == InReference(s)
transpose2d_prim_func(io) ==
    LET writes(p) == LET row == Line(io.inp, p) IN [o \in {<<r, p>> : r \in DOMAIN row} |-> row[o[1]]] IN
    [out |-> Launched("float", <<io.inp.shape[2], io.inp.shape[1]>>, Extent(io.inp.shape[1]), writes)]
_transpose2d_intent == OneOp([inp |-> MN, out |-> <<"N", "M">>], "transpose", "out", <<"inp">>, [perm |-> <<1, 0>>])
transpose2d == OfKernel(MatrixCases, _transpose2d_intent, _transpose2d_reference, transpose2d_prim_func)

_relu2d_reference(s) == InReference(s)
relu2d_prim_func(io) == LET f(x) == Max({x, 0}) IN EachElement(io, f)
_relu2d_intent == InOutIntent("relu")
relu2d == OfKernel(MatrixCases, _relu2d_intent, _relu2d_reference, relu2d_prim_func)

_exp2d_reference(s) == InReference(s)
exp2d_prim_func(io) == EachElement(io, Exp)
_exp2d_intent == InOutIntent("exp")
exp2d == OfKernel(MatrixCases, _exp2d_intent, _exp2d_reference, exp2d_prim_func)

_floor2d_reference(s) == InReference(s)
floor2d_prim_func(io) == LET f(x) == Function1("floor", x) IN EachElement(io, f)
_floor2d_intent == InOutIntent("floor")
floor2d == OfKernel(MatrixCases, _floor2d_intent, _floor2d_reference, floor2d_prim_func)

\* The bounds are arrays of one element, declared without axes.
_clamp2d_reference(s) == InReference(s) @@ [lo |-> Filled("float", <<1>>, LAMBDA o : -20), hi |-> Filled("float", <<1>>, LAMBDA o : 20)]
clamp2d_prim_func(io) ==
    LET f(x) == Min({Max({x, At(io.lo, <<0>>)}), At(io.hi, <<0>>)}) IN EachElement(io, f)
_clamp2d_intent ==
    IntentFunction(Shaped({"inp", "out"}, MN) @@ Shaped({"lo", "hi"}, <<>>),
                   <<OpOf("max", "t0", <<"inp", "lo">>), OpOf("min", "out", <<"t0", "hi">>)>>, <<"out">>)
clamp2d == OfKernel(MatrixCases, _clamp2d_intent, _clamp2d_reference, clamp2d_prim_func)

_where2d_reference(s) == [A |-> DrawIn("float", Matrix(s), 1, -2, 2), B |-> DrawIn("float", Matrix(s), 2, -2, 2)]
where2d_prim_func(io) ==
    LET row(p) == LET a == Line(io.A, p)
                      b == Line(io.B, p) IN [r \in DOMAIN a |-> IF a[r] > b[r] THEN a[r] ELSE b[r]] IN
    [C |-> RowLaunch(io.A.shape, row)]
_where2d_intent ==
    IntentFunction(Shaped({"A", "B", "cond", "C"}, MN),
                   <<OpOf("gt", "cond", <<"A", "B">>), OpOf("where", "C", <<"cond", "A", "B">>)>>, <<"C">>)
where2d == OfKernel(MatrixCases, _where2d_intent, _where2d_reference, where2d_prim_func)

\* A bias for every column.
_add_bias2d_reference(s) == InReference(s) @@ [bias |-> Draw(<<s.N>>, 2)]
add_bias2d_prim_func(io) ==
    LET row(p) == LET held == Line(io.inp, p)
                      b == Fragment(io.bias) IN [r \in DOMAIN held |-> Plus(held[r], b[r])] IN
    [out |-> RowLaunch(io.inp.shape, row)]
_add_bias2d_intent ==
    IntentFunction(Shaped({"inp", "out"}, MN) @@ [bias |-> <<"N">>],
                   <<Spread2("bias2", "bias", MN, <<1>>), OpOf("add", "out", <<"inp", "bias2">>)>>, <<"out">>)
add_bias2d == OfKernel(MatrixCases, _add_bias2d_intent, _add_bias2d_reference, add_bias2d_prim_func)

\* Programs number the strips of all rows; a strip may be cut off.
CopyBlock == 2
_copy2d_divmod_reference(s) == InReference(s)
copy2d_divmod_prim_func(io) ==
    LET grid_n == (io.inp.shape[2] + CopyBlock - 1) \div CopyBlock
        writes(pid) ==
          LET pid_m == pid \div grid_n
              pid_nb == pid % grid_n
              frag == Tile2(io.inp, pid_m, pid_nb * CopyBlock, 1, CopyBlock) IN
          [o \in {<<pid_m, pid_nb * CopyBlock + j>> : j \in Extent(CopyBlock)} |-> frag[<<0, o[2] - pid_nb * CopyBlock>>]] IN
    [out |-> Launched("float", io.inp.shape, Extent(io.inp.shape[1] * grid_n), writes)]
_copy2d_divmod_intent == InOutIntent("identity")
copy2d_divmod == OfKernel(MatrixCases, _copy2d_divmod_intent, _copy2d_divmod_reference, copy2d_divmod_prim_func)

\* A row is multiplied by its mask where the intent chooses.
_rowmask_where2d_reference(s) ==
    InReference(s) @@ [row_mask |-> Filled("bool", <<s.M>>, LAMBDA o : Truth(o[1] % 2 = 0))]
rowmask_where2d_prim_func(io) ==
    LET row(p) == LET held == Line(io.inp, p)
                      mf == At(io.row_mask, <<p>>) IN [r \in DOMAIN held |-> Times(held[r], mf)] IN
    [out |-> RowLaunch(io.inp.shape, row)]
_rowmask_where2d_intent ==
    IntentFunction(Shaped({"inp", "out"}, MN) @@ [row_mask |-> <<"M">>],
                   <<Spread2("m2", "row_mask", MN, <<0>>), Const("z", 0), Spread2("z2", "z", MN, <<>>),
                     OpOf("where", "out", <<"m2", "inp", "z2">>)>>, <<"out">>)
rowmask_where2d == OfKernel(MatrixCases, _rowmask_where2d_intent, _rowmask_where2d_reference, rowmask_where2d_prim_func)

GatherCases == [M : 1 .. 3, N : 1 .. 3, L : {4}]
_gather2d_reference(s) ==
    LET inp == Draw(Matrix(s), 1)
        row_idx == DrawIn("int", <<s.L>>, 1, 0, s.M - 1)
        col_idx == DrawIn("int", <<s.L>>, 2, 0, s.N - 1)
        taken(o) == At(inp, <<At(row_idx, o), At(col_idx, o)>>) IN
    [inp |-> inp, row_idx |-> row_idx, col_idx |-> col_idx, out |-> Filled("float", <<s.L>>, taken)]
gather2d_prim_func(io) ==
    LET value(pid) == At(io.inp, <<At(io.row_idx, <<pid>>), At(io.col_idx, <<pid>>)>>) IN
    [out |-> ValueLaunch("float", io.row_idx.shape[1], value)]
_gather2d_intent ==
    OneOp([inp |-> MN] @@ Shaped({"row_idx", "col_idx", "out"}, <<"L">>), "gather", "out", <<"inp", "row_idx", "col_idx">>,
          [n \in {} |-> 0])
gather2d == OfBoth(GatherCases, _gather2d_intent, _gather2d_reference, gather2d_prim_func)


(***************************************************************************)
(* A row reduced, and rows scaled by what their elements sum to.               *)
(***************************************************************************)
FromInp(shape, op) == OneOp([inp |-> MN, out |-> shape], op, "out", <<"inp">>, [dims |-> <<1>>, keepdims |-> FALSE])
ReducedRows(io, class, reduce(_)) == [out |-> ValueLaunch(class, io.inp.shape[1], LAMBDA p : reduce(Line(io.inp, p) @@ <<>>))]

_row_sum_reference(s) == InReference(s)
row_sum_prim_func(io) == ReducedRows(io, "float", Total)
_row_sum_intent == FromInp(<<"M">>, "reduce_sum")
row_sum == OfKernel(MatrixCases, _row_sum_intent, _row_sum_reference, row_sum_prim_func)

_row_max_reference(s) == InReference(s)
row_max_prim_func(io) == ReducedRows(io, "float", Greatest)
_row_max_intent == FromInp(<<"M">>, "reduce_max")
row_max == OfKernel(MatrixCases, _row_max_intent, _row_max_reference, row_max_prim_func)

\* The kernel tests the greatest element of a row; the arrays drawn hold 0 and 1.
_any_kernel_dim_reference(s) ==
    LET inp == DrawIn("float", Matrix(s), 1, 0, 1)
        any(line) == Truth(\E j \in DOMAIN line : line[j] # 0) IN
    [inp |-> inp, out |-> OfRows("bool", inp, any)]
any_kernel_dim_prim_func(io) == ReducedRows(io, "bool", LAMBDA row : Truth(Greatest(row) # 0))
_any_kernel_dim_intent == FromInp(<<"M">>, "reduce_any")
any_kernel_dim == OfSuite(MatrixCases, _any_kernel_dim_intent, _any_kernel_dim_reference, any_kernel_dim_prim_func)

\* The intent's groups are fixed: 64 columns in 16 groups of 4.
GroupedCases == [M : {1, 2}, N : {64}, group_size : {4}]
_grouped_row_sum2d_reference(s) ==
    LET inp == Draw(Matrix(s), 1)
        value(o) == FloatSum(Extent(s.group_size), LAMBDA k : At(inp, <<o[1], o[2] * s.group_size + k>>)) IN
    [inp |-> inp, out |-> Filled("float", <<s.M, s.N \div s.group_size>>, value)]
grouped_row_sum2d_prim_func(io) ==
    LET G == io.out.shape[2]
        GS == io.inp.shape[2] \div G
        writes(p) == LET vals == Tile2(io.inp, p[2], p[1] * GS, 1, GS) @@ <<>> IN <<p[2], p[1]>> :> Total(vals) IN
    [out |-> Launched("float", io.out.shape, Extent(G) \X Extent(io.inp.shape[1]), writes)]
_grouped_row_sum2d_intent ==
    IntentFunction([inp |-> <<"M", "64">>, out |-> <<"M", "16">>],
                   <<OpWith("reshape", "x3", <<"inp">>, [shape |-> <<"M", "16", "4">>]),
                     OpWith("reduce_sum", "out", <<"x3">>, [dims |-> <<2>>, keepdims |-> FALSE])>>, <<"out">>)
grouped_row_sum2d == OfBoth(GroupedCases, _grouped_row_sum2d_intent, _grouped_row_sum2d_reference, grouped_row_sum2d_prim_func)

\* exp of the distance to the greatest, and each one's share of their sum.
ExpRow(row) == LET mx == Greatest(row) IN [r \in DOMAIN row |-> Exp(Minus(row[r], mx))] @@ <<>>
Shares(row) == LET sm == Total(row) IN [r \in DOMAIN row |-> Over(row[r], sm)] @@ <<>>
SoftmaxRows(t) == LET rows == [i \in Extent(t.shape[1]) |-> Shares(ExpRow(Line(t, i)))] @@ <<>> IN
                  Filled("float", t.shape, LAMBDA o : rows[o[1]][o[2]])

_softmax_inner_reference(s) == LET x == Drawn(s) IN [input_ptr |-> x, output_ptr |-> SoftmaxRows(x)]
\* The kernel also leaves every row's greatest element and sum.
softmax_inner_prim_func(io) ==
    LET x == io.input_ptr
        exp_row(p) == ExpRow(Line(x, p)) IN
    [output_ptr |-> RowLaunch(x.shape, LAMBDA p : Shares(exp_row(p))),
     row_max_ptr |-> ValueLaunch("float", x.shape[1], LAMBDA p : Greatest(Line(x, p))),
     row_sum_ptr |-> ValueLaunch("float", x.shape[1], LAMBDA p : Total(exp_row(p)))]
_softmax_inner_intent ==
    OneOp(Shaped({"input_ptr", "output_ptr"}, MN), "softmax", "output_ptr", <<"input_ptr">>, [axis |-> -1])
softmax_inner == OfSuite(MatrixCases, _softmax_inner_intent, _softmax_inner_reference, softmax_inner_prim_func)

\* Every third column is masked, but not the first.
ColumnMask(n) == Filled("bool", <<n>>, LAMBDA o : Truth(o[1] = 0 \/ o[1] % 3 # 0))
_masked_softmax2d_reference(s) ==
    LET inp == Draw(Matrix(s), 1)
        mask == ColumnMask(s.N)
        x == Filled("float", inp.shape, LAMBDA o : IF At(mask, <<o[2]>>) # 0 THEN At(inp, o) ELSE Masked) IN
    [inp |-> inp, mask |-> mask, out |-> SoftmaxRows(x)]
masked_softmax2d_prim_func(io) ==
    LET masked_row(p) ==
          LET row == Line(io.inp, p)
              mf(r) == At(io.mask, <<r>>) IN
          [r \in DOMAIN row |-> Plus(Times(row[r], mf(r)), Times(Masked, Minus(1, mf(r))))] @@ <<>> IN
    [out |-> RowLaunch(io.inp.shape, LAMBDA p : Shares(ExpRow(masked_row(p))))]
_masked_softmax2d_intent ==
    IntentFunction(Shaped({"inp", "out"}, MN) @@ [mask |-> <<"N">>],
                   <<Spread2("m2", "mask", MN, <<1>>), Const("neg", Masked), Spread2("neg2", "neg", MN, <<>>),
                     OpOf("where", "masked", <<"m2", "inp", "neg2">>), OpWith("softmax", "out", <<"masked">>, [axis |-> -1])>>,
                   <<"out">>)
masked_softmax2d == OfBoth(MatrixCases, _masked_softmax2d_intent, _masked_softmax2d_reference, masked_softmax2d_prim_func)

(***************************************************************************)
(* Norms.  A reference takes the mean of the squared distances; a kernel may    *)
(* take that of the squares and subtract.                                    *)
(***************************************************************************)
Rsqrt(x) == Over(1, Sqrt(x))
Distances(row) == LET mean == Average(row) IN [r \in DOMAIN row |-> Minus(row[r], mean)] @@ <<>>
RstdOf(row) == Rsqrt(Plus(Average([r \in DOMAIN row |-> Times(row[r], row[r])] @@ <<>>), Eps))
\* Rows times their rstd and a weight, plus a bias.
Normed(rows, shape, w, b) ==
    LET rstd == [i \in DOMAIN rows |-> RstdOf(rows[i])] @@ <<>> IN
    Filled("float", shape, LAMBDA o : Plus(Times(Times(rows[o[1]][o[2]], rstd[o[1]]), At(w, <<o[2]>>)), b[o[2]]))
PerRow(rows, value(_)) == Filled("float", <<Cardinality(DOMAIN rows)>>, LAMBDA o : value(rows[o[1]]))
NoBias(n) == [j \in Extent(n) |-> 0]
\* The ops from an array's squares to out.
Mean1(out, sum, x) == <<OpWith("reduce_sum", sum, <<x>>, [dims |-> <<1>>, keepdims |-> TRUE]), OpWith("div", out, <<sum>>, [divisor |-> "N"])>>
ToRow(out, x) == OpWith("reshape", out, <<x>>, [shape |-> <<"M">>])
ToRstd(x, mean, sum, plus, out) ==
    <<OpOf("mul", "sq", <<x, x>>)>> \o Mean1(mean, sum, "sq")
    \o <<Const("eps", Eps), OpOf("add", plus, <<mean, "eps">>), OpOf("rsqrt", out, <<plus>>)>>

_rms_norm2d_reference(s) == InReference(s) @@ [weight |-> Draw(<<s.N>>, 2)]
\* One program per row: squares summed, times 1/N.
RmsRow(row, w) ==
    LET sq == [r \in DOMAIN row |-> Times(row[r], row[r])] @@ <<>>
        r0 == Rsqrt(Plus(Times(Total(sq), Over(1, Cardinality(DOMAIN row))), Eps)) IN
    [rstd |-> r0, out |-> [r \in DOMAIN row |-> Times(Times(row[r], r0), w[r])]]
rms_norm2d_prim_func(io) ==
    LET program(p) == RmsRow(Line(io.inp, p) @@ <<>>, Fragment(io.weight)) IN
    [out |-> RowLaunch(io.inp.shape, LAMBDA p : program(p).out),
     rstd |-> ValueLaunch("float", io.inp.shape[1], LAMBDA p : program(p).rstd)]
_rms_norm2d_intent ==
    IntentFunction(Shaped({"inp", "out"}, MN) @@ [weight |-> <<"N">>, rstd |-> <<"M">>],
                   ToRstd("inp", "mean_sq", "sum_sq", "ms_eps", "rstd1")
                   \o <<ToRow("rstd", "rstd1"), Spread2("rstd2", "rstd", MN, <<0>>), Spread2("w2", "weight", MN, <<1>>),
                        OpOf("mul", "norm", <<"inp", "rstd2">>), OpOf("mul", "out", <<"norm", "w2">>)>>, <<"out", "rstd">>)
rms_norm2d == OfKernel(MatrixCases, _rms_norm2d_intent, _rms_norm2d_reference, rms_norm2d_prim_func)

ResidualInputs(s) == InReference(s) @@ [residual |-> Draw(Matrix(s), 2), weight |-> Draw(<<s.N>>, 3), bias |-> Draw(<<s.N>>, 4)]
\* inp + residual, row by row, and the bias if it is added first.
Summed(io, biased) ==
    [i \in Extent(io.inp.shape[1]) |->
        [j \in Extent(io.inp.shape[2]) |->
            Plus(Plus(At(io.inp, <<i, j>>), At(io.residual, <<i, j>>)), IF biased THEN At(io.bias, <<j>>) ELSE 0)] @@ <<>>] @@ <<>>
_rms_norm_residual2d_reference(s) ==
    LET io == ResidualInputs(s)
        z == Summed(io, TRUE) IN
    io @@ [out |-> Normed(z, Matrix(s), io.weight, NoBias(s.N)), rstd |-> PerRow(z, RstdOf)]
rms_norm_residual2d_prim_func(io) ==
    LET z(p) == [r \in Extent(io.inp.shape[2]) |-> Plus(Plus(Line(io.inp, p)[r], Line(io.residual, p)[r]), Fragment(io.bias)[r])] @@ <<>>
        program(p) == RmsRow(z(p), Fragment(io.weight)) IN
    [out |-> RowLaunch(io.inp.shape, LAMBDA p : program(p).out),
     rstd |-> ValueLaunch("float", io.inp.shape[1], LAMBDA p : program(p).rstd)]
_rms_norm_residual2d_intent ==
    IntentFunction(Shaped({"inp", "residual", "out"}, MN) @@ Shaped({"weight", "bias"}, <<"N">>) @@ [rstd |-> <<"M">>],
                   <<Spread2("b2", "bias", MN, <<1>>), Spread2("w2", "weight", MN, <<1>>),
                     OpOf("add", "z0", <<"inp", "residual">>), OpOf("add", "z", <<"z0", "b2">>)>>
                   \o ToRstd("z", "mean_sq", "sum_sq", "ms_eps", "rstd1")
                   \o <<ToRow("rstd", "rstd1"), Spread2("rstd2", "rstd", MN, <<0>>),
                        OpOf("mul", "norm", <<"z", "rstd2">>), OpOf("mul", "out", <<"norm", "w2">>)>>, <<"out", "rstd">>)
rms_norm_residual2d ==
    OfBoth(MatrixCases, _rms_norm_residual2d_intent, _rms_norm_residual2d_reference, rms_norm_residual2d_prim_func)

\* One program per row: mean, then squared distances; divide is by the row's length.
LayerNormRow(row, w, b, divide(_)) ==
    LET mean == divide(Total(row))
        diff == [r \in DOMAIN row |-> Minus(row[r], mean)] @@ <<>>
        sq == [r \in DOMAIN row |-> Times(diff[r], diff[r])] @@ <<>>
        rstd == Rsqrt(Plus(divide(Total(sq)), Eps)) IN
    [mean |-> mean, rstd |-> rstd, out |-> [r \in DOMAIN row |-> Plus(Times(Times(diff[r], rstd), w[r]), b[r])]]
DistancesOf(rows) == [i \in DOMAIN rows |-> Distances(rows[i])] @@ <<>>

_layer_norm_residual2d_reference(s) ==
    LET io == ResidualInputs(s)
        z == Summed(io, FALSE)
        d == DistancesOf(z) IN
    io @@ [out |-> Normed(d, Matrix(s), io.weight, Fragment(io.bias)), mean |-> PerRow(z, Average), rstd |-> PerRow(d, RstdOf)]
layer_norm_residual2d_prim_func(io) ==
    LET n == io.inp.shape[2]
        z(p) == [r \in Extent(n) |-> Plus(Line(io.inp, p)[r], Line(io.residual, p)[r])] @@ <<>>
        program(p) == LayerNormRow(z(p), Fragment(io.weight), Fragment(io.bias), LAMBDA x : Times(x, Over(1, n))) IN
    [out |-> RowLaunch(io.inp.shape, LAMBDA p : program(p).out),
     mean |-> ValueLaunch("float", io.inp.shape[1], LAMBDA p : program(p).mean),
     rstd |-> ValueLaunch("float", io.inp.shape[1], LAMBDA p : program(p).rstd)]
_layer_norm_residual2d_intent ==
    IntentFunction(Shaped({"inp", "residual", "out"}, MN) @@ Shaped({"weight", "bias"}, <<"N">>) @@ Shaped({"mean", "rstd"}, <<"M">>),
                   <<OpOf("add", "z", <<"inp", "residual">>)>> \o Mean1("mean_row", "sum_row", "z")
                   \o <<ToRow("mean", "mean_row"), Spread2("mean_b", "mean", MN, <<0>>), OpOf("sub", "diff", <<"z", "mean_b">>)>>
                   \o ToRstd("diff", "var", "var_sum", "var_eps", "rstd_row")
                   \o <<ToRow("rstd", "rstd_row"), Spread2("rstd_b", "rstd", MN, <<0>>), Spread2("w_b", "weight", MN, <<1>>),
                        Spread2("b_b", "bias", MN, <<1>>), OpOf("mul", "xhat", <<"diff", "rstd_b">>),
                        OpOf("mul", "scaled", <<"xhat", "w_b">>), OpOf("add", "out", <<"scaled", "b_b">>)>>,
                   <<"out", "mean", "rstd">>)
layer_norm_residual2d ==
    OfBoth(MatrixCases, _layer_norm_residual2d_intent, _layer_norm_residual2d_reference, layer_norm_residual2d_prim_func)

_layer_norm_persistent_reference(s) ==
    LET x == Drawn(s)
        w == Draw(<<s.N>>, 2)
        b == Draw(<<s.N>>, 3)
        rows == [i \in Extent(s.M) |-> Line(x, i) @@ <<>>] @@ <<>>
        d == DistancesOf(rows) IN
    [in_ptr |-> x, weight_ptr |-> w, bias_ptr |-> b, out_ptr |-> Normed(d, Matrix(s), w, Fragment(b)),
     out_mean_ptr |-> PerRow(rows, Average), out_rstd_ptr |-> PerRow(d, RstdOf)]
layer_norm_persistent_prim_func(io) ==
    LET n == io.in_ptr.shape[2]
        program(p) == LayerNormRow(Line(io.in_ptr, p) @@ <<>>, Fragment(io.weight_ptr), Fragment(io.bias_ptr), LAMBDA x : Over(x, n)) IN
    [out_ptr |-> RowLaunch(io.in_ptr.shape, LAMBDA p : program(p).out),
     out_mean_ptr |-> ValueLaunch("float", io.in_ptr.shape[1], LAMBDA p : program(p).mean),
     out_rstd_ptr |-> ValueLaunch("float", io.in_ptr.shape[1], LAMBDA p : program(p).rstd)]
_layer_norm_persistent_intent ==
    IntentFunction(Shaped({"in_ptr", "out_ptr"}, MN) @@ Shaped({"weight_ptr", "bias_ptr"}, <<"N">>)
                   @@ Shaped({"out_mean_ptr", "out_rstd_ptr"}, <<"M">>),
                   Mean1("mean_row", "sum_row", "in_ptr") \o <<OpOf("sub", "diff", <<"in_ptr", "mean_row">>)>>
                   \o ToRstd("diff", "var", "var_sum", "var_eps", "rstd_row")
                   \o <<OpOf("mul", "xhat", <<"diff", "rstd_row">>), Spread2("w_b", "weight_ptr", MN, <<1>>),
                        Spread2("b_b", "bias_ptr", MN, <<1>>), OpOf("mul", "scaled", <<"xhat", "w_b">>),
                        OpOf("add", "out_ptr", <<"scaled", "b_b">>), ToRow("out_mean_ptr", "mean_row"),
                        ToRow("out_rstd_ptr", "rstd_row")>>, <<"out_ptr", "out_mean_ptr", "out_rstd_ptr">>)
layer_norm_persistent ==
    OfSuite(MatrixCases, _layer_norm_persistent_intent, _layer_norm_persistent_reference, layer_norm_persistent_prim_func)

\* Channels in groups; a group's elements are those of its channels.
GroupNormCases == {s \in [N : {1, 2}, C : {2, 4}, HW : {1, 2}, num_groups : {1, 2}] : s.C % s.num_groups = 0}
NCHW == <<"N", "C", "HW">>
GroupRow(x, n, g, group_size) ==
    [e \in Extent(group_size) \X Extent(x.shape[3]) |-> At(x, <<n, g * group_size + e[1], e[2]>>)] @@ <<>>
_group_norm_reference(s) ==
    LET x == Draw(<<s.N, s.C, s.HW>>, 1)
        w == Draw(<<s.C>>, 2)
        b == Draw(<<s.C>>, 3)
        group_size == s.C \div s.num_groups
        x4 == [p \in Extent(s.N) \X Extent(s.num_groups) |-> GroupRow(x, p[1], p[2], group_size)] @@ <<>>
        d == DistancesOf(x4)
        rstd == [p \in DOMAIN d |-> RstdOf(d[p])] @@ <<>>
        y(o) == LET p == <<o[1], o[2] \div group_size>> IN
                Plus(Times(Times(d[p][<<o[2] % group_size, o[3]>>], rstd[p]), At(w, <<o[2]>>)), At(b, <<o[2]>>)) IN
    [X |-> x, W |-> w, B |-> b, Y |-> Filled("float", x.shape, y),
     Mean |-> Filled("float", <<s.N, s.num_groups>>, LAMBDA o : Average(x4[o])),
     Rstd |-> Filled("float", <<s.N, s.num_groups>>, LAMBDA o : rstd[o])]
group_norm_kernel_prim_func(io) ==
    LET G == io.Mean.shape[2]
        group_size == io.X.shape[2] \div G
        denom == group_size * io.X.shape[3]
        pids == Extent(io.X.shape[1]) \X Extent(G)
        x_tile == [p \in pids |-> GroupRow(io.X, p[1], p[2], group_size)] @@ <<>>
        mean == [p \in pids |-> Over(Total(x_tile[p]), denom)] @@ <<>>
        mean2 == [p \in pids |-> Over(Squares(x_tile[p]), denom)] @@ <<>>
        rstd == [p \in pids |-> Rsqrt(Plus(Minus(mean2[p], Times(mean[p], mean[p])), Eps))] @@ <<>>
        y(p) == [o \in {<<p[1], p[2] * group_size + e[1], e[2]>> : e \in DOMAIN x_tile[p]} |->
                    Plus(Times(Times(Minus(x_tile[p][<<o[2] - p[2] * group_size, o[3]>>], mean[p]), rstd[p]), At(io.W, <<o[2]>>)),
                         At(io.B, <<o[2]>>))] IN
    [Y |-> Launched("float", io.X.shape, pids, y), Mean |-> Launched("float", io.Mean.shape, pids, LAMBDA p : p :> mean[p]),
     Rstd |-> Launched("float", io.Rstd.shape, pids, LAMBDA p : p :> rstd[p])]
Mean23(out, sum, x) ==
    <<OpWith("reduce_sum", sum, <<x>>, [dims |-> <<2, 3>>, keepdims |-> TRUE]), OpWith("div", out, <<sum>>, [divisor |-> "num_elements"])>>
_group_norm_intent ==
    IntentFunction(Shaped({"X", "Y"}, NCHW) @@ Shaped({"W", "B"}, <<"C">>) @@ Shaped({"Mean", "Rstd"}, <<"N", "num_groups">>),
                   <<OpWith("reshape", "X4", <<"X">>, [shape |-> <<"N", "num_groups", "group_size", "HW">>])>>
                   \o Mean23("mean4", "sum", "X4") \o <<OpOf("sub", "diff", <<"X4", "mean4">>), OpOf("mul", "sq", <<"diff", "diff">>)>>
                   \o Mean23("var4", "var_sum", "sq")
                   \o <<Const("eps", Eps), OpOf("add", "var_eps", <<"var4", "eps">>), OpOf("rsqrt", "rstd4", <<"var_eps">>),
                        OpOf("mul", "xhat4", <<"diff", "rstd4">>), OpWith("reshape", "xhat3", <<"xhat4">>, [shape |-> NCHW]),
                        Spread2("W3", "W", NCHW, <<1>>), Spread2("B3", "B", NCHW, <<1>>), OpOf("mul", "scaled", <<"xhat3", "W3">>),
                        OpOf("add", "Y", <<"scaled", "B3">>),
                        OpWith("reshape", "Mean", <<"mean4">>, [shape |-> <<"N", "num_groups">>]),
                        OpWith("reshape", "Rstd", <<"rstd4">>, [shape |-> <<"N", "num_groups">>])>>, <<"Y", "Mean", "Rstd">>)
group_norm_kernel == OfSuite(GroupNormCases, _group_norm_intent, _group_norm_reference, group_norm_kernel_prim_func)


(***************************************************************************)
(* Products of matrices, tile by tile.                                      *)
(***************************************************************************)
ProductCases == [M : {1, 2, 3}, N : {1, 3}, K : {2, 3}]
MK == <<"M", "K">>
KN == <<"K", "N">>
Factors(s) == [A |-> Draw(<<s.M, s.K>>, 1), B |-> Draw(<<s.K, s.N>>, 2)]
MatrixProduct(a, b) ==
    Filled("float", <<a.shape[1], b.shape[2]>>, LAMBDA o : FloatSum(Extent(a.shape[2]), LAMBDA k : Times(At(a, <<o[1], k>>), At(b, <<k, o[2]>>))))
EachOf(t, f(_)) == Filled("float", t.shape, LAMBDA o : f(At(t, o)))
ProductTile(io, by, bx) == GemmLoop(io.A, io.B, by, bx, io.A.shape[2])
ProductLaunch(io, tile(_, _)) == [C |-> TileLaunch(io.A.shape[1], io.B.shape[2], tile)]
ReluTile(held) == [e \in DOMAIN held |-> Max({held[e], 0})]

_matmul_relu2d_reference(s) == Factors(s)
matmul_relu2d_prim_func(io) == ProductLaunch(io, LAMBDA by, bx : ReluTile(ProductTile(io, by, bx)))
_matmul_relu2d_intent ==
    IntentFunction([A |-> MK, B |-> KN, C |-> MN], <<OpOf("matmul", "mm", <<"A", "B">>), OpOf("relu", "C", <<"mm">>)>>, <<"C">>)
matmul_relu2d == OfKernel(ProductCases, _matmul_relu2d_intent, _matmul_relu2d_reference, matmul_relu2d_prim_func)

\* The same with halves; they are rounded nowhere here.
_gemm_relu_reference(s) == Factors(s) @@ [C |-> EachOf(MatrixProduct(Factors(s).A, Factors(s).B), LAMBDA x : Max({x, 0}))]
gemm_relu_prim_func(io) == matmul_relu2d_prim_func(io)
_gemm_relu_intent == _matmul_relu2d_intent
gemm_relu == OfBoth(ProductCases, _gemm_relu_intent, _gemm_relu_reference, gemm_relu_prim_func)

_matmul_bias_relu2d_reference(s) == Factors(s) @@ [bias |-> Draw(<<s.N>>, 3)]
matmul_bias_relu2d_prim_func(io) ==
    LET tile(by, bx) ==
          LET held == ProductTile(io, by, bx)
              bias_local == Strip(io.bias, bx * BlockN, BlockN) IN
          ReluTile([e \in DOMAIN held |-> Plus(held[e], bias_local[e[2]])] @@ <<>>) IN
    ProductLaunch(io, tile)
_matmul_bias_relu2d_intent ==
    IntentFunction([A |-> MK, B |-> KN, C |-> MN, bias |-> <<"N">>],
                   <<OpOf("matmul", "mm", <<"A", "B">>), Spread2("b2", "bias", MN, <<1>>), OpOf("add", "mm_b", <<"mm", "b2">>),
                     OpOf("relu", "C", <<"mm_b">>)>>, <<"C">>)
matmul_bias_relu2d ==
    OfKernel(ProductCases, _matmul_bias_relu2d_intent, _matmul_bias_relu2d_reference, matmul_bias_relu2d_prim_func)

_matmul_fused_epilogue2d_reference(s) ==
    LET io == Factors(s) @@ [bias |-> Draw(<<s.N>>, 3), row_mask |-> Filled("bool", <<s.M>>, LAMBDA o : Truth(o[1] % 2 = 0)),
                             col_mask |-> ColumnMask(s.N)]
        mm == MatrixProduct(io.A, io.B)
        kept(o) == At(io.row_mask, <<o[1]>>) # 0 /\ At(io.col_mask, <<o[2]>>) # 0 IN
    io @@ [C |-> Filled("float", mm.shape, LAMBDA o : IF kept(o) THEN Plus(At(mm, o), At(io.bias, <<o[2]>>)) ELSE 0)]
matmul_fused_epilogue2d_prim_func(io) ==
    LET tile(by, bx) ==
          LET held == ProductTile(io, by, bx)
              bias_local == Strip(io.bias, bx * BlockN, BlockN)
              row_local == Strip(io.row_mask, by * BlockM, BlockM)
              col_local == Strip(io.col_mask, bx * BlockN, BlockN) IN
          [e \in DOMAIN held |-> Times(Plus(held[e], bias_local[e[2]]), Min({row_local[e[1]], col_local[e[2]]}))] IN
    ProductLaunch(io, tile)
_matmul_fused_epilogue2d_intent ==
    IntentFunction([A |-> MK, B |-> KN, C |-> MN, bias |-> <<"N">>, row_mask |-> <<"M">>, col_mask |-> <<"N">>],
                   <<OpOf("matmul", "mm", <<"A", "B">>), Spread2("b2", "bias", MN, <<1>>), OpOf("add", "tmp", <<"mm", "b2">>),
                     Spread2("rm2", "row_mask", MN, <<0>>), Spread2("cm2", "col_mask", MN, <<1>>),
                     OpOf("and", "cond", <<"rm2", "cm2">>), Const("z", 0), Spread2("z2", "z", MN, <<>>),
                     OpOf("where", "C", <<"cond", "tmp", "z2">>)>>, <<"C">>)
matmul_fused_epilogue2d ==
    OfBoth(ProductCases, _matmul_fused_epilogue2d_intent, _matmul_fused_epilogue2d_reference, matmul_fused_epilogue2d_prim_func)

MlpCases == [M : {1, 3}, N : {1, 3}, K : {3}, H : {2, 3}]
BiasedProduct(a, b, bias) ==
    LET mm == MatrixProduct(a, b) IN Filled("float", mm.shape, LAMBDA o : Plus(At(mm, o), At(bias, <<o[2]>>)))
_mlp2d_reference(s) ==
    LET io == [A |-> Draw(<<s.M, s.K>>, 1), W1 |-> Draw(<<s.K, s.H>>, 2), b1 |-> Draw(<<s.H>>, 3), W2 |-> Draw(<<s.H, s.N>>, 4),
               b2 |-> Draw(<<s.N>>, 5)]
        hid == EachOf(BiasedProduct(io.A, io.W1, io.b1), LAMBDA x : Max({x, 0})) IN
    io @@ [C |-> BiasedProduct(hid, io.W2, io.b2)]
\* Blocks of the hidden layer are made, and multiplied into the output, one after the other.
mlp2d_prim_func(io) ==
    LET H == io.b1.shape[1]
        H_shared(by, ho) ==
          LET held == GemmLoop(io.A, io.W1, by, ho, io.A.shape[2])
              b1_local == Strip(io.b1, ho * BlockH, BlockH) IN
          ReluTile([e \in DOMAIN held |-> Plus(held[e], b1_local[e[2]])] @@ <<>>) @@ <<>>
        block(acc, by, bx, ho) == Gemm(acc, H_shared(by, ho), Tile2(io.W2, ho * BlockH, bx * BlockN, BlockH, BlockN), BlockH)
        tile(by, bx) ==
          LET held == FoldLeft(LAMBDA acc, ho : block(acc, by, bx, ho - 1), Cleared(BlockM, BlockN),
                               [ho \in 1 .. (H + BlockH - 1) \div BlockH |-> ho])
              b2_local == Strip(io.b2, bx * BlockN, BlockN) IN
          [e \in DOMAIN held |-> Plus(held[e], b2_local[e[2]])] IN
    [C |-> TileLaunch(io.A.shape[1], io.W2.shape[2], tile)]
_mlp2d_intent ==
    IntentFunction([A |-> MK, W1 |-> <<"K", "H">>, b1 |-> <<"H">>, W2 |-> <<"H", "N">>, b2 |-> <<"N">>, C |-> MN],
                   <<OpOf("matmul", "mm1", <<"A", "W1">>), Spread2("b1_2", "b1", <<"M", "H">>, <<1>>),
                     OpOf("add", "mm1_b", <<"mm1", "b1_2">>), OpOf("relu", "hid", <<"mm1_b">>),
                     OpOf("matmul", "mm2", <<"hid", "W2">>), Spread2("b2_2", "b2", MN, <<1>>),
                     OpOf("add", "C", <<"mm2", "b2_2">>)>>, <<"C">>)
mlp2d == OfBoth(MlpCases, _mlp2d_intent, _mlp2d_reference, mlp2d_prim_func)

(***************************************************************************)
(* Attention: a program has one row of queries.                               *)
(***************************************************************************)
AttendedCases == [Q_CTX : {1, 3}, KV_CTX : {1, 2, 3}, HEAD_DIM : {2}]
Scale(s) == Filled("float", <<1>>, LAMBDA o : Over(1, Sqrt(s.HEAD_DIM)))
Transposed(t) == Filled("float", <<t.shape[2], t.shape[1]>>, LAMBDA o : At(t, <<o[2], o[1]>>))
_masked_attention2d_reference(s) ==
    LET q == Draw(<<s.Q_CTX, s.HEAD_DIM>>, 1)
        k == Draw(<<s.KV_CTX, s.HEAD_DIM>>, 2)
        v == Draw(<<s.KV_CTX, s.HEAD_DIM>>, 3)
        sm_scale == Scale(s)
        scores == MatrixProduct(q, Transposed(k))
        causal == Filled("float", scores.shape, LAMBDA o : IF o[2] <= o[1] THEN Times(At(scores, o), At(sm_scale, <<0>>)) ELSE Masked) IN
    [Q |-> q, K |-> k, V |-> v, sm_scale |-> sm_scale, Out |-> MatrixProduct(SoftmaxRows(causal), v)]
\* The scores of a row of queries, the shares of its keys, and the values in these shares.
Answer(q_row, n, scored(_), value(_, _)) ==
    LET probs == Shares(ExpRow([j \in Extent(n) |-> scored(j)] @@ <<>>)) IN
    [d \in DOMAIN q_row |-> FloatSum(Extent(n), LAMBDA j : Times(probs[j], value(j, d)))]
masked_attention2d_prim_func(io) ==
    LET row(p) ==
          LET q_row == Line(io.Q, p) @@ <<>>
              tmp(j) == [k \in DOMAIN q_row |-> Times(q_row[k], At(io.K, <<j, k>>))]
              scored(j) == IF j > p THEN Masked ELSE Times(Total(tmp(j)), At(io.sm_scale, <<0>>)) IN
          Answer(q_row, io.K.shape[1], scored, LAMBDA j, d : At(io.V, <<j, d>>)) IN
    [Out |-> RowLaunch(io.Q.shape, row)]
QKV == <<"Q_CTX", "KV_CTX">>
_masked_attention2d_intent ==
    IntentFunction(Shaped({"Q", "Out"}, <<"Q_CTX", "HEAD_DIM">>) @@ Shaped({"K", "V"}, <<"KV_CTX", "HEAD_DIM">>)
                   @@ [sm_scale |-> <<"1">>, scores |-> QKV],
                   <<OpWith("transpose", "K_t", <<"K">>, [perm |-> <<1, 0>>]), OpOf("matmul", "scores", <<"Q", "K_t">>),
                     OpOf("mul", "scores_s", <<"scores", "sm_scale">>), Numbering("q_ids", 0, QKV), Numbering("k_ids", 1, QKV),
                     OpOf("le", "causal", <<"k_ids", "q_ids">>), Const("neg", Masked),
                     OpOf("where", "scores_masked", <<"causal", "scores_s", "neg">>),
                     OpWith("softmax", "probs", <<"scores_masked">>, [axis |-> -1]), OpOf("matmul", "Out", <<"probs", "V">>)>>, <<"Out">>)
masked_attention2d ==
    OfBoth(AttendedCases, _masked_attention2d_intent, _masked_attention2d_reference, masked_attention2d_prim_func)

\* Its kernel computes exp in another way and is not modelled.
_flash_attention2d_reference(s) == _masked_attention2d_reference(s)
_flash_attention2d_intent == _masked_attention2d_intent
flash_attention2d == Verdicts(AttendedCases, _flash_attention2d_intent, _flash_attention2d_reference)

\* As many heads of keys and values as of queries, or the product of the intent has no common shape.
HeadCases == {s \in [Z : {1, 2}, q_numhead : {1, 2}, kv_numhead : {1, 2}, Q_CTX : {2}, KV_CTX : {1, 3}, HEAD_DIM : {2}] :
                 s.q_numhead = s.kv_numhead}
_attn_fwd_reference(s) ==
    LET q == Draw(<<s.Z, s.q_numhead, s.Q_CTX, s.HEAD_DIM>>, 1)
        k == Draw(<<s.Z, s.kv_numhead, s.KV_CTX, s.HEAD_DIM>>, 2)
        v == Draw(<<s.Z, s.kv_numhead, s.KV_CTX, s.HEAD_DIM>>, 3)
        attn_mask == Draw(<<s.Z, s.q_numhead, s.Q_CTX, s.KV_CTX>>, 4)
        head(t, zb, h) == Filled("float", SubSeq(t.shape, 3, 4), LAMBDA o : At(t, <<zb, h>> \o o))
        kh(h) == h % AtLeast(1, s.kv_numhead)
        scores(zb, h) ==
          LET mm == MatrixProduct(head(q, zb, h), Transposed(head(k, zb, kh(h)))) IN
          Filled("float", mm.shape, LAMBDA o : Times(Plus(At(mm, o), At(attn_mask, <<zb, h>> \o o)), At(Scale(s), <<0>>)))
        out == [p \in Extent(s.Z) \X Extent(s.q_numhead) |->
                   MatrixProduct(SoftmaxRows(scores(p[1], p[2])), head(v, p[1], kh(p[2])))] @@ <<>> IN
    [Q |-> q, K |-> k, V |-> v, attn_mask |-> attn_mask, sm_scale |-> Scale(s),
     Out |-> Filled("float", q.shape, LAMBDA o : At(out[<<o[1], o[2]>>], <<o[3], o[4]>>))]
attn_fwd_prim_func(io) ==
    LET heads == io.Q.shape[2]
        ctx == io.Q.shape[3]
        writes(p) ==
          LET pid_q == p % ctx
              pid_h == (p \div ctx) % heads
              pid_z == (p \div ctx) \div heads
              pid_kvh == pid_h % io.K.shape[2]
              q_row == [k \in Extent(io.Q.shape[4]) |-> At(io.Q, <<pid_z, pid_h, pid_q, k>>)] @@ <<>>
              tmp(j) == [k \in DOMAIN q_row |-> Times(q_row[k], At(io.K, <<pid_z, pid_kvh, j, k>>))]
              scored(j) == Times(Plus(Total(tmp(j)), At(io.attn_mask, <<pid_z, pid_h, pid_q, j>>)), At(io.sm_scale, <<0>>))
              out_row == Answer(q_row, io.K.shape[3], scored, LAMBDA j, d : At(io.V, <<pid_z, pid_kvh, j, d>>)) @@ <<>> IN
          [o \in {<<pid_z, pid_h, pid_q, d>> : d \in DOMAIN out_row} |-> out_row[o[4]]] IN
    [Out |-> Launched("float", io.Q.shape, Extent(io.Q.shape[1] * heads * ctx), writes)]
_attn_fwd_intent ==
    IntentFunction(Shaped({"Q", "Out"}, <<"Z", "q_numhead", "Q_CTX", "HEAD_DIM">>)
                   @@ Shaped({"K", "V"}, <<"Z", "kv_numhead", "KV_CTX", "HEAD_DIM">>)
                   @@ Shaped({"attn_mask", "scores_m"}, <<"Z", "q_numhead", "Q_CTX", "KV_CTX">>) @@ [sm_scale |-> <<"1">>],
                   <<OpWith("transpose", "K_t", <<"K">>, [perm |-> <<0, 1, 3, 2>>]), OpOf("matmul", "scores", <<"Q", "K_t">>),
                     OpOf("add", "scores_m", <<"scores", "attn_mask">>), OpOf("mul", "scores_s", <<"scores_m", "sm_scale">>),
                     OpWith("softmax", "probs", <<"scores_s">>, [axis |-> -1]), OpOf("matmul", "Out", <<"probs", "V">>)>>, <<"Out">>)
attn_fwd == OfBoth(HeadCases, _attn_fwd_intent, _attn_fwd_reference, attn_fwd_prim_func)

\* The outcomes, spec by spec.
TileLangVerdicts ==
    [add2d |-> add2d, transpose2d |-> transpose2d, relu2d |-> relu2d, exp2d |-> exp2d, floor2d |-> floor2d,
     clamp2d |-> clamp2d, where2d |-> where2d, add_bias2d |-> add_bias2d, copy2d_divmod |-> copy2d_divmod,
     rowmask_where2d |-> rowmask_where2d, gather2d |-> gather2d, row_sum |-> row_sum, row_max |-> row_max,
     any_kernel_dim |-> any_kernel_dim, grouped_row_sum2d |-> grouped_row_sum2d, softmax_inner |-> softmax_inner,
     masked_softmax2d |-> masked_softmax2d, rms_norm2d |-> rms_norm2d, rms_norm_residual2d |-> rms_norm_residual2d,
     layer_norm_residual2d |-> layer_norm_residual2d, layer_norm_persistent |-> layer_norm_persistent,
     group_norm_kernel |-> group_norm_kernel, matmul_relu2d |-> matmul_relu2d, gemm_relu |-> gemm_relu,
     matmul_bias_relu2d |-> matmul_bias_relu2d, matmul_fused_epilogue2d |-> matmul_fused_epilogue2d, mlp2d |-> mlp2d,
     masked_attention2d |-> masked_attention2d, flash_attention2d |-> flash_attention2d, attn_fwd |-> attn_fwd]
================================================================================
