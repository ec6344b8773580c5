----------------------------- MODULE TritonKernels ------------------------------
(***************************************************************************)
(* The native kernels of the Triton pipeline (kernels/triton/ops), the        *)
(* runners that launch them (pipeline/triton/core.py) and the outcome of       *)
(* comparing what they leave with the intent that the pipeline falls back on:  *)
(* the one that the TileLang pipeline builds for the same name.  A program     *)
(* loads and stores blocks of flat addresses under masks; a block has BlockN   *)
(* lanes here, 256 or the next power of two there.  The arrays are those of a  *)
(* case that brings its inputs.                                             *)
(***************************************************************************)
EXTENDS DiffRunner

LOCAL INSTANCE TLC
LOCAL INSTANCE SequencesExt
LOCAL INSTANCE FiniteSetsExt

TL == INSTANCE TileLangKernels

BlockM == TL!BlockM
BlockN == TL!BlockN
BlockK == TL!BlockK
BlockH == TL!BlockH
Blocks(n, size) == (n + size - 1) \div size
Starts(n, size) == [i \in 1 .. Blocks(n, size) |-> (i - 1) * size]
NextPowerOf2(n) == CHOOSE b \in {1, 2, 4, 8} : b >= n /\ b < 2 * n

(***************************************************************************)
(* The triton language: blocks of lanes.                                      *)
(***************************************************************************)
tl_load(t, offs, mask, other) ==
    [l \in DOMAIN offs |-> IF ~mask[l] THEN other ELSE IF offs[l] \in DOMAIN t.at THEN t.at[offs[l]] ELSE NaN] @@ <<>>
tl_store(offs, mask, held) ==
    LET kept == {l \in DOMAIN offs : mask[l]} IN [a \in {offs[l] : l \in kept} |-> held[CHOOSE l \in kept : offs[l] = a]]
EachLane(x, f(_)) == [l \in DOMAIN x |-> f(x[l])] @@ <<>>
BothLanes(x, y, f(_, _)) == [l \in DOMAIN x |-> f(x[l], y[l])] @@ <<>>
\* What the programs of a grid leave: no number where none or two different ones were stored, and
\* nothing at all once one stored behind the array.
Stored(class, shape, grid, stores(_)) ==
    LET parts == [p \in grid |-> stores(p) @@ <<>>] @@ <<>>
        held(a) == {parts[p][a] : p \in {q \in grid : a \in DOMAIN parts[q]}}
        places == Extent(Size(shape)) IN
    IF \E p \in grid : ~(DOMAIN parts[p] \subseteq places) THEN Raised
    ELSE Tensor(class, shape, [a \in places |-> IF Cardinality(held(a)) = 1 THEN CHOOSE v \in held(a) : TRUE ELSE NaN])

\* A block of a row: its columns, their addresses and which lie in the array.
RowBlock(shape, p, start, size) ==
    LET lanes == Extent(size) IN
    [n |-> [l \in lanes |-> start + l] @@ <<>>, at |-> [l \in lanes |-> p * shape[2] + start + l] @@ <<>>,
     ok |-> [l \in lanes |-> p < shape[1] /\ start + l < shape[2]] @@ <<>>]
\* A program for every block of every row, each storing a block of its own.
RowGrid(shape) == Extent(shape[1]) \X Extent(Blocks(shape[2], BlockN))
BlockwiseKernel(shape, held(_, _)) ==
    LET stores(pid) == LET blk == RowBlock(shape, pid[1], pid[2] * BlockN, BlockN) IN tl_store(blk.at, blk.ok, held(pid, blk)) IN
    Stored("float", shape, RowGrid(shape), stores)
UnaryKernel(inp, f(_)) ==
    BlockwiseKernel(inp.shape, LAMBDA pid, blk : EachLane(tl_load(inp, blk.at, blk.ok, 0), f))
BinaryKernel(a, b, f(_, _)) ==
    BlockwiseKernel(a.shape, LAMBDA pid, blk : BothLanes(tl_load(a, blk.at, blk.ok, 0), tl_load(b, blk.at, blk.ok, 0), f))

(***************************************************************************)
(* Element by element.  The runners call the array input and output; the       *)
(* intents call them inp and out.                                           *)
(***************************************************************************)
InOut(s, inout(_)) == LET x == TL!InReference(s).inp IN [input |-> x, output |-> inout(x)]

add2d_kernel(a, b) == BinaryKernel(a, b, Plus)
_run_add2d_reference(s) ==
    LET io == TL!_add2d_reference(s) IN [A |-> io.A, B |-> io.B, C |-> add2d_kernel(io.A, io.B)]
add2d == Verdicts(MatrixCases, TL!_add2d_intent, _run_add2d_reference)

relu2d_kernel(inp) == LET f(x) == Max({x, 0}) IN UnaryKernel(inp, f)
_run_relu2d_reference(s) == InOut(s, relu2d_kernel)
relu2d == Verdicts(MatrixCases, TL!_relu2d_intent, _run_relu2d_reference)

exp2d_kernel(inp) == UnaryKernel(inp, Exp)
_run_exp2d_reference(s) == InOut(s, exp2d_kernel)
exp2d == Verdicts(MatrixCases, TL!_exp2d_intent, _run_exp2d_reference)

floor2d_kernel(inp) == LET f(x) == Function1("floor", x) IN UnaryKernel(inp, f)
_run_floor2d_reference(s) == InOut(s, floor2d_kernel)
floor2d == Verdicts(MatrixCases, TL!_floor2d_intent, _run_floor2d_reference)

\* The bounds are given by value and exported as arrays without axes.
clamp2d_kernel(inp, lo, hi) == LET f(x) == Min({Max({x, lo}), hi}) IN UnaryKernel(inp, f)
_run_clamp2d_reference(s) ==
    LET inp == TL!InReference(s).inp IN
    [input |-> inp, output |-> clamp2d_kernel(inp, -20, 20), lo |-> Number(-20), hi |-> Number(20)]
clamp2d == Verdicts(MatrixCases, TL!_clamp2d_intent, _run_clamp2d_reference)

where2d_kernel(a, b) == LET f(x, y) == IF x > y THEN x ELSE y IN BinaryKernel(a, b, f)
_run_where2d_reference(s) ==
    LET io == TL!_where2d_reference(s) IN [A |-> io.A, B |-> io.B, C |-> where2d_kernel(io.A, io.B)]
where2d == Verdicts(MatrixCases, TL!_where2d_intent, _run_where2d_reference)

add_bias2d_kernel(inp, bias) ==
    LET held(pid, blk) == BothLanes(tl_load(inp, blk.at, blk.ok, 0), tl_load(bias, blk.n, blk.ok, 0), Plus) IN
    BlockwiseKernel(inp.shape, held)
_run_add_bias2d_reference(s) ==
    LET io == TL!_add_bias2d_reference(s) IN [input |-> io.inp, bias |-> io.bias, output |-> add_bias2d_kernel(io.inp, io.bias)]
add_bias2d == Verdicts(MatrixCases, TL!_add_bias2d_intent, _run_add_bias2d_reference)

rowmask_where2d_kernel(inp, row_mask) ==
    LET held(pid, blk) == EachLane(tl_load(inp, blk.at, blk.ok, 0), LAMBDA x : IF At(row_mask, <<pid[1]>>) # 0 THEN x ELSE 0) IN
    BlockwiseKernel(inp.shape, held)
_run_rowmask_where2d_reference(s) ==
    LET io == TL!_rowmask_where2d_reference(s) IN
    [input |-> io.inp, row_mask |-> io.row_mask, output |-> rowmask_where2d_kernel(io.inp, io.row_mask)]
rowmask_where2d == Verdicts(MatrixCases, TL!_rowmask_where2d_intent, _run_rowmask_where2d_reference)

\* One number for row and block.
copy2d_divmod_kernel(inp) ==
    LET grid_n == Blocks(inp.shape[2], BlockN)
        stores(pid) ==
          LET blk == RowBlock(inp.shape, pid \div grid_n, (pid % grid_n) * BlockN, BlockN) IN
          tl_store(blk.at, blk.ok, tl_load(inp, blk.at, blk.ok, 0)) IN
    Stored("float", inp.shape, Extent(inp.shape[1] * grid_n), stores)
_run_copy2d_divmod_reference(s) == InOut(s, copy2d_divmod_kernel)
copy2d_divmod == Verdicts(MatrixCases, TL!_copy2d_divmod_intent, _run_copy2d_divmod_reference)

\* A tile is loaded by rows and stored by columns.
transpose2d_kernel(inp) ==
    LET m == inp.shape[1]
        n == inp.shape[2]
        stores(pid) ==
          LET lanes == Extent(BlockM) \X Extent(BlockN)
              offs_m(e) == pid[1] * BlockM + e[1]
              offs_n(e) == pid[2] * BlockN + e[2]
              mask == [e \in lanes |-> offs_m(e) < m /\ offs_n(e) < n]
              x == tl_load(inp, [e \in lanes |-> offs_m(e) * n + offs_n(e)], mask, 0) IN
          tl_store([e \in lanes |-> offs_n(e) * m + offs_m(e)], mask, x) IN
    Stored("float", <<n, m>>, Extent(Blocks(m, BlockM)) \X Extent(Blocks(n, BlockN)), stores)
_run_transpose2d_reference(s) == LET io == TL!InReference(s) IN [inp |-> io.inp, out |-> transpose2d_kernel(io.inp)]
transpose2d == Verdicts(MatrixCases, TL!_transpose2d_intent, _run_transpose2d_reference)

gather2d_kernel(inp, row_idx, col_idx) ==
    LET stores(pid) ==
          LET offs == [l \in Extent(BlockN) |-> pid * BlockN + l]
              m == [l \in DOMAIN offs |-> offs[l] < row_idx.shape[1]]
              rows == tl_load(row_idx, offs, m, 0)
              cols == tl_load(col_idx, offs, m, 0) IN
          tl_store(offs, m, tl_load(inp, [l \in DOMAIN offs |-> rows[l] * inp.shape[2] + cols[l]], m, 0)) IN
    Stored("float", row_idx.shape, Extent(Blocks(row_idx.shape[1], BlockN)), stores)
_run_gather2d_reference(s) ==
    LET io == TL!_gather2d_reference(s) IN
    [inp |-> io.inp, row_idx |-> io.row_idx, col_idx |-> io.col_idx, out |-> gather2d_kernel(io.inp, io.row_idx, io.col_idx)]
gather2d == Verdicts([M : 1 .. 3, N : 1 .. 3, L : {3}], TL!_gather2d_intent, _run_gather2d_reference)

(***************************************************************************)
(* Rows reduced: a program for every row, block after block.                   *)
(***************************************************************************)
PerProgram(class, rows, value(_)) ==
    LET stores(p) == p :> value(p) IN Stored(class, <<rows>>, Extent(rows), stores)
\* The blocks of row p one after the other, folded into acc.
RowLoop(inp, p, acc, other, step(_, _)) ==
    LET block(start) == LET blk == RowBlock(inp.shape, p, start, BlockN) IN tl_load(inp, blk.at, blk.ok, other) IN
    FoldLeft(LAMBDA a, start : step(a, block(start)), acc, Starts(inp.shape[2], BlockN))

row_sum_kernel(inp) ==
    LET more(acc, x) == Plus(acc, Total(x)) IN
    PerProgram("float", inp.shape[1], LAMBDA p : RowLoop(inp, p, 0, 0, more))
_run_row_sum_reference(s) == InOut(s, row_sum_kernel)
row_sum == Verdicts(MatrixCases, TL!_row_sum_intent, _run_row_sum_reference)

row_max_kernel(inp) ==
    LET more(acc, x) == Max({acc, Greatest(x)}) IN
    PerProgram("float", inp.shape[1], LAMBDA p : RowLoop(inp, p, -Infinity, -Infinity, more))
_run_row_max_reference(s) == InOut(s, row_max_kernel)
row_max == Verdicts(MatrixCases, TL!_row_max_intent, _run_row_max_reference)

\* Blocks of rows by blocks of columns; the lanes of a row are joined at the end.
any_kernel_dim_kernel(inp) ==
    LET m == inp.shape[1]
        n == inp.shape[2]
        lanes == Extent(BlockM) \X Extent(BlockN)
        stores(pid) ==
          LET rows(i) == pid * BlockM + i
              more(any, off) ==
                LET mask == [e \in lanes |-> rows(e[1]) < m /\ off + e[2] < n]
                    a == tl_load(inp, [e \in lanes |-> rows(e[1]) * n + off + e[2]], mask, 0) IN
                [e \in lanes |-> any[e] \/ a[e] # 0]
              found == FoldLeft(more, [e \in lanes |-> FALSE], Starts(n, BlockN)) IN
          tl_store([i \in Extent(BlockM) |-> rows(i)], [i \in Extent(BlockM) |-> rows(i) < m],
                   [i \in Extent(BlockM) |-> Truth(\E j \in Extent(BlockN) : found[<<i, j>>])]) IN
    Stored("bool", <<m>>, Extent(Blocks(m, BlockM)), stores)
\* Unless the case brings its input, every second row holds a single 1.
_run_any_reference(s) ==
    LET inp == Filled("float", Matrix(s), LAMBDA o : Truth(o[1] % 2 = 1 /\ o[2] = (o[1] * 3) % s.N)) IN
    [inp |-> inp, out |-> any_kernel_dim_kernel(inp)]
any_kernel_dim == Verdicts(MatrixCases, TL!_any_kernel_dim_intent, _run_any_reference)

grouped_row_sum2d_kernel(inp, group_size) ==
    LET g == inp.shape[2] \div group_size
        stores(pid) ==
          LET blk == RowBlock(inp.shape, pid[1], pid[2] * group_size, group_size) IN
          (pid[1] * g + pid[2]) :> Total(tl_load(inp, blk.at, blk.ok, 0)) IN
    Stored("float", <<inp.shape[1], g>>, Extent(inp.shape[1]) \X Extent(g), stores)
_run_grouped_row_sum2d_reference(s) ==
    LET inp == TL!InReference(s).inp IN [input |-> inp, output |-> grouped_row_sum2d_kernel(inp, s.group_size)]
grouped_row_sum2d == Verdicts(TL!GroupedCases, TL!_grouped_row_sum2d_intent, _run_grouped_row_sum2d_reference)

(***************************************************************************)
(* Rows scaled: the block holds the row.  Behind the row a lane loads 0, or     *)
(* -inf, of which exp leaves 0.                                             *)
(***************************************************************************)
WholeRow(shape, p) == RowBlock(shape, p, 0, NextPowerOf2(shape[2]))
RowPrograms(shape, held(_, _)) ==
    LET stores(p) == LET blk == WholeRow(shape, p) IN tl_store(blk.at, blk.ok, held(p, blk)) IN
    Stored("float", shape, Extent(shape[1]), stores)
Square(x) == Times(x, x)
MeanOf(x, n) == Over(Total(x), n)
Rstd(squares, n) == TL!Rsqrt(Plus(MeanOf(squares, n), TL!Eps))

softmax_kernel_inner(x) ==
    LET held(p, blk) ==
          LET inp == tl_load(x, blk.at, blk.ok, -Infinity)
              m == Greatest(inp)
              e == EachLane(inp, LAMBDA y : IF y = -Infinity THEN 0 ELSE Exp(Minus(y, m)))
              z == Total(e) IN
          EachLane(e, LAMBDA y : Over(y, z)) IN
    RowPrograms(x.shape, held)
_run_softmax_reference(s) == LET x == Drawn(s) IN [input |-> x, output |-> softmax_kernel_inner(x)]
softmax_inner == Verdicts(MatrixCases, TL!_softmax_inner_intent, _run_softmax_reference)

\* Rows that fill the block: a lane behind a row counts with exp of -1e9, which is 0.
masked_softmax2d_kernel(inp, mask) ==
    LET held(p) ==
          LET blk == RowBlock(inp.shape, p, 0, inp.shape[2])
              m == tl_load(mask, blk.n, blk.ok, 0)
              x == BothLanes(tl_load(inp, blk.at, blk.ok, -Infinity), m, LAMBDA y, keep : IF keep # 0 THEN y ELSE TL!Masked)
              mx == Greatest(x)
              ex == EachLane(x, LAMBDA y : Exp(Minus(y, mx)))
              sm == Total(ex) IN
          tl_store(blk.at, blk.ok, EachLane(ex, LAMBDA y : Over(y, sm))) IN
    Stored("float", inp.shape, Extent(inp.shape[1]), held)
_run_masked_softmax2d_reference(s) ==
    LET io == TL!_masked_softmax2d_reference(s) IN
    [input |-> io.inp, mask |-> io.mask, output |-> masked_softmax2d_kernel(io.inp, io.mask)]
masked_softmax2d == Verdicts(MatrixCases, TL!_masked_softmax2d_intent, _run_masked_softmax2d_reference)

\* z is the row, biased or not, and zero behind its end.
RmsPrograms(shape, z(_), weight) ==
    LET rstd(p) == Rstd(EachLane(z(p), Square), shape[2])
        held(p, blk) ==
          LET r == rstd(p) IN BothLanes(z(p), tl_load(weight, blk.n, blk.ok, 0), LAMBDA x, w : Times(Times(x, r), w)) IN
    [out |-> RowPrograms(shape, held), rstd |-> PerProgram("float", shape[1], rstd)]
rms_norm2d_kernel(inp, weight) ==
    LET z(p) == LET blk == WholeRow(inp.shape, p) IN tl_load(inp, blk.at, blk.ok, 0) IN RmsPrograms(inp.shape, z, weight)
_run_rms_norm2d_reference(s) ==
    LET io == TL!_rms_norm2d_reference(s)
        left == rms_norm2d_kernel(io.inp, io.weight) IN
    [input |-> io.inp, weight |-> io.weight, output |-> left.out, rstd |-> left.rstd, eps |-> Number(TL!Eps)]
rms_norm2d == Verdicts(MatrixCases, TL!_rms_norm2d_intent, _run_rms_norm2d_reference)

rms_norm_residual2d_kernel(io) ==
    LET z(p) ==
          LET blk == WholeRow(io.inp.shape, p)
              xr == BothLanes(tl_load(io.inp, blk.at, blk.ok, 0), tl_load(io.residual, blk.at, blk.ok, 0), Plus) IN
          BothLanes(xr, tl_load(io.bias, blk.n, blk.ok, 0), Plus) IN
    RmsPrograms(io.inp.shape, z, io.weight)
ResidualOf(s) == LET io == TL!ResidualInputs(s) IN
                 [input |-> io.inp, residual |-> io.residual, weight |-> io.weight, bias |-> io.bias, eps |-> Number(TL!Eps)]
_run_rms_norm_residual2d_reference(s) ==
    LET left == rms_norm_residual2d_kernel(TL!ResidualInputs(s)) IN ResidualOf(s) @@ [output |-> left.out, rstd |-> left.rstd]
rms_norm_residual2d == Verdicts(MatrixCases, TL!_rms_norm_residual2d_intent, _run_rms_norm_residual2d_reference)

\* Rows whose distances to their mean dz(p) are given, zero or not behind their end.
NormPrograms(shape, mean(_), dz(_), weight, bias) ==
    LET rstd(p) == Rstd(EachLane(dz(p), Square), shape[2])
        held(p, blk) ==
          LET r == rstd(p)
              scaled == BothLanes(dz(p), tl_load(weight, blk.n, blk.ok, 0), LAMBDA x, w : Times(Times(x, r), w)) IN
          BothLanes(scaled, tl_load(bias, blk.n, blk.ok, 0), Plus) IN
    [out |-> RowPrograms(shape, held), mean |-> PerProgram("float", shape[1], mean), rstd |-> PerProgram("float", shape[1], rstd)]
\* The lanes behind a row count with the square of its mean: only rows of a power of two agree.
layer_norm_residual2d_kernel(io) ==
    LET shape == io.inp.shape
        z(p) ==
          LET blk == WholeRow(shape, p) IN
          BothLanes(tl_load(io.inp, blk.at, blk.ok, 0), tl_load(io.residual, blk.at, blk.ok, 0), Plus)
        mean(p) == MeanOf(z(p), shape[2])
        dz(p) == LET m == mean(p) IN EachLane(z(p), LAMBDA x : Minus(x, m)) IN
    NormPrograms(shape, mean, dz, io.weight, io.bias)
_run_layer_norm_residual2d_reference(s) ==
    LET left == layer_norm_residual2d_kernel(TL!ResidualInputs(s)) IN
    ResidualOf(s) @@ [output |-> left.out, mean |-> left.mean, rstd |-> left.rstd]
layer_norm_residual2d ==
    Verdicts([M : 1 .. 3, N : {1, 2, 4}], TL!_layer_norm_residual2d_intent, _run_layer_norm_residual2d_reference)

\* Lanes behind the row count in the variance.
layer_norm_persistent_kernel_fault(x, weight, bias) ==
    LET row(p) == LET blk == WholeRow(x.shape, p) IN tl_load(x, blk.at, blk.ok, 0)
        m(p) == MeanOf(row(p), x.shape[2])
        d(p) == LET mean == m(p)
                    held == row(p) IN [l \in DOMAIN held |-> Minus(held[l], mean)] @@ <<>> IN
    NormPrograms(x.shape, m, d, weight, bias)

layer_norm_persistent_kernel(x, weight, bias) ==
    LET row(p) == LET blk == WholeRow(x.shape, p) IN tl_load(x, blk.at, blk.ok, 0)
        m(p) == MeanOf(row(p), x.shape[2])
        d(p) == LET mean == m(p)
                    ok == WholeRow(x.shape, p).ok
                    held == row(p) IN [l \in DOMAIN held |-> IF ok[l] THEN Minus(held[l], mean) ELSE 0] @@ <<>> IN
    NormPrograms(x.shape, m, d, weight, bias)
_run_layernorm_reference(s) ==
    LET io == TL!_layer_norm_persistent_reference(s)
        left == layer_norm_persistent_kernel(io.in_ptr, io.weight_ptr, io.bias_ptr) IN
    [in_ptr |-> io.in_ptr, weight_ptr |-> io.weight_ptr, bias_ptr |-> io.bias_ptr, out_ptr |-> left.out,
     out_mean_ptr |-> left.mean, out_rstd_ptr |-> left.rstd, eps |-> Number(TL!Eps)]
layer_norm_persistent == Verdicts(MatrixCases, TL!_layer_norm_persistent_intent, _run_layernorm_reference)

\* A program has a block of channels by a block of elements; channels are masked by C only, so
\* that groups of three channels next to others would mix.
_norm_groupnorm(s) ==
    LET divisors == {d \in 1 .. s.C : s.C % d = 0}
        requested == Max({1, Min({s.num_groups, s.C})})
        away(d) == IF d > requested THEN d - requested ELSE requested - d
        near == {d \in divisors : \A e \in divisors : away(d) <= away(e)}
        best == Max(near) IN
    [s EXCEPT !.num_groups = best] @@ [group_size |-> s.C \div best]
group_norm_kernel_kernel(x, w, b, num_groups) ==
    LET channels == x.shape[2]
        hw == x.shape[3]
        group_size == channels \div num_groups
        num_elements == group_size * hw
        lanes == Extent(NextPowerOf2(group_size)) \X Extent(NextPowerOf2(hw))
        grid == Extent(x.shape[1] * num_groups)
        wb(pid, e) == (pid % num_groups) * group_size + e[1]
        offs(pid) == [e \in lanes |-> pid * num_elements + e[1] * hw + e[2]]
        mask(pid) == [e \in lanes |-> wb(pid, e) < channels /\ e[2] < hw]
        wbOf(t, pid) == tl_load(t, [e \in lanes |-> wb(pid, e)], [e \in lanes |-> wb(pid, e) < channels], 0)
        held == [pid \in grid |-> tl_load(x, offs(pid), mask(pid), 0)] @@ <<>>
        mean == [pid \in grid |-> MeanOf(held[pid], num_elements)] @@ <<>>
        d == [pid \in grid |-> [e \in lanes |-> IF mask(pid)[e] THEN Minus(held[pid][e], mean[pid]) ELSE 0] @@ <<>>] @@ <<>>
        rstd == [pid \in grid |-> Rstd(EachLane(d[pid], Square), num_elements)] @@ <<>>
        y(pid) == LET scaled == BothLanes(d[pid], wbOf(w, pid), LAMBDA v, u : Times(Times(v, rstd[pid]), u)) IN
                  tl_store(offs(pid), mask(pid), BothLanes(scaled, wbOf(b, pid), Plus)) IN
    [Y |-> Stored("float", x.shape, grid, y),
     Mean |-> Stored("float", <<x.shape[1], num_groups>>, grid, LAMBDA pid : pid :> mean[pid]),
     Rstd |-> Stored("float", <<x.shape[1], num_groups>>, grid, LAMBDA pid : pid :> rstd[pid])]
_run_groupnorm_reference(s) ==
    LET io == [X |-> Draw(<<s.N, s.C, s.HW>>, 1), W |-> Draw(<<s.C>>, 2), B |-> Draw(<<s.C>>, 3)] IN
    io @@ group_norm_kernel_kernel(io.X, io.W, io.B, s.num_groups)
group_norm_kernel ==
    Verdicts({_norm_groupnorm(s) : s \in [N : {1, 2}, C : {2, 3, 4}, HW : {1, 3}, num_groups : 1 .. 4]},
             TL!_group_norm_intent, _run_groupnorm_reference)

(***************************************************************************)
(* Products of matrices, tile by tile, with zeros behind their ends.          *)
(***************************************************************************)
TileOf(t, r, c, h, w) ==
    LET lanes == Extent(h) \X Extent(w) IN
    tl_load(t, [e \in lanes |-> (r + e[1]) * t.shape[2] + c + e[2]],
            [e \in lanes |-> r + e[1] < t.shape[1] /\ c + e[2] < t.shape[2]], 0)
StripOf(t, start, size) ==
    tl_load(t, [j \in Extent(size) |-> start + j], [j \in Extent(size) |-> start + j < t.shape[1]], 0)
DotLoop(a, b, m0, n0) ==
    FoldLeft(LAMBDA acc, k0 : TL!Gemm(acc, TileOf(a, m0, k0, BlockM, BlockK), TileOf(b, k0, n0, BlockK, BlockN), BlockK),
             TL!Cleared(BlockM, BlockN), Starts(a.shape[2], BlockK))
\* A program for every tile of the output; m0 and n0 are its first row and column.
TileKernel(rows, cols, tile(_, _)) ==
    LET lanes == Extent(BlockM) \X Extent(BlockN)
        stores(pid) ==
          LET m0 == pid[1] * BlockM
              n0 == pid[2] * BlockN IN
          tl_store([e \in lanes |-> (m0 + e[1]) * cols + n0 + e[2]],
                   [e \in lanes |-> m0 + e[1] < rows /\ n0 + e[2] < cols], tile(m0, n0)) IN
    Stored("float", <<rows, cols>>, Extent(Blocks(rows, BlockM)) \X Extent(Blocks(cols, BlockN)), stores)
AddToRows(acc, bias) == [e \in DOMAIN acc |-> Plus(acc[e], bias[e[2]])] @@ <<>>

matmul_relu2d_kernel(a, b) ==
    TileKernel(a.shape[1], b.shape[2], LAMBDA m0, n0 : TL!ReluTile(DotLoop(a, b, m0, n0)))
_run_matmul_relu2d_reference(s) == LET io == TL!Factors(s) IN io @@ [C |-> matmul_relu2d_kernel(io.A, io.B)]
matmul_relu2d == Verdicts(TL!ProductCases, TL!_matmul_relu2d_intent, _run_matmul_relu2d_reference)

matmul_bias_relu2d_kernel(a, b, bias) ==
    LET tile(m0, n0) == TL!ReluTile(AddToRows(DotLoop(a, b, m0, n0), StripOf(bias, n0, BlockN))) IN
    TileKernel(a.shape[1], b.shape[2], tile)
_run_matmul_bias_relu2d_reference(s) ==
    LET io == TL!_matmul_bias_relu2d_reference(s) IN io @@ [C |-> matmul_bias_relu2d_kernel(io.A, io.B, io.bias)]
matmul_bias_relu2d == Verdicts(TL!ProductCases, TL!_matmul_bias_relu2d_intent, _run_matmul_bias_relu2d_reference)

matmul_fused_epilogue2d_kernel(io) ==
    LET tile(m0, n0) ==
          LET acc == AddToRows(DotLoop(io.A, io.B, m0, n0), StripOf(io.bias, n0, BlockN))
              rm == StripOf(io.row_mask, m0, BlockM)
              cm == StripOf(io.col_mask, n0, BlockN) IN
          [e \in DOMAIN acc |-> IF rm[e[1]] # 0 /\ cm[e[2]] # 0 THEN acc[e] ELSE 0] IN
    TileKernel(io.A.shape[1], io.B.shape[2], tile)
_run_matmul_fused_epilogue2d_reference(s) ==
    LET io == TL!_matmul_fused_epilogue2d_reference(s) IN [io EXCEPT !.C = matmul_fused_epilogue2d_kernel(io)]
matmul_fused_epilogue2d ==
    Verdicts(TL!ProductCases, TL!_matmul_fused_epilogue2d_intent, _run_matmul_fused_epilogue2d_reference)

\* Hidden columns block by block, each multiplied into the output at once.
mlp2d_kernel(io) ==
    LET hidden(m0, h0) == TL!ReluTile(AddToRows(DotLoop(io.A, io.W1, m0, h0), StripOf(io.b1, h0, BlockH))) @@ <<>>
        block(acc, m0, n0, h0) == TL!Gemm(acc, hidden(m0, h0), TileOf(io.W2, h0, n0, BlockH, BlockN), BlockH)
        tile(m0, n0) ==
          AddToRows(FoldLeft(LAMBDA acc, h0 : block(acc, m0, n0, h0), TL!Cleared(BlockM, BlockN), Starts(io.b1.shape[1], BlockH)),
                    StripOf(io.b2, n0, BlockN)) IN
    TileKernel(io.A.shape[1], io.W2.shape[2], tile)
_run_mlp2d_reference(s) == LET io == TL!_mlp2d_reference(s) IN [io EXCEPT !.C = mlp2d_kernel(io)]
mlp2d == Verdicts(TL!MlpCases, TL!_mlp2d_intent, _run_mlp2d_reference)

(***************************************************************************)
(* Attention: a program has one row of queries, and all keys in one block.     *)
(* Keys behind the last would count with exp of -1e9, which is 0.            *)
(***************************************************************************)
masked_attention2d_kernel(q, k, v, sm_scale) ==
    LET dims == Extent(q.shape[2])
        keys == Extent(k.shape[1])
        stores(pid) ==
          LET row == tl_load(q, [d \in dims |-> pid * q.shape[2] + d], [d \in dims |-> pid < q.shape[1]], 0)
              kt == TileOf(k, 0, 0, k.shape[1], k.shape[2])
              vt == TileOf(v, 0, 0, v.shape[1], v.shape[2])
              dot(j) == Times(FloatSum(dims, LAMBDA d : Times(kt[<<j, d>>], row[d])), sm_scale)
              scores == [j \in keys |-> IF j > pid THEN TL!Masked ELSE dot(j)] @@ <<>>
              mx == Greatest(scores)
              ex == EachLane(scores, LAMBDA x : Exp(Minus(x, mx)))
              sm == Total(ex)
              out == [d \in dims |-> FloatSum(keys, LAMBDA j : Times(vt[<<j, d>>], Over(ex[j], sm)))] IN
          tl_store([d \in dims |-> pid * q.shape[2] + d], [d \in dims |-> pid < q.shape[1]], out) IN
    Stored("float", q.shape, Extent(q.shape[1]), stores)
_run_masked_attention2d_reference(s) ==
    LET io == TL!_masked_attention2d_reference(s)
        scale == At(io.sm_scale, <<0>>) IN
    [Q |-> io.Q, K |-> io.K, V |-> io.V, sm_scale |-> Number(scale), Out |-> masked_attention2d_kernel(io.Q, io.K, io.V, scale)]
masked_attention2d == Verdicts(TL!AttendedCases, TL!_masked_attention2d_intent, _run_masked_attention2d_reference)

\* The outcomes, spec by spec.
TritonVerdicts ==
    [add2d |-> add2d, relu2d |-> relu2d, exp2d |-> exp2d, floor2d |-> floor2d, clamp2d |-> clamp2d,
     where2d |-> where2d, add_bias2d |-> add_bias2d, rowmask_where2d |-> rowmask_where2d,
     copy2d_divmod |-> copy2d_divmod, transpose2d |-> transpose2d, gather2d |-> gather2d, row_sum |-> row_sum,
     row_max |-> row_max, any_kernel_dim |-> any_kernel_dim, grouped_row_sum2d |-> grouped_row_sum2d,
     softmax_inner |-> softmax_inner, masked_softmax2d |-> masked_softmax2d, rms_norm2d |-> rms_norm2d,
     rms_norm_residual2d |-> rms_norm_residual2d, layer_norm_residual2d |-> layer_norm_residual2d,
     layer_norm_persistent |-> layer_norm_persistent, group_norm_kernel |-> group_norm_kernel,
     matmul_relu2d |-> matmul_relu2d, matmul_bias_relu2d |-> matmul_bias_relu2d,
     matmul_fused_epilogue2d |-> matmul_fused_epilogue2d, mlp2d |-> mlp2d, masked_attention2d |-> masked_attention2d]
================================================================================
