---------------------------- MODULE FlagGemsTensors -----------------------------
(***************************************************************************)
(* The FlagGems kernels that join, pad, gather, make or write arrays, losses,  *)
(* windows and attention, written like those of FlagGemsRows.               *)
(***************************************************************************)
EXTENDS FlagGemsRows

LOCAL INSTANCE TLC
LOCAL INSTANCE SequencesExt
LOCAL INSTANCE FiniteSetsExt

(***************************************************************************)
(* Arrays joined and padded.                                                *)
(***************************************************************************)
Pair(s) == [A |-> Draw(Matrix(s), 1), B |-> Draw(Matrix(s), 2)]
JoinIntent(dims, axis) == OneOp(Shaped({"A", "B"}, MN) @@ [out |-> dims], "concat", "out", <<"A", "B">>, [axis |-> axis])
Beside(s) ==
    LET at(o) == IF o[2] < s.N THEN At(Pair(s).A, o) ELSE At(Pair(s).B, <<o[1], o[2] - s.N>>) IN
    Filled("float", <<s.M, 2 * s.N>>, at)

_canonical_cat2d_intent == JoinIntent(<<"M_OUT", "N_OUT">>, 1)
_norm_cat2d(s) ==
    LET axis == IF s.AXIS < 0 THEN s.AXIS + 2 ELSE s.AXIS
        fixed == IF axis \in {0, 1} THEN axis ELSE 1 IN
    [M |-> s.M, N |-> s.N, AXIS |-> fixed, M_OUT |-> IF fixed = 1 THEN s.M ELSE 2 * s.M,
     N_OUT |-> IF fixed = 1 THEN 2 * s.N ELSE s.N]
cat2d_reference(s) == Pair(s) @@ Output(Beside(s)) @@ Named({"axis", "dim"}, ScalarOf("int", s.AXIS))
cat2d == Verdicts({_norm_cat2d([AXIS |-> 1] @@ s) : s \in MatrixCases}, _canonical_cat2d_intent, cat2d_reference)

_canonical_hstack2d_intent == JoinIntent(<<"M_OUT", "N_OUT">>, 1)
_norm_hstack2d(s) == [AXIS |-> 1, M_OUT |-> s.M, N_OUT |-> 2 * s.N] @@ _norm_cat2d(s)
hstack2d_reference(s) == Pair(s) @@ Output(Beside(s)) @@ Named({"axis", "dim"}, ScalarOf("int", 1))
hstack2d == Verdicts({_norm_hstack2d([AXIS |-> 1] @@ s) : s \in MatrixCases}, _canonical_hstack2d_intent, hstack2d_reference)

_canonical_vstack2d_intent == JoinIntent(<<"M_OUT", "N">>, 0)
\* The offsets of the copied kernel's rows are left out: no intent here names them.
_norm_vstack2d(s) == s @@ [M_OUT |-> 2 * s.M]
vstack2d_reference(s) ==
    LET at(o) == IF o[1] < s.M THEN At(Pair(s).A, o) ELSE At(Pair(s).B, <<o[1] - s.M, o[2]>>) IN
    Pair(s) @@ Named({"in0", "input0", "in_ptr_a", "itensor_ptr0"}, Pair(s).A)
    @@ Named({"in1", "input1", "in_ptr_b", "itensor_ptr1"}, Pair(s).B)
    @@ Named({"out", "output", "output_data", "out_ptr"}, Filled("float", <<2 * s.M, s.N>>, at))
vstack2d == Verdicts({_norm_vstack2d(s) : s \in MatrixCases}, _canonical_vstack2d_intent, vstack2d_reference)

_canonical_stack2d_intent ==
    OneOp(Shaped({"input0", "input1"}, MN) @@ [out_ptr |-> <<"2", "M", "N">>], "stack", "out_ptr", <<"input0", "input1">>,
          [axis |-> 0])
stack2d_reference(s) ==
    LET at(o) == At(IF o[1] = 0 THEN Pair(s).A ELSE Pair(s).B, <<o[2], o[3]>>) IN
    Pair(s) @@ [input0 |-> Pair(s).A, input1 |-> Pair(s).B] @@ Output(Filled("float", <<2, s.M, s.N>>, at))
stack2d == Verdicts(MatrixCases, _canonical_stack2d_intent, stack2d_reference)

\* One column on the left, two on the right and one row on top.
PadIntent(inp, dims) ==
    OneOp([n \in {inp} |-> MN] @@ [out |-> dims], "pad", "out", <<inp>>, [pairs |-> <<<<1, 0>>, <<1, 2>>>>, value |-> 0])
PadReference(s) ==
    LET at(o) == IF o[1] \in s.PAD_TOP .. s.PAD_TOP + s.M - 1 /\ o[2] \in s.PAD_LEFT .. s.PAD_LEFT + s.N - 1
                 THEN At(Drawn(s), <<o[1] - s.PAD_TOP, o[2] - s.PAD_LEFT>>) ELSE 0 IN
    Named({"inp", "in0", "input"}, Drawn(s)) @@ Named({"value", "pad_value"}, Number(0))
    @@ Output(Filled("float", <<s.M + s.PAD_TOP + s.PAD_BOTTOM, s.N + s.PAD_LEFT + s.PAD_RIGHT>>, at))
Pads == [PAD_LEFT |-> 1, PAD_RIGHT |-> 2, PAD_TOP |-> 1, PAD_BOTTOM |-> 0]

_canonical_pad2d_intent == PadIntent("in0", <<"M + 1", "N + 3">>)
pad2d_reference(s) == PadReference(s)
pad2d == Verdicts({s @@ Pads : s \in MatrixCases}, _canonical_pad2d_intent, pad2d_reference)
_canonical_constant_pad_nd2d_intent == PadIntent("inp", <<"M_OUT", "N_OUT">>)
_norm_constant_pad_nd2d(s) ==
    s @@ [M_OUT |-> s.M + s.PAD_TOP + s.PAD_BOTTOM, N_OUT |-> s.N + s.PAD_LEFT + s.PAD_RIGHT]
constant_pad_nd2d_reference(s) == PadReference(s)
constant_pad_nd2d ==
    Verdicts({_norm_constant_pad_nd2d(s @@ Pads) : s \in MatrixCases}, _canonical_constant_pad_nd2d_intent,
             constant_pad_nd2d_reference)

(***************************************************************************)
(* Elements taken by row and column; the reference also exports both indices. *)
(***************************************************************************)
GatherIntent(dims, out) ==
    OneOp([inp |-> dims] @@ Shaped({"row_idx", "col_idx", "out"}, out), "gather", "out", <<"inp", "row_idx", "col_idx">>, <<>>)
TakenBy(shape, row(_), col(_)) == [row_idx |-> Filled("int", shape, row), col_idx |-> Filled("int", shape, col)]

_canonical_gather2d_intent == GatherIntent(MN, <<"L">>)
gather2d_reference(s) ==
    LET rows == DrawIn("int", <<s.L>>, 2, 0, s.M - 1)
        cols == DrawIn("int", <<s.L>>, 3, 0, s.N - 1)
        out(o) == At(Drawn(s), <<rows.at[o[1]], cols.at[o[1]]>>) IN
    Input(Drawn(s)) @@ [row_idx |-> rows, col_idx |-> cols] @@ Output(Filled("float", <<s.L>>, out))
gather2d == Verdicts([M : 1 .. 3, N : 1 .. 3, L : {1, 4}], _canonical_gather2d_intent, gather2d_reference)

RepeatReference(s) ==
    LET shape == <<s.M * s.R0, s.N * s.R1>>
        row(o) == o[1] % s.M
        col(o) == o[2] % s.N
        out(o) == At(Drawn(s), <<row(o), col(o)>>) IN
    Input(Drawn(s)) @@ TakenBy(shape, row, col) @@ Output(Filled("float", shape, out))
_norm_repeat2d(s) == s @@ [M_OUT |-> s.M * s.R0, N_OUT |-> s.N * s.R1]
RepeatCases == {_norm_repeat2d(s) : s \in [M : 1 .. 2, N : 1 .. 3, R0 : 1 .. 2, R1 : 1 .. 2]}
_canonical_repeat2d_intent == GatherIntent(MN, <<"M_OUT", "N_OUT">>)
repeat2d_reference(s) == RepeatReference(s)
repeat2d == Verdicts(RepeatCases, _canonical_repeat2d_intent, repeat2d_reference)
_canonical_tile2d_intent == GatherIntent(MN, <<"M_OUT", "N_OUT">>)
tile2d_reference(s) == RepeatReference(s)
tile2d == Verdicts(RepeatCases, _canonical_tile2d_intent, tile2d_reference)

\* A vector as a matrix of one row, every element R times in a row.
InterleaveReference(s, vector) ==
    LET first(o) == 0
        source(o) == o[1] \div s.R
        out(o) == vector.at[source(o)] IN
    [inp |-> [vector EXCEPT !.shape = <<1, s.N>>], input |-> vector] @@ TakenBy(<<s.N_OUT>>, first, source)
    @@ Output(Filled("float", <<s.N_OUT>>, out))
_norm_repeat_interleave1d(s) == [M |-> 1, N |-> s.N, R |-> s.R, N_OUT |-> s.N * s.R]
InterleaveCases == {_norm_repeat_interleave1d(s) : s \in [N : 1 .. 3, R : 1 .. 3]}
_canonical_repeat_interleave_self_int1d_intent == GatherIntent(<<"1", "N">>, <<"N_OUT">>)
repeat_interleave_self_int1d_reference(s) == InterleaveReference(s, Draw(<<s.N>>, 1))
repeat_interleave_self_int1d ==
    Verdicts(InterleaveCases, _canonical_repeat_interleave_self_int1d_intent, repeat_interleave_self_int1d_reference)
_canonical_repeat_interleave_self_tensor1d_intent == GatherIntent(<<"1", "N">>, <<"N_OUT">>)
repeat_interleave_self_tensor1d_reference(s) == InterleaveReference(s, Draw(<<s.N>>, 1))
repeat_interleave_self_tensor1d ==
    Verdicts(InterleaveCases, _canonical_repeat_interleave_self_tensor1d_intent, repeat_interleave_self_tensor1d_reference)
\* Without an array the elements are their own numbers.
_canonical_repeat_interleave_tensor1d_intent == GatherIntent(<<"1", "N">>, <<"N_OUT">>)
repeat_interleave_tensor1d_reference(s) ==
    LET number(o) == o[1] IN InterleaveReference(s, Filled("float", <<s.N>>, number))
repeat_interleave_tensor1d ==
    Verdicts(InterleaveCases, _canonical_repeat_interleave_tensor1d_intent, repeat_interleave_tensor1d_reference)

_canonical_index_select2d_intent == GatherIntent(MN, <<"L", "N">>)
index_select2d_reference(s) ==
    LET index == DrawIn("int", <<s.L>>, 2, 0, s.M - 1)
        row(o) == index.at[o[1]]
        col(o) == o[2]
        out(o) == At(Drawn(s), <<row(o), o[2]>>) IN
    Input(Drawn(s)) @@ [index |-> index] @@ TakenBy(<<s.L, s.N>>, row, col) @@ Output(Filled("float", <<s.L, s.N>>, out))
index_select2d == Verdicts([M : 1 .. 3, N : 1 .. 2, L : 1 .. 3], _canonical_index_select2d_intent, index_select2d_reference)

_canonical_flip2d_intent == GatherIntent(MN, MN)
flip2d_reference(s) ==
    LET row(o) == o[1]
        col(o) == s.N - 1 - o[2]
        out(o) == At(Drawn(s), <<o[1], s.N - 1 - o[2]>>) IN
    Named({"A", "inp", "input"}, Drawn(s)) @@ TakenBy(Matrix(s), row, col)
    @@ Named({"Out", "out", "output"}, Filled("float", Matrix(s), out))
flip2d == Verdicts(MatrixCases, _canonical_flip2d_intent, flip2d_reference)

\* The rows of a few indices, one after the other, cut after L elements.
_canonical_embedding2d_intent == GatherIntent(MN, <<"L">>)
embedding2d_reference(s) ==
    LET index == DrawIn("int", <<(s.L + s.N - 1) \div s.N>>, 2, 0, s.M - 1)
        row(o) == index.at[o[1] \div s.N]
        col(o) == o[1] % s.N
        out(o) == At(Drawn(s), <<row(o), col(o)>>) IN
    Input(Drawn(s)) @@ [index |-> index] @@ TakenBy(<<s.L>>, row, col) @@ Output(Filled("float", <<s.L>>, out))
embedding2d == Verdicts([M : 1 .. 3, N : 1 .. 3, L : {1, 4, 5}], _canonical_embedding2d_intent, embedding2d_reference)

_canonical_diag2d_intent ==
    IntentFunction([data |-> <<"M", "M">>, output |-> <<"M">>],
                   <<Numbering("diag_idx", 0, <<"M">>), OpOf("gather", "output", <<"data", "diag_idx", "diag_idx">>)>>, <<"output">>)
_norm_diag2d(s) == [M |-> AtLeast(1, s.M), N |-> AtLeast(1, s.M), DIAG |-> 0]
diag2d_reference(s) ==
    LET out(o) == At(Drawn(s), <<o[1], o[1] + s.DIAG>>) IN
    Named({"inp", "data", "input"}, Drawn(s)) @@ Output(Filled("float", <<s.M>>, out))
diag2d == Verdicts({_norm_diag2d(s) : s \in MatrixCases}, _canonical_diag2d_intent, diag2d_reference)

(***************************************************************************)
(* Arrays made from their indices.                                          *)
(***************************************************************************)
EyeIntent(dims) ==
    IntentFunction(Shaped({"idx_row", "idx_col", "offdiag_mask", "diag_mask", "out"}, dims),
                   <<Numbering("idx_row", 0, dims), Numbering("idx_col", 1, dims),
                     OpOf("ne", "offdiag_mask", <<"idx_row", "idx_col">>), OpOf("not", "diag_mask", <<"offdiag_mask">>),
                     AsFloat("out", "diag_mask")>>, <<"out">>)
EyeReference(rows, cols) == LET one(o) == Truth(o[1] = o[2]) IN Output(Filled("float", <<rows, cols>>, one))
_canonical_eye2d_intent == EyeIntent(<<"N", "N">>)
eye2d_reference(s) == EyeReference(s.N, s.N)
eye2d == Verdicts(Vectors, _canonical_eye2d_intent, eye2d_reference)
_canonical_eye_m2d_intent == EyeIntent(<<"N", "M">>)
eye_m2d_reference(s) == EyeReference(s.N, s.M)
eye_m2d == Verdicts(MatrixCases, _canonical_eye_m2d_intent, eye_m2d_reference)

_canonical_one_hot2d_intent ==
    IntentFunction([tensor |-> <<"M">>, out |-> <<"M", "C">>],
                   <<Numbering("class_idx", 1, <<"M", "C">>), Spread2("token_idx", "tensor", <<"M", "C">>, <<0>>),
                     OpOf("ne", "neq_mask", <<"token_idx", "class_idx">>), OpOf("not", "eq_mask", <<"neq_mask">>),
                     OpWith("cast", "out", <<"eq_mask">>, [to |-> "i64"])>>, <<"out">>)
_norm_one_hot2d(s) == [M |-> AtLeast(1, s.M), C |-> AtLeast(2, s.C)]
one_hot2d_reference(s) ==
    LET tensor == DrawIn("int", <<s.M>>, 1, 0, s.C - 1)
        hot(o) == Truth(tensor.at[o[1]] = o[2]) IN
    [tensor |-> tensor, num_classes |-> ScalarOf("int", s.C)] @@ Output(Filled("int", <<s.M, s.C>>, hot))
one_hot2d == Verdicts({_norm_one_hot2d(s) : s \in [M : 1 .. 3, C : 1 .. 3]}, _canonical_one_hot2d_intent, one_hot2d_reference)

_canonical_isin1d_intent ==
    IntentFunction([in0 |-> <<"M">>, in1 |-> <<"K">>, out |-> <<"M">>],
                   <<Spread2("in0_mk", "in0", <<"M", "K">>, <<0>>), Spread2("in1_mk", "in1", <<"M", "K">>, <<1>>),
                     OpOf("ne", "neq_mk", <<"in0_mk", "in1_mk">>), OpOf("not", "eq_mk", <<"neq_mk">>),
                     OpWith("reduce_any", "out", <<"eq_mk">>, [dims |-> <<1>>])>>, <<"out">>)
isin1d_reference(s) ==
    LET in0 == DrawIn("int", <<s.M>>, 1, 0, 4)
        in1 == DrawIn("int", <<s.K>>, 2, 0, 4)
        isin(o) == Truth(\E k \in DOMAIN in1.at : in1.at[k] = in0.at[o[1]]) IN
    Named({"in0", "input"}, in0) @@ Named({"in1", "values"}, in1) @@ Output(Filled("bool", <<s.M>>, isin))
isin1d == Verdicts([M : 1 .. 3, K : 1 .. 3], _canonical_isin1d_intent, isin1d_reference)

SpaceOps(lin) == <<Numbering("idx", 0, <<"N">>), AsFloat("idx_f", "idx"), OpOf("sub", "delta", <<"end", "start">>),
                   OpOf("div", "step", <<"delta", "denom">>), OpOf("mul", "scaled", <<"idx_f", "step">>),
                   OpOf("add", lin, <<"start", "scaled">>)>>
SpaceReference(s, value(_)) ==
    LET at(o) == value(Plus(-1, Over(Times(o[1], 3), s.N - 1))) IN
    [start |-> Number(-1), end |-> Number(2), denom |-> Number(AtLeast(1, s.N - 1))] @@ Output(Filled("float", <<s.N>>, at))
_canonical_linspace1d_intent == IntentFunction(Shaped({"start", "end", "denom"}, <<>>) @@ [out |-> <<"N">>], SpaceOps("out"), <<"out">>)
_norm_linspace1d(s) == [N |-> AtLeast(2, s.N)]
linspace1d_reference(s) == LET same(x) == x IN SpaceReference(s, same)
linspace1d == Verdicts({_norm_linspace1d(s) : s \in Vectors}, _canonical_linspace1d_intent, linspace1d_reference)
\* A power of the base 10 is an exponential; its logarithm is exported.
Ln10 == 23
_canonical_logspace1d_intent ==
    IntentFunction(Shaped({"start", "end", "denom", "log_base"}, <<>>) @@ [out |-> <<"N">>],
                   SpaceOps("lin") \o <<OpOf("mul", "exp_arg", <<"lin", "log_base">>), OpOf("exp", "out", <<"exp_arg">>)>>, <<"out">>)
_norm_logspace1d(s) == [N |-> AtLeast(2, s.N)]
logspace1d_reference(s) ==
    LET power(x) == Exp(Times(x, Ln10)) IN SpaceReference(s, power) @@ [log_base |-> Number(Ln10)]
logspace1d == Verdicts({_norm_logspace1d(s) : s \in Vectors}, _canonical_logspace1d_intent, logspace1d_reference)

_canonical_trace2d_intent ==
    IntentFunction(Shaped({"input", "row_idx", "col_idx", "diag_mask", "diag_vals"}, MN) @@ Shaped({"zero_const", "out"}, <<>>),
                   <<Numbering("row_idx", 0, MN), Numbering("col_idx", 1, MN), OpOf("eq", "diag_mask", <<"row_idx", "col_idx">>),
                     Const("zero_const", 0), OpOf("where", "diag_vals", <<"diag_mask", "input", "zero_const">>),
                     OpWith("reduce_sum", "out", <<"diag_vals">>, [dims |-> <<0, 1>>])>>, <<"out">>)
_norm_trace2d(s) == [M |-> AtLeast(1, s.M), N |-> AtLeast(1, s.N)]
trace2d_reference(s) ==
    LET diagonal(k) == At(Drawn(s), <<k, k>>) IN
    Named({"inp", "x", "input"}, Drawn(s)) @@ Output(Number(FloatSum(Extent(Min({s.M, s.N})), diagonal)))
trace2d == Verdicts({_norm_trace2d(s) : s \in MatrixCases}, _canonical_trace2d_intent, trace2d_reference)

_canonical_triu2d_intent ==
    IntentFunction(Shaped({"input", "row_idx", "col_idx", "shifted_row", "keep_mask", "out"}, MN)
                   @@ Shaped({"diagonal", "zero_const"}, <<>>),
                   <<Numbering("row_idx", 0, MN), Numbering("col_idx", 1, MN), OpOf("add", "shifted_row", <<"row_idx", "diagonal">>),
                     OpOf("le", "keep_mask", <<"shifted_row", "col_idx">>), Const("zero_const", 0),
                     OpOf("where", "out", <<"keep_mask", "input", "zero_const">>)>>, <<"out">>)
_norm_triu2d(s) == [s EXCEPT !.DIAG = Min({AtLeast(-s.M, @), s.N})]
triu2d_reference(s) ==
    LET kept(o) == IF o[2] - o[1] >= s.DIAG THEN At(Drawn(s), o) ELSE 0 IN
    Named({"inp", "x", "input"}, Drawn(s)) @@ Output(Filled("float", Matrix(s), kept)) @@ [diagonal |-> ScalarOf("int", s.DIAG)]
triu2d ==
    Verdicts({_norm_triu2d(s) : s \in [M : 1 .. 3, N : 1 .. 3, DIAG : -1 .. 4]}, _canonical_triu2d_intent, triu2d_reference)

Cube == <<"B", "N", "N">>
_canonical_diag_embed2d_intent ==
    IntentFunction([x |-> <<"B", "N">>, y |-> Cube],
                   <<Const("zero_scalar", 0), Spread2("y_zeros", "zero_scalar", Cube, <<>>), Numbering("idx_row", 1, Cube),
                     Numbering("idx_col", 2, Cube), OpOf("eq", "diag_mask", <<"idx_row", "idx_col">>),
                     Spread2("x_bcast", "x", Cube, <<0, 2>>), OpOf("where", "y", <<"diag_mask", "x_bcast", "y_zeros">>)>>, <<"y">>)
_norm_diag_embed2d(s) == [B |-> AtLeast(1, s.B), N |-> AtLeast(1, s.N), OFFSET |-> 0]
diag_embed2d_reference(s) ==
    LET inp == Draw(<<s.B, s.N>>, 1)
        at(o) == IF o[3] = o[2] + s.OFFSET THEN At(inp, <<o[1], o[2]>>) ELSE 0 IN
    Named({"inp", "x", "input"}, inp) @@ Output(Filled("float", <<s.B, s.N, s.N>>, at))
diag_embed2d ==
    Verdicts({_norm_diag_embed2d(s) : s \in [B : 1 .. 2, N : 1 .. 3]}, _canonical_diag_embed2d_intent, diag_embed2d_reference)

(***************************************************************************)
(* Arrays written into.                                                    *)
(***************************************************************************)
\* An order of 0 .. size - 1 without a pattern: the rank of each, and what has a rank.
RankOf(size, k, l) == Cardinality({m \in Extent(size) : LET x == Noise(m, k) % Prime
                                                            y == Noise(l, k) % Prime IN x < y \/ (x = y /\ m < l)})
WithRank(size, k, r) == CHOOSE l \in Extent(size) : RankOf(size, k, l) = r
Based(s, changed(_), value(_)) ==
    LET at(o) == IF changed(o) THEN value(o) ELSE At(Drawn(s), o) IN Output(Filled("float", Matrix(s), at))

_canonical_scatter2d_intent ==
    OneOp(Shaped({"inp", "index", "src", "out"}, MN), "scatter", "out", <<"inp", "index", "src">>, [dim |-> 1])
_norm_scatter2d(s) == [M |-> AtLeast(1, s.M), N |-> AtLeast(1, s.N), DIM |-> 1]
scatter2d_reference(s) ==
    LET src == Draw(Matrix(s), 2)
        index(o) == RankOf(s.N, o[1] + 1, o[2])
        always(o) == TRUE
        value(o) == At(src, <<o[1], WithRank(s.N, o[1] + 1, o[2])>>) IN
    Input(Drawn(s)) @@ [index |-> Filled("int", Matrix(s), index), src |-> src] @@ Based(s, always, value)
scatter2d == Verdicts({_norm_scatter2d(s) : s \in MatrixCases}, _canonical_scatter2d_intent, scatter2d_reference)

_canonical_select_scatter2d_intent ==
    OneOp(Shaped({"inp", "out"}, MN) @@ [src |-> <<"M">>], "select_scatter", "out", <<"inp", "src">>, [dim |-> 1, index |-> 0])
_norm_select_scatter2d(s) == [M |-> AtLeast(1, s.M), N |-> AtLeast(1, s.N), DIM |-> 1, INDEX |-> Min({0, AtLeast(1, s.N) - 1})]
select_scatter2d_reference(s) ==
    LET src == Draw(<<s.M>>, 2)
        selected(o) == o[2] = s.INDEX
        value(o) == src.at[o[1]] IN
    Input(Drawn(s)) @@ [src |-> src] @@ Based(s, selected, value)
select_scatter2d ==
    Verdicts({_norm_select_scatter2d(s) : s \in MatrixCases}, _canonical_select_scatter2d_intent, select_scatter2d_reference)

\* The intent ends the slice at 4, which is where the table's L ends it.
_canonical_slice_scatter2d_intent ==
    OneOp(Shaped({"inp", "out"}, MN) @@ [src |-> <<"M", "L">>], "slice_scatter", "out", <<"inp", "src">>,
          [dim |-> 1, start |-> 0, end |-> 4, step |-> 1])
_norm_slice_scatter2d(s) ==
    LET l == Min({AtLeast(1, s.L), s.N}) IN
    [M |-> s.M, N |-> s.N, L |-> l, DIM |-> 1, STEP |-> s.STEP,
     START |-> IF s.START + l * s.STEP > s.N THEN AtLeast(0, s.N - l * s.STEP) ELSE s.START]
slice_scatter2d_reference(s) ==
    LET src == Draw(<<s.M, s.L>>, 2)
        sliced(o) == /\ o[2] >= s.START
                     /\ o[2] < s.START + s.L * s.STEP
                     /\ (o[2] - s.START) % s.STEP = 0
        value(o) == At(src, <<o[1], (o[2] - s.START) \div s.STEP>>) IN
    Input(Drawn(s)) @@ [src |-> src] @@ Based(s, sliced, value)
slice_scatter2d ==
    Verdicts({_norm_slice_scatter2d(s) : s \in [M : 1 .. 2, N : 2 .. 6, L : {4}, START : {0}, STEP : {1}]},
             _canonical_slice_scatter2d_intent, slice_scatter2d_reference)

_canonical_index_add2d_intent ==
    OneOp([base |-> MN, index |-> <<"L">>, src |-> <<"L", "N">>, out |-> MN], "index_add", "out", <<"base", "index", "src">>,
          [axis |-> 0, alpha |-> 1])
index_add2d_reference(s) ==
    LET index == DrawIn("int", <<s.L>>, 3, 0, s.M - 1)
        src == Draw(<<s.L, s.N>>, 2)
        added(o) == LET x(l) == At(src, <<l, o[2]>>) IN FloatSum({l \in Extent(s.L) : index.at[l] = o[1]}, x)
        at(o) == Plus(At(Drawn(s), o), added(o)) IN
    Named({"base", "inp"}, Drawn(s)) @@ [index |-> index, src |-> src] @@ Output(Filled("float", Matrix(s), at))
index_add2d == Verdicts([M : 1 .. 3, N : 1 .. 2, L : 1 .. 3], _canonical_index_add2d_intent, index_add2d_reference)

_canonical_index_put2d_intent ==
    OneOp(Shaped({"base", "out"}, MN) @@ Shaped({"row_idx", "col_idx", "values"}, <<"L">>), "index_put", "out",
          <<"base", "row_idx", "col_idx", "values">>, [accumulate |-> FALSE])
_norm_index_put2d(s) ==
    [M |-> s.M, N |-> s.N, L |-> Min({AtLeast(1, s.L), s.M * s.N}), ACCUMULATE |-> 0]
\* Distinct places.
index_put2d_reference(s) ==
    LET values == Draw(<<s.L>>, 2)
        place(r) == WithRank(s.M * s.N, 3, r)
        row(o) == place(o[1]) \div s.N
        col(o) == place(o[1]) % s.N
        writes(o) == {r \in Extent(s.L) : place(r) = o[1] * s.N + o[2]}
        put(o) == writes(o) # {}
        value(o) == values.at[CHOOSE r \in writes(o) : TRUE] IN
    Named({"base", "inp"}, Drawn(s)) @@ TakenBy(<<s.L>>, row, col) @@ [values |-> values] @@ Based(s, put, value)
index_put2d ==
    Verdicts({_norm_index_put2d(s) : s \in [M : 1 .. 3, N : 1 .. 2, L : {3}]}, _canonical_index_put2d_intent,
             index_put2d_reference)

\* The elements under the mask before place l.
Before(mask, l) == Cardinality({m \in Extent(l) : mask.at[m] = 1})
_canonical_masked_select2d_intent ==
    OneOp(Shaped({"inp", "mask"}, MN) @@ [out |-> <<"L">>], "masked_select", "out", <<"inp", "mask">>, <<>>)
_norm_masked_select2d(s) == [s EXCEPT !.L = Min({AtLeast(1, @), s.M * s.N})]
masked_select2d_reference(s) ==
    LET chosen(o) == Truth(RankOf(s.M * s.N, 2, o[1] * s.N + o[2]) < s.L)
        mask == Filled("bool", Matrix(s), chosen)
        out(o) == Drawn(s).at[CHOOSE l \in Extent(s.M * s.N) : mask.at[l] = 1 /\ Before(mask, l) = o[1]] IN
    Input(Drawn(s)) @@ [mask |-> mask] @@ Output(Filled("float", <<s.L>>, out))
masked_select2d ==
    Verdicts({_norm_masked_select2d(s) : s \in [M : 1 .. 2, N : 1 .. 3, L : {3}]}, _canonical_masked_select2d_intent,
             masked_select2d_reference)

_canonical_masked_scatter2d_intent ==
    OneOp(Shaped({"inp", "mask", "out"}, MN) @@ [source |-> <<"L">>], "masked_scatter", "out", <<"inp", "mask", "source">>, <<>>)
_norm_masked_scatter2d(s) == s @@ [L |-> s.M * s.N]
masked_scatter2d_reference(s) ==
    LET mask == DrawIn("bool", Matrix(s), 3, 0, 1)
        source == Draw(<<s.L>>, 2)
        masked(o) == At(mask, o) = 1
        value(o) == source.at[Before(mask, o[1] * s.N + o[2])] IN
    Input(Drawn(s)) @@ [mask |-> mask, source |-> source] @@ Based(s, masked, value)
masked_scatter2d ==
    Verdicts({_norm_masked_scatter2d(s) : s \in MatrixCases}, _canonical_masked_scatter2d_intent, masked_scatter2d_reference)

(***************************************************************************)
(* Losses and gates.                                                        *)
(***************************************************************************)
_canonical_mse_loss2d_intent ==
    OneOp(Shaped({"inp", "target"}, MN) @@ [out |-> <<>>], "mse_loss", "out", <<"inp", "target">>, [reduction |-> 1])
mse_loss2d_reference(s) ==
    LET target == Draw(Matrix(s), 2)
        square(l) == LET d == Minus(Drawn(s).at[l], target.at[l]) IN Times(d, d) IN
    Input(Drawn(s)) @@ [target |-> target] @@ Output(Number(Over(FloatSum(Extent(s.M * s.N), square), s.M * s.N)))
mse_loss2d == Verdicts(MatrixCases, _canonical_mse_loss2d_intent, mse_loss2d_reference)

NllIntent(op, self, target) ==
    OneOp([self |-> self, target |-> target, weight |-> <<"C">>, output |-> <<>>], op, "output", <<"self", "target", "weight">>,
          [reduction |-> 1, ignore_index |-> -100])
\* Minus the weighted mean of the targets' entries; the targets lie at the places after the first two axes.
NllReference(shape, places) ==
    LET x == Draw(shape, 1)
        weight == Positive(Draw(<<shape[2]>>, 2))
        target == DrawIn("int", places, 3, 0, shape[2] - 1)
        w(i) == weight.at[At(target, i)]
        loss(i) == Times(w(i), At(x, <<i[1], At(target, i)>> \o Tail(i)))
        all == Indices(places) IN
    [self |-> x, target |-> target, weight |-> weight, total_weight |-> Number(FloatSum(all, w))]
    @@ Output(Number(Residue(-Over(FloatSum(all, loss), FloatSum(all, w)))))
_canonical_nll_loss_forward_intent == NllIntent("nll_loss_forward", <<"N", "C">>, <<"N">>)
_norm_nll_loss_forward(s) == [N |-> AtLeast(1, s.N), C |-> AtLeast(2, s.C), reduction |-> 1]
nll_loss_forward_reference(s) == NllReference(<<s.N, s.C>>, <<s.N>>)
nll_loss_forward ==
    Verdicts({_norm_nll_loss_forward(s) : s \in [N : 1 .. 3, C : 1 .. 3]}, _canonical_nll_loss_forward_intent,
             nll_loss_forward_reference)
_canonical_nll_loss2d_forward_intent == NllIntent("nll_loss2d_forward", <<"N", "C", "H", "W">>, <<"N", "H", "W">>)
_norm_nll_loss2d_forward(s) == [N |-> s.N, C |-> AtLeast(2, s.C), H |-> s.H, W |-> s.W, reduction |-> 1]
nll_loss2d_forward_reference(s) == NllReference(<<s.N, s.C, s.H, s.W>>, <<s.N, s.H, s.W>>)
nll_loss2d_forward ==
    Verdicts({_norm_nll_loss2d_forward(s) : s \in [N : 1 .. 2, C : 1 .. 3, H : 1 .. 2, W : 1 .. 2]},
             _canonical_nll_loss2d_forward_intent, nll_loss2d_forward_reference)

_canonical_polar2d_intent ==
    OneOp(Shaped({"abs", "angle"}, MN) @@ [out |-> <<"M", "N", "2">>], "polar", "out", <<"abs", "angle">>, <<>>)
_norm_polar2d(s) == [M |-> AtLeast(1, s.M), N |-> AtLeast(1, s.N)]
polar2d_reference(s) ==
    LET abs == Positive(Drawn(s))
        angle == Draw(Matrix(s), 2)
        part(o) == Times(At(abs, <<o[1], o[2]>>), Function1(IF o[3] = 0 THEN "cos" ELSE "sin", At(angle, <<o[1], o[2]>>))) IN
    [abs |-> abs, angle |-> angle] @@ Output(Filled("float", <<s.M, s.N, 2>>, part))
polar2d == Verdicts({_norm_polar2d(s) : s \in MatrixCases}, _canonical_polar2d_intent, polar2d_reference)

_canonical_glu2d_intent == OneOp([x |-> MN, out |-> <<"M", "N_HALF">>], "glu", "out", <<"x">>, [axis |-> 1])
_norm_glu2d(s) == LET n == AtLeast(2, s.N) + (AtLeast(2, s.N) % 2) IN [M |-> AtLeast(1, s.M), N |-> n, N_HALF |-> n \div 2]
glu2d_reference(s) ==
    LET gated(o) == LET x == At(Drawn(s), o)
                        gate == At(Drawn(s), <<o[1], o[2] + s.N_HALF>>) IN Over(x, Plus(1, Exp(Residue(-gate)))) IN
    Named({"x", "inp"}, Drawn(s)) @@ Output(Filled("float", <<s.M, s.N_HALF>>, gated))
glu2d == Verdicts({_norm_glu2d(s) : s \in [M : 1 .. 3, N : 1 .. 5]}, _canonical_glu2d_intent, glu2d_reference)

\* Groups of GROUP_SIZE elements scaled to the range of fp8; 448 stands at the end of the numbers here.
Fp8Max == 48
Grouped == <<"MG", "GROUP_SIZE">>
_canonical_per_token_group_quant_fp8_2d_intent ==
    IntentFunction(Shaped({"y", "y_q"}, MN) @@ Shaped({"eps", "fp8_min", "fp8_max"}, <<>>) @@ [y_s |-> <<"M", "G">>]
                   @@ Shaped({"y_grouped", "y_abs", "y_s_broadcast", "y_scaled", "y_clamped_min", "y_clamped"}, Grouped)
                   @@ Shaped({"absmax", "absmax_clamped", "y_s_2d"}, <<"MG", "1">>),
                   <<OpWith("reshape", "y_grouped", <<"y">>, [shape |-> Grouped]), OpOf("abs", "y_abs", <<"y_grouped">>),
                     OpWith("reduce_max", "absmax", <<"y_abs">>, [dims |-> <<1>>, keepdims |-> TRUE]),
                     OpOf("max", "absmax_clamped", <<"absmax", "eps">>), OpOf("div", "y_s_2d", <<"absmax_clamped", "fp8_max">>),
                     OpWith("reshape", "y_s", <<"y_s_2d">>, [shape |-> <<"M", "G">>]),
                     Spread2("y_s_broadcast", "y_s_2d", Grouped, <<0, 1>>), OpOf("div", "y_scaled", <<"y_grouped", "y_s_broadcast">>),
                     OpOf("max", "y_clamped_min", <<"y_scaled", "fp8_min">>), OpOf("min", "y_clamped", <<"y_clamped_min", "fp8_max">>),
                     OpWith("reshape", "y_q", <<"y_clamped">>, [shape |-> MN])>>, <<"y_q", "y_s">>)
_norm_per_token_group_quant_fp8_2d(s) ==
    LET size == s.GROUP_SIZE
        n == ((AtLeast(size, s.N) + size - 1) \div size) * size IN
    [M |-> s.M, N |-> n, GROUP_SIZE |-> size, group_size |-> size, G |-> n \div size, num_groups |-> n \div size,
     MG |-> s.M * (n \div size)]
per_token_group_quant_fp8_2d_reference(s) ==
    LET members(i, g) == {Magnitude(At(Drawn(s), <<i, g * s.GROUP_SIZE + k>>)) : k \in Extent(s.GROUP_SIZE)}
        scale(o) == Over(AtLeast(1, Max(members(o[1], o[2]))), Fp8Max)
        quantized(o) == Over(At(Drawn(s), o), scale(<<o[1], o[2] \div s.GROUP_SIZE>>)) IN
    Named({"inp", "y", "input"}, Drawn(s)) @@ Named({"out", "y_q", "output"}, Filled("float", Matrix(s), quantized))
    @@ Named({"scales", "y_s"}, Filled("float", <<s.M, s.G>>, scale))
    @@ [fp8_max |-> Number(Fp8Max), fp8_min |-> Number(-Fp8Max), eps |-> Number(1)]
per_token_group_quant_fp8_2d ==
    Verdicts({_norm_per_token_group_quant_fp8_2d(s) : s \in [M : 1 .. 2, N : 1 .. 4, GROUP_SIZE : {2}]},
             _canonical_per_token_group_quant_fp8_2d_intent, per_token_group_quant_fp8_2d_reference)

(***************************************************************************)
(* Windows: pooling, convolution and upsampling.  The extents of windows,      *)
(* strides and paddings are the spec's; only the others vary.               *)
(***************************************************************************)
Planes == <<"N", "C", "H", "W">>
OutPlanes == <<"N", "C", "OH", "OW">>
Two2 == [kernel_size |-> <<2, 2>>, stride |-> <<2, 2>>, padding |-> <<0, 0>>]
\* The four elements of the window of an output place.
Window2(x, o) == [k \in Indices(<<2, 2>>) |-> At(x, <<o[1], o[2], 2 * o[3] + k[1], 2 * o[4] + k[2]>>)]
Pooled2 == [N : 1 .. 2, C : 1 .. 2, H : 1 .. 5, W : {2, 3}]

_canonical_avg_pool2d_nchw_intent ==
    OneOp([inp |-> Planes, out |-> OutPlanes], "avg_pool2d", "out", <<"inp">>, Two2 @@ [count_include_pad |-> TRUE])
_norm_avg_pool2d_nchw(s) ==
    LET h == AtLeast(2, s.H)
        w == AtLeast(2, s.W) IN
    [N |-> s.N, C |-> s.C, K |-> 2, S |-> 2, P |-> 0, H |-> h, W |-> w, IH |-> h, IW |-> w, OH |-> h \div 2, OW |-> w \div 2]
avg_pool2d_nchw_reference(s) ==
    LET inp == Draw(<<s.N, s.C, s.H, s.W>>, 1)
        mean(o) == Average(Window2(inp, o)) IN
    Input(inp) @@ Output(Filled("float", <<s.N, s.C, s.OH, s.OW>>, mean))
avg_pool2d_nchw ==
    Verdicts({_norm_avg_pool2d_nchw(s) : s \in Pooled2}, _canonical_avg_pool2d_nchw_intent, avg_pool2d_nchw_reference)

_canonical_max_pool2d_with_indices_nchw_intent ==
    LET pool(out, select) ==
            OpWith("max_pool2d_with_indices", out, <<"input">>, Two2 @@ [dilation |-> <<1, 1>>, select |-> select]) IN
    IntentFunction([input |-> Planes, out |-> OutPlanes, indices |-> OutPlanes],
                   <<pool("out", "values"), pool("indices", "indices")>>, <<"out", "indices">>)
_norm_max_pool2d_with_indices_nchw(s) ==
    [N |-> s.N, C |-> s.C, H |-> AtLeast(2, s.H), W |-> AtLeast(2, s.W), KH |-> 2, KW |-> 2, SH |-> 2, SW |-> 2, PH |-> 0,
     PW |-> 0, DH |-> 1, DW |-> 1]
max_pool2d_with_indices_nchw_reference(s) ==
    LET x == DrawIn("float", <<s.N, s.C, s.H, s.W>>, 1, -1, 1)
        out == <<s.N, s.C, s.H \div 2, s.W \div 2>>
        best(o) == Greatest(Window2(x, o))
        \* the first place of the plane that holds it
        place(o) == Min({(2 * o[3] + k[1]) * s.W + 2 * o[4] + k[2] :
                            k \in {j \in Indices(<<2, 2>>) : Window2(x, o)[j] = best(o)}}) IN
    [input |-> x, indices |-> Filled("int", out, place)] @@ Output(Filled("float", out, best))
max_pool2d_with_indices_nchw ==
    Verdicts({_norm_max_pool2d_with_indices_nchw(s) : s \in Pooled2}, _canonical_max_pool2d_with_indices_nchw_intent,
             max_pool2d_with_indices_nchw_reference)

\* Strides and dilations of one and paddings of one, in so many dimensions: what the specs ask for.
Ones(rank) == [d \in 1 .. rank |-> "1"]
ConvIntent(op, input, weight, out, attrs) ==
    OneOp([input |-> input, weight |-> weight, bias |-> <<"C_OUT">>, out |-> out], op, "out", <<"input", "weight", "bias">>, attrs)
\* The bias plus, over the window's places inside the input, input times weight.
ConvReference(n, cin, cout, cpg, input, window) ==
    LET x == Draw(<<n, cin>> \o input, 1)
        w == Draw(<<cout, cpg>> \o window, 2)
        bias == Draw(<<cout>>, 3)
        spatial(o, k) == [d \in DOMAIN window |-> o[d + 2] + k[d + 1] - 1]
        inside(o, k) == \A d \in DOMAIN window : spatial(o, k)[d] \in Extent(input[d])
        channel(o, k) == (o[2] \div (cout \div (cin \div cpg))) * cpg + k[1]
        taps(o) == {k \in Indices(<<cpg>> \o window) : inside(o, k)}
        value(o) ==
            LET term(k) == Times(At(x, <<o[1], channel(o, k)>> \o spatial(o, k)), At(w, <<o[2]>> \o k)) IN
            Plus(bias.at[o[2]], FloatSum(taps(o), term))
        places == [d \in DOMAIN window |-> input[d] + 2 - window[d] + 1] IN
    [input |-> x, weight |-> w, bias |-> bias] @@ Output(Filled("float", <<n, cout>> \o places, value))
Fits(window, extent) == AtLeast(AtLeast(1, window - 2), extent)

_canonical_conv1d_ncl_intent ==
    ConvIntent("conv1d", <<"N", "C_IN", "L">>, <<"C_OUT", "C_PER_G", "K">>, <<"N", "C_OUT", "OL">>,
               [stride |-> Ones(1), padding |-> Ones(1), dilation |-> Ones(1), groups |-> 1])
_norm_conv1d_ncl(s) ==
    LET l == Fits(3, s.L) IN
    s @@ [K |-> 3, STRIDE |-> 1, PADDING |-> 1, DILATION |-> 1, GROUPS |-> 1, C_PER_G |-> s.C_IN, OL |-> l + 2 - 2]
conv1d_ncl_reference(s) == ConvReference(s.N, s.C_IN, s.C_OUT, s.C_IN, <<s.L>>, <<s.K>>)
conv1d_ncl ==
    Verdicts({_norm_conv1d_ncl(s) : s \in [N : 1 .. 2, C_IN : 1 .. 2, C_OUT : 1 .. 3, L : 1 .. 4]}, _canonical_conv1d_ncl_intent,
             conv1d_ncl_reference)

_canonical_conv2d_nchw_intent ==
    ConvIntent("conv2d", <<"N", "C_IN", "H", "W">>, <<"C_OUT", "C_IN", "KH", "KW">>, <<"N", "C_OUT", "OH", "OW">>,
               [stride |-> <<"SH", "SW">>, padding |-> <<"PH", "PW">>, dilation |-> <<"DH", "DW">>, groups |-> 1])
Window3 == [KH |-> 3, KW |-> 3, SH |-> 1, SW |-> 1, PH |-> 1, PW |-> 1, DH |-> 1, DW |-> 1]
_norm_conv2d_nchw(s) == [H |-> Fits(3, s.H), W |-> Fits(3, s.W), GROUPS |-> 1] @@ Window3 @@ s
conv2d_nchw_reference(s) == ConvReference(s.N, s.C_IN, s.C_OUT, s.C_IN, <<s.H, s.W>>, <<s.KH, s.KW>>)
conv2d_nchw ==
    Verdicts({_norm_conv2d_nchw(s) : s \in [N : {2}, C_IN : 1 .. 2, C_OUT : 1 .. 2, H : {1, 3}, W : 1 .. 2]},
             _canonical_conv2d_nchw_intent, conv2d_nchw_reference)

_canonical_conv3d_ncdhw_intent ==
    ConvIntent("conv3d", <<"N", "C_IN", "D", "H", "W">>, <<"C_OUT", "C_PER_G", "KD", "KH", "KW">>,
               <<"N", "C_OUT", "OD", "OH", "OW">>, [stride |-> Ones(3), padding |-> Ones(3), dilation |-> Ones(3), groups |-> 1])
_norm_conv3d_ncdhw(s) ==
    [D |-> Fits(3, s.D), H |-> Fits(3, s.H), W |-> Fits(3, s.W), KD |-> 3, SD |-> 1, PD |-> 1, DD |-> 1, GROUPS |-> 1]
    @@ Window3 @@ s
conv3d_ncdhw_reference(s) == ConvReference(s.N, s.C_IN, s.C_OUT, s.C_IN, <<s.D, s.H, s.W>>, <<s.KD, s.KH, s.KW>>)
conv3d_ncdhw ==
    Verdicts({_norm_conv3d_ncdhw(s) : s \in [N : {1}, C_IN : 1 .. 2, C_OUT : {2}, D : 1 .. 2, H : {1}, W : 1 .. 2]},
             _canonical_conv3d_ncdhw_intent, conv3d_ncdhw_reference)

_canonical_conv_depthwise2d_nchw_intent ==
    ConvIntent("conv_depthwise2d", <<"N", "C_IN", "H", "W">>, <<"C_OUT", "1", "KH", "KW">>, <<"N", "C_OUT", "OH", "OW">>,
               [stride |-> Ones(2), padding |-> Ones(2), dilation |-> Ones(2)])
_norm_conv_depthwise2d_nchw(s) == [H |-> Fits(3, s.H), W |-> Fits(3, s.W), MULT |-> 1] @@ Window3 @@ s
conv_depthwise2d_nchw_reference(s) == ConvReference(s.N, s.C_IN, s.C_IN * s.MULT, 1, <<s.H, s.W>>, <<s.KH, s.KW>>)
conv_depthwise2d_nchw ==
    Verdicts({_norm_conv_depthwise2d_nchw(s) : s \in [N : {2}, C_IN : 1 .. 3, H : {1, 3}, W : 1 .. 2]},
             _canonical_conv_depthwise2d_nchw_intent, conv_depthwise2d_nchw_reference)

\* An output place takes the element at the same fraction of the input; the output's extents are given.
Upsampled(x, out) ==
    LET rank == Len(out)
        at(o) == At(x, [d \in 1 .. rank |-> IF d < 3 THEN o[d] ELSE (o[d] * x.shape[d]) \div out[d]]) IN
    Named({"input", "inp", "x"}, x) @@ Output(Filled("float", out, at))
_canonical_upsample_nearest1d_ncl_intent ==
    OneOp([input |-> <<"N", "C", "IL">>, out |-> <<"N", "C", "OL">>], "upsample_nearest1d", "out", <<"input">>, <<>>)
_norm_upsample_nearest1d_ncl(s) == [N |-> s.N, C |-> s.C, IL |-> AtLeast(1, s.IL), OL |-> AtLeast(1, s.OL)]
upsample_nearest1d_ncl_reference(s) == Upsampled(Draw(<<s.N, s.C, s.IL>>, 1), <<s.N, s.C, s.OL>>)
upsample_nearest1d_ncl ==
    Verdicts({_norm_upsample_nearest1d_ncl(s) : s \in [N : 1 .. 2, C : 1 .. 2, IL : 1 .. 5, OL : {4}]},
             _canonical_upsample_nearest1d_ncl_intent, upsample_nearest1d_ncl_reference)
_canonical_upsample_nearest2d_nchw_intent ==
    OneOp([input |-> <<"N", "C", "IH", "IW">>, out |-> OutPlanes], "upsample_nearest2d", "out", <<"input">>, <<>>)
_norm_upsample_nearest2d_nchw(s) ==
    [N |-> s.N, C |-> s.C, IH |-> AtLeast(1, s.IH), IW |-> AtLeast(1, s.IW), OH |-> AtLeast(1, s.OH), OW |-> AtLeast(1, s.OW)]
upsample_nearest2d_nchw_reference(s) == Upsampled(Draw(<<s.N, s.C, s.IH, s.IW>>, 1), <<s.N, s.C, s.OH, s.OW>>)
upsample_nearest2d_nchw ==
    Verdicts({_norm_upsample_nearest2d_nchw(s) : s \in [N : 1 .. 2, C : 1 .. 2, IH : 1 .. 3, IW : 1 .. 5, OH : {4}, OW : {4}]},
             _canonical_upsample_nearest2d_nchw_intent, upsample_nearest2d_nchw_reference)

(***************************************************************************)
(* Attention without a mask, in f16 on the device.                           *)
(***************************************************************************)
AttentionIntent ==
    OneOp([query |-> <<"B", "H", "Q", "D">>, out |-> <<"B", "H", "Q", "D">>] @@ Shaped({"key", "value"}, <<"B", "H", "K", "D">>),
          "scaled_dot_product_attention", "out", <<"query", "key", "value">>, [is_causal |-> FALSE])
_canonical_scaled_dot_product_attention_bhsd_intent == AttentionIntent
\* The head's width is the supported one nearest to the request.
_norm_scaled_dot_product_attention_bhsd(s) ==
    LET away(d) == Magnitude(d - s.D)
        supported == {16, 32, 64, 128, 256}
        d == CHOOSE x \in supported : \A y \in supported \ {x} : away(x) < away(y) \/ (away(x) = away(y) /\ x < y) IN
    [B |-> AtLeast(1, s.B), H |-> AtLeast(1, s.H), Q |-> AtLeast(1, s.Q), K |-> AtLeast(1, s.K), D |-> d, IS_CAUSAL |-> 0]
scaled_dot_product_attention_bhsd_reference(s) ==
    LET query == Draw(<<s.B, s.H, s.Q, s.D>>, 1)
        key == Draw(<<s.B, s.H, s.K, s.D>>, 2)
        value == Draw(<<s.B, s.H, s.K, s.D>>, 3)
        scores(o) ==
            [j \in Extent(s.K) |->
                LET product(d) == Times(At(query, <<o[1], o[2], o[3], d>>), At(key, <<o[1], o[2], j, d>>)) IN
                Times(FloatSum(Extent(s.D), product), Over(1, Sqrt(s.D)))]
        attended(o) ==
            LET line == scores(o)
                part(j) == Times(SoftmaxAt(j, line), At(value, <<o[1], o[2], j, o[4]>>)) IN
            FloatSum(Extent(s.K), part) IN
    [query |-> query, key |-> key, value |-> value]
    @@ Output(Filled("float", <<s.B, s.H, s.Q, s.D>>, attended))
AttentionCases == {_norm_scaled_dot_product_attention_bhsd(s) : s \in [B : {1}, H : {2}, Q : 1 .. 2, K : {2}, D : {3}]}
scaled_dot_product_attention_bhsd ==
    Verdicts(AttentionCases, _canonical_scaled_dot_product_attention_bhsd_intent, scaled_dot_product_attention_bhsd_reference)
_canonical_flash_attn_varlen_func_bhsd_intent == AttentionIntent
flash_attn_varlen_func_bhsd_reference(s) == scaled_dot_product_attention_bhsd_reference(s)
flash_attn_varlen_func_bhsd ==
    Verdicts(AttentionCases, _canonical_flash_attn_varlen_func_bhsd_intent, flash_attn_varlen_func_bhsd_reference)

\* The outcomes, spec by spec.
TensorVerdicts ==
    [cat2d |-> cat2d, hstack2d |-> hstack2d, vstack2d |-> vstack2d, stack2d |-> stack2d, pad2d |-> pad2d,
     constant_pad_nd2d |-> constant_pad_nd2d, gather2d |-> gather2d, repeat2d |-> repeat2d, tile2d |-> tile2d,
     repeat_interleave_self_int1d |-> repeat_interleave_self_int1d,
     repeat_interleave_self_tensor1d |-> repeat_interleave_self_tensor1d,
     repeat_interleave_tensor1d |-> repeat_interleave_tensor1d, index_select2d |-> index_select2d, flip2d |-> flip2d,
     embedding2d |-> embedding2d, diag2d |-> diag2d, eye2d |-> eye2d, eye_m2d |-> eye_m2d, one_hot2d |-> one_hot2d,
     isin1d |-> isin1d, linspace1d |-> linspace1d, logspace1d |-> logspace1d, trace2d |-> trace2d, triu2d |-> triu2d,
     diag_embed2d |-> diag_embed2d, scatter2d |-> scatter2d, select_scatter2d |-> select_scatter2d,
     slice_scatter2d |-> slice_scatter2d, index_add2d |-> index_add2d, index_put2d |-> index_put2d,
     masked_select2d |-> masked_select2d, masked_scatter2d |-> masked_scatter2d, mse_loss2d |-> mse_loss2d,
     nll_loss_forward |-> nll_loss_forward, nll_loss2d_forward |-> nll_loss2d_forward, polar2d |-> polar2d,
     glu2d |-> glu2d, per_token_group_quant_fp8_2d |-> per_token_group_quant_fp8_2d,
     avg_pool2d_nchw |-> avg_pool2d_nchw, max_pool2d_with_indices_nchw |-> max_pool2d_with_indices_nchw,
     conv1d_ncl |-> conv1d_ncl, conv2d_nchw |-> conv2d_nchw, conv3d_ncdhw |-> conv3d_ncdhw,
     conv_depthwise2d_nchw |-> conv_depthwise2d_nchw, upsample_nearest1d_ncl |-> upsample_nearest1d_ncl,
     upsample_nearest2d_nchw |-> upsample_nearest2d_nchw,
     scaled_dot_product_attention_bhsd |-> scaled_dot_product_attention_bhsd,
     flash_attn_varlen_func_bhsd |-> flash_attn_varlen_func_bhsd]
================================================================================
