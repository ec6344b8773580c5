------------------------------ MODULE FlagGemsRows ------------------------------
(***************************************************************************)
(* The FlagGems kernels that reduce, normalise, accumulate, sort or multiply   *)
(* rows: for each, as in FlagGemsPointwise, the deterministic intent, the     *)
(* arrays its reference returns and the outcome of comparing them for the     *)
(* shapes that the entry's normaliser allows.  What torch and FlagGems        *)
(* compute is external and written from the elements' indices, apart from the *)
(* interpreter.                                                            *)
(***************************************************************************)
EXTENDS DiffRunner

LOCAL INSTANCE TLC
LOCAL INSTANCE SequencesExt
LOCAL INSTANCE FiniteSetsExt

Input(t) == Named({"inp", "input"}, t)
Output(t) == Named({"out", "output"}, t)

(***************************************************************************)
(* Rows reduced.                                                           *)
(***************************************************************************)
Rows2(op, out, inp, attrs) == OneOp([n \in {inp} |-> MN] @@ [n \in {out} |-> <<"M">>], op, out, <<inp>>, attrs)
Along1 == [dims |-> <<1>>, keepdims |-> FALSE]

_canonical_row_all_intent ==
    IntentFunction([inp |-> MN, out |-> <<"M", "1">>],
                   <<Const("zero_const", 0), OpOf("eq", "is_zero", <<"inp", "zero_const">>),
                     OpWith("reduce_any", "any_zero", <<"is_zero">>, [dims |-> <<1>>, keepdims |-> TRUE]),
                     OpOf("not", "out", <<"any_zero">>)>>, <<"out">>)
row_all_reference(s) ==
    LET inp == DrawIn("bool", Matrix(s), 1, 0, 1)
        all(o) == Truth(\A j \in Extent(s.N) : At(inp, <<o[1], j>>) = 1) IN
    Input(inp) @@ Output(Filled("bool", <<s.M, 1>>, all))
row_all == Verdicts(MatrixCases, _canonical_row_all_intent, row_all_reference)

_canonical_any_kernel_dim_intent ==
    IntentFunction([inp |-> MN, out |-> <<"M">>],
                   <<Const("zero", 0), OpOf("ne", "neq_zero", <<"inp", "zero">>),
                     OpWith("reduce_any", "out", <<"neq_zero">>, [dims |-> <<1>>])>>, <<"out">>)
any_reference(s) ==
    LET one(o) == Truth(o[1] % 2 = 1 /\ o[2] = (3 * o[1]) % s.N)
        any(o) == Truth(o[1] % 2 = 1) IN
    Input(Filled("float", Matrix(s), one)) @@ Output(Filled("bool", <<s.M>>, any))
any_kernel_dim == Verdicts(MatrixCases, _canonical_any_kernel_dim_intent, any_reference)

_canonical_row_max_intent == Rows2("reduce_max", "out", "inp", Along1)
row_max_reference(s) ==
    LET index(line) == FirstOf(line, Greatest(line)) IN
    Input(Drawn(s)) @@ Output(OfRows("float", Drawn(s), Greatest)) @@ [out_index |-> OfRows("int", Drawn(s), index)]
row_max == Verdicts(MatrixCases, _canonical_row_max_intent, row_max_reference)

_canonical_min2d_intent ==
    OneOp([inp |-> MN, out_value |-> <<>>], "reduce_min", "out_value", <<"inp">>, [dims |-> <<0, 1>>, keepdims |-> FALSE])
min2d_reference(s) ==
    Input(Drawn(s)) @@ Named({"out", "out_value", "output"}, Number(Min({Drawn(s).at[l] : l \in Extent(s.M * s.N)})))
min2d == Verdicts(MatrixCases, _canonical_min2d_intent, min2d_reference)

_canonical_min_dim2d_intent ==
    IntentFunction([inp |-> MN, out_value |-> <<"M">>, indices |-> <<"M">>],
                   <<OpWith("reduce_min", "out_value", <<"inp">>, Along1), OpWith("argmin", "indices", <<"inp">>, [axis |-> 1])>>,
                   <<"out_value", "indices">>)
min_dim2d_reference(s) ==
    LET inp == DrawIn("float", Matrix(s), 1, -1, 1)
        index(line) == FirstOf(line, Least(line)) IN
    Input(inp) @@ Named({"out", "out_value", "output"}, OfRows("float", inp, Least)) @@ [indices |-> OfRows("int", inp, index)]
min_dim2d == Verdicts(MatrixCases, _canonical_min_dim2d_intent, min_dim2d_reference)

ArgReference(s, best(_)) ==
    LET inp == DrawIn("float", Matrix(s), 1, -1, 1)
        index(line) == FirstOf(line, best(line)) IN
    Input(inp) @@ Named({"out", "output", "out_index", "indices"}, OfRows("int", inp, index))
_canonical_argmax2d_intent == Rows2("argmax", "out_index", "inp", [axis |-> 1])
argmax2d_reference(s) == ArgReference(s, Greatest)
argmax2d == Verdicts(MatrixCases, _canonical_argmax2d_intent, argmax2d_reference)

_canonical_argmin2d_intent == Rows2("argmin", "out_index", "inp", [axis |-> 1])
argmin2d_reference(s) == ArgReference(s, Least)
argmin2d == Verdicts(MatrixCases, _canonical_argmin2d_intent, argmin2d_reference)

\* Rows of one element are left out: their deviation is 0 / 0.
Deviating == [dims |-> <<1>>, keepdims |-> FALSE, correction |-> 1]
_canonical_std2d_intent == Rows2("std", "Out", "X", Deviating)
std2d_reference(s) ==
    LET std(line) == Sqrt(Variance(line, 1)) IN Input(Drawn(s)) @@ Output(OfRows("float", Drawn(s), std))
std2d == Verdicts([M : 1 .. 3, N : 2 .. 4], _canonical_std2d_intent, std2d_reference)

_canonical_var_mean2d_intent ==
    IntentFunction([inp |-> MN, std_out |-> <<"M">>, out |-> <<"M">>],
                   <<OpWith("std", "std_out", <<"inp">>, Deviating), OpOf("mul", "out", <<"std_out", "std_out">>)>>, <<"out">>)
_norm_var_mean2d(s) == [M |-> AtLeast(1, s.M), N |-> AtLeast(2, s.N), CORRECTION |-> Min({1, AtLeast(2, s.N) - 1})]
\* Rows whose variance has an exact root: their elements are evenly spaced.
var_mean2d_reference(s) ==
    LET spaced(o) == Residue((3 * o[1] + 2) + (7 * o[1] + 5) * o[2])
        inp == Filled("float", Matrix(s), spaced)
        var(line) == Variance(line, s.CORRECTION) IN
    Named({"inp", "X", "input"}, inp) @@ Named({"out", "var", "out_var", "output"}, OfRows("float", inp, var))
    @@ Named({"mean", "out_mean"}, OfRows("float", inp, Average))
var_mean2d == Verdicts({_norm_var_mean2d(s) : s \in MatrixCases}, _canonical_var_mean2d_intent, var_mean2d_reference)

_canonical_vector_norm2d_intent ==
    IntentFunction(Shaped({"inp", "sq"}, MN) @@ Shaped({"sum_sq", "out"}, <<"M">>),
                   <<OpOf("mul", "sq", <<"inp", "inp">>), OpWith("reduce_sum", "sum_sq", <<"sq">>, Along1),
                     OpOf("sqrt", "out", <<"sum_sq">>)>>, <<"out">>)
vector_norm2d_reference(s) ==
    LET norm(line) == Sqrt(Squares(line)) IN
    Named({"inp", "X", "input"}, Drawn(s)) @@ Named({"out", "Out", "output"}, OfRows("float", Drawn(s), norm))
vector_norm2d == Verdicts(MatrixCases, _canonical_vector_norm2d_intent, vector_norm2d_reference)

_canonical_count_nonzero2d_intent ==
    IntentFunction([x |-> MN, out |-> <<>>],
                   <<Const("zero_const", 0), OpOf("ne", "is_nonzero_bool", <<"x", "zero_const">>),
                     OpWith("cast", "is_nonzero_i64", <<"is_nonzero_bool">>, [to |-> "i64"]),
                     OpWith("reduce_sum", "out", <<"is_nonzero_i64">>, [dims |-> <<0, 1>>])>>, <<"out">>)
count_nonzero2d_reference(s) ==
    LET inp == DrawIn("float", Matrix(s), 1, -1, 1) IN
    Input(inp) @@ [x |-> inp] @@ Output(ScalarOf("int", Cardinality({l \in DOMAIN inp.at : inp.at[l] # 0})))
count_nonzero2d == Verdicts(MatrixCases, _canonical_count_nonzero2d_intent, count_nonzero2d_reference)

_canonical_prod2d_intent == OneOp([inp |-> MN, out |-> <<>>], "reduce_prod", "out", <<"inp">>, [dims |-> <<0, 1>>])
prod2d_reference(s) ==
    Input(Drawn(s)) @@ Named({"out", "out_value", "output"}, Number(Product(Drawn(s).at)))
prod2d == Verdicts(MatrixCases, _canonical_prod2d_intent, prod2d_reference)

_canonical_prod_dim2d_intent == Rows2("reduce_prod", "out", "inp", [dims |-> <<1>>])
prod_dim2d_reference(s) ==
    Input(Drawn(s)) @@ Named({"out", "out_value", "output"}, OfRows("float", Drawn(s), Product))
prod_dim2d == Verdicts(MatrixCases, _canonical_prod_dim2d_intent, prod_dim2d_reference)

(***************************************************************************)
(* Rows normalised or accumulated.                                          *)
(***************************************************************************)
\* Every element from its place and its row.
OnPlaces(t, value(_, _)) == LET at(o) == value(o[2], Line(t, o[1])) IN Filled("float", t.shape, at)
Partial(line, j, op(_, _)) == FoldSet(LAMBDA i, x : op(x, line[i]), line[0], 1 .. j)

_canonical_cumsum2d_intent ==
    IntentFunction(Shaped({"inp", "out", "offset", "inp_vals", "result"}, MN),
                   <<Numbering("offset", 1, MN), OpOf("identity", "inp_vals", <<"inp">>),
                     OpWith("cumsum", "result", <<"inp_vals">>, [axis |-> 1]), OpOf("identity", "out", <<"result">>)>>, <<"out">>)
cumsum2d_reference(s) ==
    LET sum(j, line) == Partial(line, j, Plus) IN Input(Drawn(s)) @@ Output(OnPlaces(Drawn(s), sum))
cumsum2d == Verdicts(MatrixCases, _canonical_cumsum2d_intent, cumsum2d_reference)

_canonical_normed_cumsum2d_intent ==
    IntentFunction(Shaped({"inp", "out"}, MN) @@ [EPS |-> <<>>],
                   <<OpWith("cumsum", "y_cumsum", <<"inp">>, [axis |-> 1]),
                     OpWith("reduce_sum", "y_denom", <<"inp">>, [dims |-> <<1>>, keepdims |-> TRUE]),
                     OpOf("add", "y_sum_eps", <<"y_denom", "EPS">>), Spread2("y_sum_eps_bc", "y_sum_eps", MN, <<0, 1>>),
                     OpOf("div", "out", <<"y_cumsum", "y_sum_eps_bc">>)>>, <<"out">>)
normed_cumsum2d_reference(s) ==
    LET inp == DrawIn("float", Matrix(s), 1, 0, 7)
        sum(j, line) == Partial(line, j, Plus)
        share(j, line) == Over(sum(j, line), Plus(sum(s.N - 1, line), s.EPS)) IN
    Input(inp) @@ [cumsum |-> OnPlaces(inp, sum)] @@ Output(OnPlaces(inp, share)) @@ [eps |-> Number(s.EPS)]
normed_cumsum2d ==
    Verdicts([M : 1 .. 3, N : 1 .. 3, EPS : {1}], _canonical_normed_cumsum2d_intent, normed_cumsum2d_reference)

\* Vectors: the greatest or least element so far.
Vectors == [N : 1 .. 4]
RunningReference(s, op(_, _)) ==
    LET x == Draw(<<s.N>>, 1)
        best(o) == Partial(x.at, o[1], op) IN
    Named({"x", "inp"}, x) @@ Output(Filled("float", <<s.N>>, best))
Greater(x, y) == IF x > y THEN x ELSE y
Smaller(x, y) == IF x < y THEN x ELSE y
_canonical_cummax1d_intent == OneOp(Shaped({"x", "out"}, <<"N">>), "cummax", "out", <<"x">>, [axis |-> 0])
cummax1d_reference(s) == RunningReference(s, Greater)
cummax1d == Verdicts(Vectors, _canonical_cummax1d_intent, cummax1d_reference)
_canonical_cummin1d_intent == OneOp(Shaped({"x", "out"}, <<"N">>), "cummin", "out", <<"x">>, [axis |-> 0])
cummin1d_reference(s) == RunningReference(s, Smaller)
cummin1d == Verdicts(Vectors, _canonical_cummin1d_intent, cummin1d_reference)

\* exp and log are arbitrary functions here: the logarithm of the quotient is not a difference.
_canonical_log_softmax2d_intent ==
    IntentFunction(Shaped({"inp", "out"}, MN),
                   <<OpWith("softmax", "softmax_out", <<"inp">>, [axis |-> 1]), OpOf("log", "out", <<"softmax_out">>)>>, <<"out">>)
SoftmaxAt(j, line) ==
    LET e(k) == Exp(Minus(line[k], Greatest(line))) IN Over(e(j), FloatSum(DOMAIN line, e))
log_softmax2d_reference(s) ==
    LET logs(j, line) == LET x == SoftmaxAt(j, line) IN IF x = NaN THEN NaN ELSE Log(x) IN
    Input(Drawn(s)) @@ Output(OnPlaces(Drawn(s), logs))
log_softmax2d == Verdicts(MatrixCases, _canonical_log_softmax2d_intent, log_softmax2d_reference)

_canonical_rms_norm2d_intent ==
    IntentFunction(Shaped({"input", "x_sq", "inv_rms_bcast", "w_bcast", "x_norm", "out"}, MN) @@ [weight |-> <<"N">>]
                   @@ Shaped({"eps", "N_scalar"}, <<>>) @@ Shaped({"sum_sq", "mean_sq", "var_eps", "INV_RMS"}, <<"M">>),
                   <<OpOf("mul", "x_sq", <<"input", "input">>), OpWith("reduce_sum", "sum_sq", <<"x_sq">>, Along1),
                     OpOf("div", "mean_sq", <<"sum_sq", "N_scalar">>), OpOf("add", "var_eps", <<"mean_sq", "eps">>),
                     OpOf("rsqrt", "INV_RMS", <<"var_eps">>), Spread2("inv_rms_bcast", "INV_RMS", MN, <<0>>),
                     Spread2("w_bcast", "weight", MN, <<1>>), OpOf("mul", "x_norm", <<"input", "inv_rms_bcast">>),
                     OpOf("mul", "out", <<"x_norm", "w_bcast">>)>>, <<"out", "INV_RMS">>)
rms_norm_reference(s) ==
    LET w == Draw(<<s.N>>, 2)
        scale(line) == Over(1, Sqrt(Plus(Over(Squares(line), s.N), 1)))
        y(j, line) == Times(Times(line[j], w.at[j]), scale(line)) IN
    Named({"X", "input"}, Drawn(s)) @@ Named({"W", "weight"}, w) @@ Named({"Y", "out", "output"}, OnPlaces(Drawn(s), y))
    @@ Named({"InvRms", "INV_RMS"}, OfRows("float", Drawn(s), scale)) @@ [N_scalar |-> Number(s.N), eps |-> Number(1)]
rms_norm2d == Verdicts(MatrixCases, _canonical_rms_norm2d_intent, rms_norm_reference)

_canonical_weight_norm2d_intent ==
    IntentFunction(Shaped({"v", "vv", "scale_bc", "out"}, MN) @@ Shaped({"g", "norm_sq", "norm", "scale"}, <<"M">>),
                   <<OpOf("mul", "vv", <<"v", "v">>), OpWith("reduce_sum", "norm_sq", <<"vv">>, Along1),
                     OpOf("sqrt", "norm", <<"norm_sq">>), OpOf("div", "scale", <<"g", "norm">>),
                     Spread2("scale_bc", "scale", MN, <<0>>), OpOf("mul", "out", <<"v", "scale_bc">>)>>, <<"out">>)
_norm_weight_norm2d(s) == [M |-> AtLeast(1, s.M), N |-> AtLeast(1, s.N), DIM |-> 0]
weight_norm2d_reference(s) ==
    LET g == Positive(Draw(IF s.DIM = 0 THEN <<s.M>> ELSE <<s.N>>, 2))
        v == Positive(Drawn(s))
        norm(line) == Sqrt(Squares(line))
        scaled(o) == Over(Times(g.at[o[1 + s.DIM]], At(v, o)), norm(Line(v, o[1]))) IN
    [v |-> v, g |-> g, norm |-> OfRows("float", v, norm)] @@ Output(Filled("float", Matrix(s), scaled))
weight_norm2d ==
    Verdicts({_norm_weight_norm2d(s) : s \in MatrixCases}, _canonical_weight_norm2d_intent, weight_norm2d_reference)

NCHW == <<"N", "C", "HW">>
_canonical_batch_norm2d_intent ==
    IntentFunction(Shaped({"input", "output_1"}, NCHW) @@ Shaped({"eps", "momentum", "n_elements", "n_minus_1"}, <<>>)
                   @@ Shaped({"weight", "bias", "running_mean", "running_var", "mean", "inv_std", "running_mean_out",
                              "running_var_out"}, <<"C">>),
                   <<Const("const_one", 1), OpWith("reduce_sum", "mean_sum", <<"input">>, [dims |-> <<0, 2>>]),
                     OpOf("div", "mean", <<"mean_sum", "n_elements">>), Spread2("mean_bcast", "mean", NCHW, <<1>>),
                     OpOf("sub", "centered", <<"input", "mean_bcast">>), OpOf("mul", "centered_sq", <<"centered", "centered">>),
                     OpWith("reduce_sum", "var_sum", <<"centered_sq">>, [dims |-> <<0, 2>>]),
                     OpOf("div", "var", <<"var_sum", "n_elements">>), OpOf("add", "var_eps", <<"var", "eps">>),
                     OpOf("rsqrt", "inv_std", <<"var_eps">>), Spread2("inv_std_bcast", "inv_std", NCHW, <<1>>),
                     OpOf("mul", "normalized", <<"centered", "inv_std_bcast">>), Spread2("weight_bcast", "weight", NCHW, <<1>>),
                     OpOf("mul", "scaled", <<"normalized", "weight_bcast">>), Spread2("bias_bcast", "bias", NCHW, <<1>>),
                     OpOf("add", "output_1", <<"scaled", "bias_bcast">>),
                     OpOf("sub", "one_minus_momentum", <<"const_one", "momentum">>),
                     OpOf("mul", "running_mean_keep", <<"one_minus_momentum", "running_mean">>),
                     OpOf("mul", "running_mean_delta", <<"momentum", "mean">>),
                     OpOf("add", "running_mean_out", <<"running_mean_keep", "running_mean_delta">>),
                     OpOf("div", "bessel", <<"n_elements", "n_minus_1">>), OpOf("mul", "unbiased_var", <<"var", "bessel">>),
                     OpOf("mul", "running_var_keep", <<"one_minus_momentum", "running_var">>),
                     OpOf("mul", "running_var_delta", <<"momentum", "unbiased_var">>),
                     OpOf("add", "running_var_out", <<"running_var_keep", "running_var_delta">>)>>,
                   <<"output_1", "mean", "inv_std", "running_mean_out", "running_var_out">>)
_norm_batch_norm_2d(s) == [s EXCEPT !.HW = IF s.N * s.HW < 2 THEN 2 ELSE @]
batch_norm_reference(s) ==
    LET x == Draw(<<s.N, s.C, s.HW>>, 1)
        count == s.N * s.HW
        channel(c) == [k \in Extent(count) |-> At(x, <<k \div s.HW, c, k % s.HW>>)]
        given(k) == Draw(<<s.C>>, k)
        inverse(c) == Over(1, Sqrt(Plus(Variance(channel(c), 0), 1)))
        y(o) == Plus(Times(Times(Minus(At(x, o), Average(channel(o[2]))), inverse(o[2])), given(2).at[o[2]]), given(3).at[o[2]])
        mean(o) == Average(channel(o[1]))
        inv(o) == inverse(o[1])
        kept(old, new) == Plus(old, Times(5, Minus(new, old)))
        runMean(o) == kept(given(4).at[o[1]], mean(o))
        runVar(o) == kept(given(5).at[o[1]], Variance(channel(o[1]), 1))
        vector(value(_)) == Filled("float", <<s.C>>, value) IN
    Named({"X", "input"}, x) @@ Named({"W", "weight"}, given(2)) @@ Named({"B", "bias"}, given(3))
    @@ Named({"RunningMean", "running_mean"}, given(4)) @@ Named({"RunningVar", "running_var"}, given(5))
    @@ Named({"Y", "output_1", "output"}, Filled("float", x.shape, y)) @@ Named({"Mean", "mean"}, vector(mean))
    @@ Named({"InvStd", "inv_std"}, vector(inv)) @@ Named({"RunningMeanOut", "running_mean_out"}, vector(runMean))
    @@ Named({"RunningVarOut", "running_var_out"}, vector(runVar))
    @@ [n_elements |-> Number(count), n_minus_1 |-> Number(AtLeast(1, count - 1)), eps |-> Number(1), momentum |-> Number(5)]
batch_norm2d ==
    Verdicts({_norm_batch_norm_2d(s) : s \in [N : 1 .. 2, C : 1 .. 2, HW : 1 .. 2]}, _canonical_batch_norm2d_intent,
             batch_norm_reference)

(***************************************************************************)
(* Rows sorted; the values found by counting the smaller ones.                *)
(***************************************************************************)
\* The element that j others come before.
Ranked(line, j, before(_, _)) ==
    LET ahead(k) == {i \in DOMAIN line : before(line[i], line[k]) \/ (line[i] = line[k] /\ i < k)} IN
    line[CHOOSE k \in DOMAIN line : Cardinality(ahead(k)) = j]
Below(x, y) == x < y
Above(x, y) == x > y
SortReference(s) ==
    LET inp == DrawIn("float", Matrix(s), 1, -2, 2)
        value(j, line) == Ranked(line, j, Below) IN
    Input(inp) @@ Named({"out", "out_values", "values", "output"}, OnPlaces(inp, value))
SortIntent(stable) ==
    OneOp(Shaped({"in_ptr", "out_ptr"}, MN), "sort", "out_ptr", <<"in_ptr">>, [axis |-> 1, descending |-> FALSE, stable |-> stable])

_canonical_sort2d_intent == SortIntent(FALSE)
sort2d_reference(s) == SortReference(s)
sort2d == Verdicts(MatrixCases, _canonical_sort2d_intent, sort2d_reference)
_canonical_sort_stable2d_intent == SortIntent(TRUE)
sort_stable2d_reference(s) == SortReference(s)
sort_stable2d == Verdicts(MatrixCases, _canonical_sort_stable2d_intent, sort_stable2d_reference)

_canonical_topk2d_intent ==
    IntentFunction(Shaped({"inp", "sorted_vals"}, MN) @@ Shaped({"row_idx", "col_idx", "out"}, <<"M", "K">>),
                   <<OpWith("sort", "sorted_vals", <<"inp">>, [axis |-> 1, descending |-> TRUE]),
                     Numbering("row_idx", 0, <<"M", "K">>), Numbering("col_idx", 1, <<"M", "K">>),
                     OpOf("gather", "out", <<"sorted_vals", "row_idx", "col_idx">>)>>, <<"out">>)
_norm_topk2d(s) ==
    [M |-> AtLeast(1, s.M), N |-> AtLeast(1, s.N), K |-> AtLeast(1, Min({s.K, AtLeast(1, s.N)})), AXIS |-> 1, LARGEST |-> 1,
     SORTED |-> 1]
topk2d_reference(s) ==
    LET top(o) == Ranked(Line(Drawn(s), o[1]), o[2], Above) IN
    Input(Drawn(s)) @@ Named({"out", "values", "output"}, Filled("float", <<s.M, s.K>>, top)) @@ [k |-> Number(s.K)]
topk2d == Verdicts({_norm_topk2d(s) : s \in [M : 1 .. 2, N : 1 .. 3, K : {2}]}, _canonical_topk2d_intent, topk2d_reference)

_canonical_quantile2d_intent ==
    OneOp([inp |-> MN, q |-> <<>>, out |-> <<"M">>], "quantile", "out", <<"inp", "q">>, [dim |-> 1, keepdim |-> FALSE])
\* The median, the only quantile of the table; q is one half.
_norm_quantile2d(s) == [M |-> AtLeast(1, s.M), N |-> AtLeast(2, s.N)]
quantile2d_reference(s) ==
    LET inp == DrawIn("float", Matrix(s), 1, -9, 9)
        median(line) == Over(Plus(Ranked(line, (s.N - 1) \div 2, Below), Ranked(line, s.N \div 2, Below)), 2) IN
    Input(inp) @@ [q |-> Number(Over(1, 2))] @@ Output(OfRows("float", inp, median))
quantile2d == Verdicts({_norm_quantile2d(s) : s \in MatrixCases}, _canonical_quantile2d_intent, quantile2d_reference)

_canonical_unique2d_intent == OneOp([inp |-> <<"N">>, out |-> <<"U">>], "unique", "out", <<"inp">>, [sorted |-> TRUE])
_norm_unique2d(s) == [N |-> AtLeast(1, s.N)]
\* FlagGems returns the values in ascending order whether or not that is asked for.
unique2d_reference(s) ==
    LET inp == DrawIn("int", <<s.N>>, 1, 0, AtLeast(2, s.N \div 4) - 1)
        found == {inp.at[l] : l \in DOMAIN inp.at}
        value(o) == CHOOSE x \in found : Cardinality({y \in found : y < x}) = o[1] IN
    Input(inp) @@ Output(Filled("int", <<Cardinality(found)>>, value))
unique2d == Verdicts({_norm_unique2d(s) : s \in Vectors}, _canonical_unique2d_intent, unique2d_reference)

_canonical_nonzero2d_intent == OneOp([inp |-> MN, out |-> <<"num_nonzeros", "2">>], "nonzero", "out", <<"inp">>, <<>>)
nonzero2d_reference(s) ==
    LET inp == DrawIn("float", Matrix(s), 1, -1, 1)
        mask(o) == Truth(At(inp, o) # 0)
        held == {l \in DOMAIN inp.at : inp.at[l] # 0}
        place(k) == CHOOSE l \in held : Cardinality({m \in held : m < l}) = k
        index(o) == IF o[2] = 0 THEN place(o[1]) \div s.N ELSE place(o[1]) % s.N IN
    Input(inp) @@ [mask |-> Filled("bool", Matrix(s), mask)] @@ Output(Filled("int", <<Cardinality(held), 2>>, index))
nonzero2d == Verdicts(MatrixCases, _canonical_nonzero2d_intent, nonzero2d_reference)

(***************************************************************************)
(* Products of matrices and vectors.                                        *)
(***************************************************************************)
Inner(n, x(_), y(_)) == LET term(k) == Times(x(k), y(k)) IN FloatSum(Extent(n), term)
ProductOf(a, b) ==
    LET at(o) == LET x(k) == At(a, <<o[1], k>>)
                     y(k) == At(b, <<k, o[2]>>) IN Inner(a.shape[2], x, y) IN
    Filled("float", <<a.shape[1], b.shape[2]>>, at)
PlainMatmul == [transpose_a |-> FALSE, transpose_b |-> FALSE]
MatmulCases == [M : 1 .. 2, K : 1 .. 3, N : 1 .. 2]

_canonical_mm2d_intent ==
    OneOp([A |-> <<"M", "K">>, B |-> <<"K", "N">>, C |-> MN], "matmul", "C", <<"A", "B">>, PlainMatmul)
mm2d_reference(s) ==
    LET a == Draw(<<s.M, s.K>>, 1)
        b == Draw(<<s.K, s.N>>, 2) IN
    Named({"A", "mat1"}, a) @@ Named({"B", "mat2"}, b) @@ Named({"C", "out", "output"}, ProductOf(a, b))
mm2d == Verdicts(MatmulCases, _canonical_mm2d_intent, mm2d_reference)

_canonical_addmm2d_intent ==
    IntentFunction(Shaped({"input", "mm_out", "scaled_mm", "scaled_bias", "add_out", "out"}, MN) @@ Shaped({"alpha", "beta"}, <<>>)
                   @@ [mat1 |-> <<"M", "K">>, mat2 |-> <<"K", "N">>],
                   <<OpWith("matmul", "mm_out", <<"mat1", "mat2">>, PlainMatmul), OpOf("mul", "scaled_mm", <<"mm_out", "alpha">>),
                     OpOf("mul", "scaled_bias", <<"input", "beta">>), OpOf("add", "add_out", <<"scaled_mm", "scaled_bias">>),
                     AsFloat("out", "add_out")>>, <<"out">>)
addmm2d_reference(s) ==
    LET inp == Draw(Matrix(s), 3)
        mat1 == Draw(<<s.M, s.K>>, 1)
        mat2 == Draw(<<s.K, s.N>>, 2)
        out(o) == Plus(At(inp, o), At(ProductOf(mat1, mat2), o)) IN
    Named({"a", "mat1"}, mat1) @@ Named({"b", "mat2"}, mat2) @@ Named({"i", "input"}, inp)
    @@ Named({"c", "out", "output"}, Filled("float", Matrix(s), out)) @@ Named({"alpha", "beta"}, Number(1))
addmm2d == Verdicts(MatmulCases, _canonical_addmm2d_intent, addmm2d_reference)

DotIntent(x, y, xf, yf) ==
    IntentFunction(Shaped({x, y, xf, yf, "mul_out"}, <<"N">>) @@ [out |-> <<>>],
                   <<AsFloat(xf, x), AsFloat(yf, y), OpOf("mul", "mul_out", <<xf, yf>>),
                     OpWith("reduce_sum", "out", <<"mul_out">>, [dims |-> <<0>>, keepdims |-> FALSE])>>, <<"out">>)
DotReference(s) ==
    LET a == Draw(<<s.N>>, 1)
        b == Draw(<<s.N>>, 2)
        x(k) == a.at[k]
        y(k) == b.at[k] IN
    Named({"A", "x"}, a) @@ Named({"B", "y"}, b) @@ Named({"out", "output", "result"}, Number(Inner(s.N, x, y)))
_canonical_dot1d_intent == DotIntent("x", "y", "x_f32", "y_f32")
dot1d_reference(s) == DotReference(s)
dot1d == Verdicts(Vectors, _canonical_dot1d_intent, dot1d_reference)
_canonical_vdot1d_intent == DotIntent("A", "B", "A_f32", "B_f32")
vdot1d_reference(s) == DotReference(s)
vdot1d == Verdicts(Vectors, _canonical_vdot1d_intent, vdot1d_reference)

_canonical_mv2d_intent ==
    IntentFunction(Shaped({"Inp", "C"}, <<"N">>) @@ Shaped({"alpha", "beta"}, <<>>) @@ [A |-> <<"N", "M">>, B |-> <<"M">>],
                   <<OpOf("matmul", "mv_out", <<"A", "B">>), OpOf("mul", "mv_scaled", <<"mv_out", "alpha">>),
                     OpOf("mul", "inp_scaled", <<"Inp", "beta">>), OpOf("add", "C", <<"mv_scaled", "inp_scaled">>)>>, <<"C">>)
mv2d_reference(s) ==
    LET mat == Draw(<<s.N, s.M>>, 1)
        vec == Draw(<<s.M>>, 2)
        y(k) == vec.at[k]
        out(o) == LET x(k) == At(mat, <<o[1], k>>) IN Inner(s.M, x, y)
        zero(o) == 0 IN
    Named({"A", "mat"}, mat) @@ Named({"B", "vec"}, vec) @@ Named({"C", "out", "output"}, Filled("float", <<s.N>>, out))
    @@ [Inp |-> Filled("float", <<s.N>>, zero), alpha |-> Number(1), beta |-> Number(0)]
mv2d == Verdicts(MatrixCases, _canonical_mv2d_intent, mv2d_reference)

_canonical_kron2d_intent ==
    OneOp([A |-> MN, B |-> <<"P", "Q">>, out |-> <<"MP", "NQ">>], "kron", "out", <<"A", "B">>, <<>>)
_norm_kron2d(s) == s @@ [MP |-> s.M * s.P, NQ |-> s.N * s.Q]
kron2d_reference(s) ==
    LET a == Drawn(s)
        b == Draw(<<s.P, s.Q>>, 2)
        out(o) == Times(At(a, <<o[1] \div s.P, o[2] \div s.Q>>), At(b, <<o[1] % s.P, o[2] % s.Q>>)) IN
    Named({"A", "input"}, a) @@ Named({"B", "other"}, b) @@ Output(Filled("float", <<s.MP, s.NQ>>, out))
kron2d ==
    Verdicts({_norm_kron2d(s) : s \in [M : 1 .. 2, N : 1 .. 2, P : 1 .. 2, Q : {3}]}, _canonical_kron2d_intent, kron2d_reference)

\* The outcomes, spec by spec.
RowVerdicts ==
    [row_all |-> row_all, any_kernel_dim |-> any_kernel_dim, row_max |-> row_max, min2d |-> min2d,
     min_dim2d |-> min_dim2d, argmax2d |-> argmax2d, argmin2d |-> argmin2d, std2d |-> std2d,
     var_mean2d |-> var_mean2d, vector_norm2d |-> vector_norm2d, count_nonzero2d |-> count_nonzero2d,
     prod2d |-> prod2d, prod_dim2d |-> prod_dim2d, cumsum2d |-> cumsum2d, normed_cumsum2d |-> normed_cumsum2d,
     cummax1d |-> cummax1d, cummin1d |-> cummin1d, log_softmax2d |-> log_softmax2d, rms_norm2d |-> rms_norm2d,
     weight_norm2d |-> weight_norm2d, batch_norm2d |-> batch_norm2d, sort2d |-> sort2d,
     sort_stable2d |-> sort_stable2d, topk2d |-> topk2d, quantile2d |-> quantile2d, unique2d |-> unique2d,
     nonzero2d |-> nonzero2d, mm2d |-> mm2d, addmm2d |-> addmm2d, dot1d |-> dot1d, vdot1d |-> vdot1d, mv2d |-> mv2d,
     kron2d |-> kron2d]
================================================================================
