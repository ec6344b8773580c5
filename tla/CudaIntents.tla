------------------------------ MODULE CudaIntents -------------------------------
(***************************************************************************)
(* The CUDA pipeline (pipeline/cuda/core.py): its native kernels              *)
(* (kernels/cuda/ops), the numpy references of the kernels that it takes as   *)
(* snapshots from TileLang, its deterministic intents, and the outcome of     *)
(* comparing an intent with the one or the other.  A block has Width threads   *)
(* along each of its axes, 256 or 16 there.                                 *)
(***************************************************************************)
EXTENDS DiffRunner

LOCAL INSTANCE TLC
LOCAL INSTANCE SequencesExt

TL == INSTANCE TileLangKernels

Width == 2
_ceil_div(n, d) == (n + d - 1) \div d
\* The shapes of a case with what an intent's extents and groups need: 1 for an extent without a
\* value, the size of a group from the channels.
_enrich_base_shapes_for_intent(base, intent) ==
    LET symbols == UNION {Range(intent.tensors[n]) : n \in DOMAIN intent.tensors} \ DOMAIN Literals
        given == base @@ [d \in symbols |-> 1]
        derived(s) == _ceil_div(s.C, s.num_groups)
        grouped == IF {"num_groups", "C"} \subseteq DOMAIN given /\ ("group_size" \in DOMAIN given => given.group_size <= 1)
                   THEN [group_size |-> derived(given)] @@ given ELSE given IN
    IF {"group_size", "HW"} \subseteq DOMAIN grouped /\ "num_elements" \notin DOMAIN grouped
    THEN [num_elements |-> grouped.group_size * grouped.HW] @@ grouped ELSE grouped

(***************************************************************************)
(* The native kernels: a thread for every element of the output or, in         *)
(* row_sum, of its row; threads beyond the array do nothing.  Axis x is the    *)
(* last one of the array that the threads walk over.                         *)
(***************************************************************************)
Launch1(n, write(_)) ==
    LET idx(p) == p[1] * Width + p[2]
        writes(p) == IF idx(p) < n THEN write(idx(p)) ELSE <<>> IN
    TL!Launched("float", <<n>>, Extent(_ceil_div(n, Width)) \X Extent(Width), writes)
Launch2(shape, rows, cols, write(_, _)) ==
    LET x(p) == p[1] * Width + p[3]
        y(p) == p[2] * Width + p[4]
        writes(p) == IF x(p) < cols /\ y(p) < rows THEN write(x(p), y(p)) ELSE <<>> IN
    TL!Launched("float", shape,
                Extent(_ceil_div(cols, Width)) \X Extent(_ceil_div(rows, Width)) \X Extent(Width) \X Extent(Width), writes)

vec_add_kernel(A, B) ==
    Launch1(A.shape[1], LAMBDA idx : <<idx>> :> Plus(At(A, <<idx>>), At(B, <<idx>>)))
_vec_add_reference(s) ==
    LET a == Draw(<<s.N>>, 1)
        b == Draw(<<s.N>>, 2) IN [A |-> a, B |-> b, C |-> vec_add_kernel(a, b)]
_vec_add_fallback_intent == OneOp(Shaped({"A", "B", "C"}, <<"N">>), "add", "C", <<"A", "B">>, <<>>)

transpose2d_kernel(inp) ==
    Launch2(<<inp.shape[2], inp.shape[1]>>, inp.shape[1], inp.shape[2], LAMBDA x, y : <<x, y>> :> At(inp, <<y, x>>))
_transpose2d_reference(s) == LET inp == Drawn(s) IN [inp |-> inp, out |-> transpose2d_kernel(inp)]

row_sum_kernel(inp) == Launch1(inp.shape[1], LAMBDA r : <<r>> :> Total(Line(inp, r)))
_row_sum_reference(s) == LET inp == Drawn(s) IN [inp |-> inp, out |-> row_sum_kernel(inp)]
\* Ops that reduce the columns of inp.
OverColumns(op) == OneOp([inp |-> MN, out |-> <<"M">>], op, "out", <<"inp">>, [dims |-> <<1>>, keepdims |-> FALSE])
_row_sum_fallback_intent == OverColumns("reduce_sum")

naive_gemm_kernel(A, B) ==
    LET acc(m, n) == FloatSum(Extent(A.shape[2]), LAMBDA k : Times(At(A, <<m, k>>), At(B, <<k, n>>))) IN
    Launch2(<<A.shape[1], B.shape[2]>>, A.shape[1], B.shape[2], LAMBDA n, m : <<m, n>> :> acc(m, n))
_naive_gemm_reference(s) ==
    LET a == Draw(<<s.M, s.K>>, 1)
        b == Draw(<<s.K, s.N>>, 2) IN [A |-> a, B |-> b, C |-> naive_gemm_kernel(a, b)]
_naive_gemm_fallback_intent ==
    OneOp([A |-> <<"M", "K">>, B |-> <<"K", "N">>, C |-> MN], "matmul", "C", <<"A", "B">>, <<>>)

(***************************************************************************)
(* The kernels taken as snapshots, with their references in numpy.            *)
(***************************************************************************)
_any_kernel_dim_reference(s) ==
    LET inp == DrawIn("float", Matrix(s), 1, 0, 1)
        any(line) == Truth(\E j \in DOMAIN line : line[j] # 0) IN
    [inp |-> inp, out |-> OfRows("bool", inp, any)]
_any_kernel_dim_fallback_intent == OverColumns("reduce_any")

\* The bounds have no axes.
ClampReference(s) == TL!clamp2d_prim_func(TL!_clamp2d_reference(s)) @@ TL!_clamp2d_reference(s)
_clamp2d_fallback_intent ==
    IntentFunction(Shaped({"inp", "out"}, MN) @@ Shaped({"lo", "hi"}, <<>>),
                   <<OpOf("max", "t0", <<"inp", "lo">>), OpOf("min", "out", <<"t0", "hi">>)>>, <<"out">>)

\* Next to the softmax the greatest element of every row, and the sum of its exponentials.
_softmax_inner_reference(s) ==
    LET x == Drawn(s)
        e(line) == TL!ExpRow(line) IN
    [input_ptr |-> x, output_ptr |-> TL!SoftmaxRows(x), row_max_ptr |-> OfRows("float", x, Greatest),
     row_sum_ptr |-> OfRows("float", x, LAMBDA line : Total(e(line)))]
_softmax_inner_fallback_intent ==
    LET reduce(op, out, x) == OpWith(op, out, <<x>>, [dims |-> <<1>>, keepdims |-> FALSE]) IN
    IntentFunction(Shaped({"input_ptr", "output_ptr"}, MN) @@ Shaped({"row_max_ptr", "row_sum_ptr"}, <<"M">>),
                   <<reduce("reduce_max", "row_max_ptr", "input_ptr"), Spread2("row_max_2d", "row_max_ptr", MN, <<0>>),
                     OpOf("sub", "x_shift", <<"input_ptr", "row_max_2d">>), OpOf("exp", "exp_scores", <<"x_shift">>),
                     reduce("reduce_sum", "row_sum_ptr", "exp_scores"), Spread2("row_sum_2d", "row_sum_ptr", MN, <<0>>),
                     OpOf("div", "output_ptr", <<"exp_scores", "row_sum_2d">>)>>,
                   <<"output_ptr", "row_max_ptr", "row_sum_ptr">>)

_layer_norm_persistent_reference(s) ==
    LET x == Drawn(s)
        w == Draw(<<s.N>>, 2)
        b == Draw(<<s.N>>, 3)
        rstd(line) == TL!Rsqrt(Plus(Variance(line, 0), TL!Eps))
        y(o) == LET line == Line(x, o[1]) IN
                Plus(Times(Times(Minus(At(x, o), Average(line)), rstd(line)), At(w, <<o[2]>>)), At(b, <<o[2]>>)) IN
    [in_ptr |-> x, weight_ptr |-> w, bias_ptr |-> b, out_ptr |-> Filled("float", x.shape, y),
     out_mean_ptr |-> OfRows("float", x, Average), out_rstd_ptr |-> OfRows("float", x, rstd)]
\* The means are sums, scaled.
_layer_norm_persistent_fallback_intent ==
    LET mean(out, x) == OpWith("reduce_sum", out, <<x>>, [dims |-> <<1>>, keepdims |-> FALSE, scale |-> "1.0/N"]) IN
    IntentFunction(Shaped({"in_ptr", "out_ptr", "weight_2d", "bias_2d"}, MN) @@ Shaped({"weight_ptr", "bias_ptr"}, <<"N">>)
                   @@ Shaped({"out_mean_ptr", "out_rstd_ptr"}, <<"M">>),
                   <<mean("out_mean_ptr", "in_ptr"), Spread2("mean_2d", "out_mean_ptr", MN, <<0>>),
                     OpOf("sub", "centered", <<"in_ptr", "mean_2d">>), OpOf("mul", "sq", <<"centered", "centered">>),
                     mean("var", "sq"), Const("eps", TL!Eps), OpOf("add", "var_eps", <<"var", "eps">>),
                     OpOf("rsqrt", "out_rstd_ptr", <<"var_eps">>), Spread2("rstd_2d", "out_rstd_ptr", MN, <<0>>),
                     OpOf("mul", "norm", <<"centered", "rstd_2d">>), Spread2("weight_2d", "weight_ptr", MN, <<1>>),
                     Spread2("bias_2d", "bias_ptr", MN, <<1>>), OpOf("mul", "scaled", <<"norm", "weight_2d">>),
                     OpOf("add", "out_ptr", <<"scaled", "bias_2d">>)>>, <<"out_ptr", "out_mean_ptr", "out_rstd_ptr">>)

\* The same arrays and the same ops as in the TileLang pipeline; groups that do not divide the
\* channels are refused.
_group_norm_reference(s) == TL!_group_norm_reference(s)
_group_norm_fallback_intent == TL!_group_norm_intent

\* One head, without a mask; the scale is an expression over the extents.
_attn_fwd_reference(s) ==
    LET q == Draw(<<s.Q_CTX, s.HEAD_DIM>>, 1)
        k == Draw(<<s.KV_CTX, s.HEAD_DIM>>, 2)
        v == Draw(<<s.KV_CTX, s.HEAD_DIM>>, 3)
        sm_scale == Number(Over(1, Sqrt(s.HEAD_DIM)))
        mm == TL!MatrixProduct(q, TL!Transposed(k))
        scores == Filled("float", mm.shape, LAMBDA o : Times(At(mm, o), At(sm_scale, <<>>))) IN
    [Q |-> q, K |-> k, V |-> v, sm_scale |-> sm_scale, Out |-> TL!MatrixProduct(TL!SoftmaxRows(scores), v)]
_attn_fwd_fallback_intent ==
    IntentFunction(Shaped({"Q", "Out"}, <<"Q_CTX", "HEAD_DIM">>) @@ Shaped({"K", "V"}, <<"KV_CTX", "HEAD_DIM">>),
                   <<OpWith("matmul", "scores", <<"Q", "K">>, [transpose_b |-> TRUE]),
                     OpWith("const", "sm_scale", <<>>, [expr |-> "1.0/(HEAD_DIM**0.5)"]),
                     OpOf("mul", "scores_s", <<"scores", "sm_scale">>),
                     OpWith("softmax", "probs", <<"scores_s">>, [axis |-> 1]), OpOf("matmul", "Out", <<"probs", "V">>)>>, <<"Out">>)

(***************************************************************************)
(* The outcomes, kernel by kernel.                                           *)
(***************************************************************************)
Outcomes(cases, intent, reference(_)) ==
    [s \in cases |-> run_diff(intent, reference(s), _enrich_base_shapes_for_intent(s, intent), <<>>)]
VectorCases == [N : 1 .. 5]
_deterministic_fallback_intent_for ==
    [vec_add |-> Outcomes(VectorCases, _vec_add_fallback_intent, _vec_add_reference),
     row_sum |-> Outcomes(MatrixCases, _row_sum_fallback_intent, _row_sum_reference),
     naive_gemm |-> Outcomes([M : 1 .. 3, N : 1 .. 3, K : 1 .. 3], _naive_gemm_fallback_intent, _naive_gemm_reference),
     any_kernel_dim |-> Outcomes(MatrixCases, _any_kernel_dim_fallback_intent, _any_kernel_dim_reference),
     clamp2d |-> Outcomes(MatrixCases, _clamp2d_fallback_intent, ClampReference),
     softmax_inner |-> Outcomes(MatrixCases, _softmax_inner_fallback_intent, _softmax_inner_reference),
     layer_norm_persistent |->
        Outcomes(MatrixCases, _layer_norm_persistent_fallback_intent, _layer_norm_persistent_reference),
     group_norm_kernel |-> Outcomes(TL!GroupNormCases, _group_norm_fallback_intent, _group_norm_reference),
     _attn_fwd |-> Outcomes([Q_CTX : {1, 3}, KV_CTX : {1, 3}, HEAD_DIM : {2}], _attn_fwd_fallback_intent, _attn_fwd_reference)]
\* The pipeline's own intent of transpose2d names its axes "permutation", which the interpreter refuses
\* (it wants "perm"): the kernel is compared with TileLang's.
CudaVerdicts ==
    [transpose2d |-> Outcomes(MatrixCases, TL!_transpose2d_intent, _transpose2d_reference)] @@ _deterministic_fallback_intent_for
================================================================================
