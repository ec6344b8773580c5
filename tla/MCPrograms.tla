------------------------------ MODULE MCPrograms ------------------------------
(***************************************************************************)
(* The emitted kernels, at Width threads or Warps warps, as tables for TLC.  *)
(* A kernel whose program depends on its input appears once for every input: *)
(* every row of values 0 and 1 of at most Width values, index rows of two;   *)
(* a gather kernel appears once for every block of its launches.           *)
(***************************************************************************)
EXTENDS MCPlugin, ReductionKernels, SortScanKernels, TileKernels, RvvOps

LOCAL INSTANCE SequencesExt

Trees ==
    <<"matvec_v1">> :> matvec_v1 @@ <<"tvd_loss2d_v1">> :> tvd_loss2d_v1
    @@ <<"grouped_row_sum2d">> :> grouped_row_sum2d @@ <<"rms_norm_residual">> :> rms_norm_residual
    @@ <<"row_reduce_prod_axis1_v1">> :> row_reduce_prod_axis1_v1
    @@ <<"reduce_min_all_v1">> :> reduce_min_all_v1 @@ <<"reduce_prod_all_v1">> :> reduce_prod_all_v1
    @@ <<"trace2d_v1">> :> trace2d_v1 @@ <<"count_nonzero2d_v1">> :> count_nonzero2d_v1
    @@ <<"allclose2d_v1">> :> allclose2d_v1 @@ <<"weight_norm2d_v1">> :> weight_norm2d_v1
    @@ <<"mse_loss2d_v1">> :> mse_loss2d_v1 @@ <<"row_reduce_sum_axis1_v1">> :> row_reduce_sum_axis1_v1
    @@ <<"row_reduce_max_axis1_v1">> :> row_reduce_max_axis1_v1
    @@ <<"row_reduce_any_axis1_v1">> :> row_reduce_any_axis1_v1
    @@ <<"nll_loss_forward_v1">> :> nll_loss_forward_v1
    @@ <<"nll_loss2d_forward_v1">> :> nll_loss2d_forward_v1
    @@ <<"poly_norm_axis1_v1">> :> poly_norm_axis1_v1
    @@ <<"row_sum_axis1_v2">> :> row_sum_axis1_v2 @@ <<"row_max_axis1_v2">> :> row_max_axis1_v2

Shuffles ==
    <<"rms_norm_vector_body">> :> rms_norm_vector_body
    @@ <<"rms_norm_cached_body">> :> rms_norm_cached_body
    @@ <<"layer_norm_vector_body">> :> layer_norm_vector_body
    @@ <<"poly_norm_vector_body">> :> poly_norm_vector_body @@ <<"tvd_loss2d_v2">> :> tvd_loss2d_v2
    @@ <<"group_norm_v1">> :> group_norm_v1 @@ <<"layer_norm_axis1_v1">> :> layer_norm_axis1_v1
    @@ <<"rms_norm_axis1_v2">> :> rms_norm_axis1_v2 @@ <<"rms_norm_axis1_v4">> :> rms_norm_axis1_v4
    @@ <<"layer_norm_persistent_row">> :> layer_norm_persistent_row

Scans ==
    <<"masked_select2d_prefixsum_v1">> :> masked_select2d_prefixsum_v1
    @@ <<"masked_scatter2d_prefixsum_v1">> :> masked_scatter2d_prefixsum_v1
    @@ <<"cumsum2d_axis1_v1">> :> cumsum2d_axis1_v1 @@ <<"cummax1d_axis0_v1">> :> cummax1d_axis0_v1
    @@ <<"cummin1d_axis0_v1">> :> cummin1d_axis0_v1
    @@ <<"normed_cumsum2d_axis1_v1">> :> normed_cumsum2d_axis1_v1

TilesAndAttention ==
    <<"matmul_mma_tf32_v1">> :> matmul_mma_tf32_v1 @@ <<"matmul_mma_tf32_v2">> :> matmul_mma_tf32_v2
    @@ <<"matmul_tile_v1">> :> matmul_tile_v1 @@ <<"matmul_tile_v2">> :> matmul_tile_v2
    @@ <<"tiled_mlp_row_fused_v1">> :> tiled_mlp_row_fused_v1
    @@ <<"mlp2d_row_fused_v2">> :> mlp2d_row_fused_v2 @@ <<"mlp2d_fused_v1">> :> mlp2d_fused_v1
    @@ <<"attn2d_causal_softmax_v1">> :> attn2d_causal_softmax_v1
    @@ <<"attn2d_causal_softmax_v4">> :> attn2d_causal_softmax_v4
    @@ <<"attn2d_causal_softmax_v5">> :> attn2d_causal_softmax_v5
    @@ <<"attn2d_causal_softmax_v6">> :> attn2d_causal_softmax_v6
    @@ <<"attn2d_causal_softmax_v8">> :> attn2d_causal_softmax_v8
    @@ <<"attn2d_causal_softmax_v9">> :> attn2d_causal_softmax_v9
    @@ <<"attn2d_causal_softmax_v10">> :> attn2d_causal_softmax_v10
    @@ <<"attn2d_causal_softmax_v15">> :> attn2d_causal_softmax_v15
    @@ <<"attn2d_causal_softmax_v16">> :> attn2d_causal_softmax_v16
    @@ <<"attn2d_causal_softmax_v18">> :> attn2d_causal_softmax_v18
    @@ <<"attn2d_causal_softmax_mma_tf32_v1">> :> attn2d_causal_softmax_mma_tf32_v1
    @@ <<"attn_fwd_tiled_v3">> :> attn_fwd_tiled_v3 @@ <<"attn_fwd_softmax_v1">> :> attn_fwd_softmax_v1

\* Rows of every length up to a block; index rows of two entries, one of them perhaps off the row.
Rows == UNION {[1 .. n -> {0, 1}] : n \in {Width - 1, Width}}
ArgRows == [1 .. Elems -> {0, 1}]
IndexRows == [1 .. 2 -> 0 .. Elems]
Columnwise == {i \in IndexRows : i[1] # i[2]}

Sorts ==
    LET top2(row) == row_topk_axis1_bitonic_v1(row, 2)
        median(row) == row_quantile_axis1_sort_v1(row, 1) IN
    Programs("row_sort_axis1_bitonic_v1", Rows, row_sort_axis1_bitonic_v1)
    @@ Programs("row_sort_axis1_bitonic_descending", Rows, row_sort_axis1_bitonic_descending)
    @@ Programs("row_sort_axis1_bitonic_stable_v1", Rows, row_sort_axis1_bitonic_stable_v1)
    @@ Programs("row_topk_axis1_bitonic_v1", Rows, top2)
    @@ Programs("row_quantile_axis1_sort_v1", Rows, median)

ArgReductions ==
    Programs("row_reduce_min_argmin_axis1_v1", ArgRows, row_reduce_min_argmin_axis1_v1)
    @@ Programs("row_argmin_axis1_v1", ArgRows, row_argmin_axis1_v1)
    @@ Programs("row_argmax_axis1_v1", ArgRows, row_argmax_axis1_v1)

Scatters ==
    LET slice(x) == slice_scatter2d_dim1_v1(x[1], x[2], x[3]) IN
    Programs("index_put2d_v1", IndexRows, index_put2d_v1)
    @@ Programs("scatter2d_dim1_v1", Columnwise, scatter2d_dim1_v1)
    @@ Programs("select_scatter2d_dim1_v1", Columns, select_scatter2d_dim1_v1)
    @@ Programs("slice_scatter2d_dim1_v1", {<<0, 2, 2>>, <<1, 1, 4>>, <<4, 1, 1>>}, slice)

Reducers ==
    <<"row_log_softmax_axis1_v1">> :> row_log_softmax_axis1_v1 @@ <<"batch_norm2d_v1">> :> batch_norm2d_v1
    @@ <<"layer_norm_residual_axis1_v1">> :> layer_norm_residual_axis1_v1
    @@ <<"row_std_axis1_v1">> :> row_std_axis1_v1
    @@ <<"online_softmax_vector_body">> :> online_softmax_vector_body
    @@ <<"row_softmax_axis1_triton_v1">> :> row_softmax_axis1_triton_v1
    @@ <<"row_softmax_axis1_v1">> :> row_softmax_axis1_v1
    @@ <<"cfg_masked_row_reduce_v1">> :> cfg_masked_row_reduce_v1
    @@ <<"cfg_masked_row_reduce_v2">> :> cfg_masked_row_reduce_v2
    @@ PluginReducers

TokenAttention == {[n |-> 1, cin |-> 2, cout |-> 2, groups |-> 2, input |-> <<3, 3>>, window |-> <<2, 3>>,
                    stride |-> <<1, 1>>, pad |-> <<1, 1>>, dilation |-> <<1, 1>>]}
Pools == {[n |-> 1, c |-> 2, input |-> <<3, 5>>], [n |-> 2, c |-> 1, input |-> <<4, 2>>]}
Plane == [n |-> 1, c |-> 1, input |-> <<2, 2>>]
\* A head has at most as many dimensions as its block has threads (README: sdpa_bhsd_v2).
Heads == {[b |-> 1, h |-> 2, q |-> 2, k |-> 2, d |-> Width, causal |-> FALSE],
          [b |-> 1, h |-> 2, q |-> 2, k |-> 2, d |-> 2, causal |-> TRUE]}

RopePairs == {[b |-> 2, s |-> 2, qh |-> 2, kh |-> 1, half |-> 3, cos_b |-> 1, cos_w |-> 6, layout |-> "bhsd"],
              [b |-> 2, s |-> 1, qh |-> 1, kh |-> 2, half |-> 5, cos_b |-> 2, cos_w |-> 5, layout |-> "bshd"]}

Gathers ==
    LET max_pool(x) == max_pool2d_with_indices_nchw_v1(Plane, x)
        stack(x) == stack2d_v1(x[1], x[2])
        polar(x) == polar2d_v1(x[1], x[2])
        embed(x) == diag_embed2d_v1(x[1], x[2])
        kron(x) == kron2d_v1(x[1], x[2], x[3], x[4])
        up1d(x) == upsample_nearest1d_ncl_v1(x[1], x[2], x[3], x[4])
        up2d(x) == upsample_nearest2d_nchw_v1(1, 2, x[1], x[2])
        glu(x) == glu2d_v1(x[1], x[2])
        correlation(x) == correlation_v1(x[1], x[2], x[3], x[4])
        resize(x) == resize_bilinear2x_hwfl7_v1(x[1], x[2], x[3])
        warp(x) == warp_v1(2, 1, 5, [i \in 0 .. 4 |-> x[i + 1]])
        rope(x) == rope_v1(x[1], x[2], x[3], x[4]) IN
    Launches("conv1d_ncl_v1", Convs1d, conv1d_ncl_v1)
    @@ Launches("conv2d_nchw_v1", Convs2d, conv2d_nchw_v1)
    @@ Launches("conv3d_ncdhw_v1", Convs3d, conv3d_ncdhw_v1)
    @@ Launches("conv_depthwise2d_nchw_v1", Depthwise, conv_depthwise2d_nchw_v1)
    @@ Launches("multi_token_attention_fused_v1", TokenAttention, multi_token_attention_fused_v1)
    @@ Launches("avg_pool2d_nchw_v1", Pools, avg_pool2d_nchw_v1)
    @@ Launches("max_pool2d_with_indices_nchw_v1", [0 .. 3 -> {0, 1, 2}], max_pool)
    @@ Launches("stack2d_v1", {<<2, 3>>}, stack) @@ Launches("polar2d_v1", {<<2, 2>>}, polar)
    @@ Launches("diag_embed2d_v1", {<<2, 3>>}, embed) @@ Launches("kron2d_v1", {<<2, 1, 2, 3>>}, kron)
    @@ Launches("upsample_nearest1d_ncl_v1", {<<1, 2, 2, 3>>, <<2, 1, 3, 5>>}, up1d)
    @@ Launches("upsample_nearest2d_nchw_v1", {<<<<2, 3>>, <<3, 4>>>>}, up2d)
    @@ Launches("glu2d_v1", {<<2, 3>>}, glu) @@ Launches("dropout_philox_v1", {Width + 1}, dropout_philox_v1)
    @@ Launches("correlation_v1", {<<2, 3, 1, 5>>, <<1, 2, 2, 1>>}, correlation)
    @@ Launches("resize_bilinear2x_hwfl7_v1", {<<1, 2, 3>>}, resize)
    @@ Launches("warp_v1", {<<0, 1, 2, 0, 5>>, <<0, 0, 0, 3, 1>>}, warp)
    @@ Launches("rope_v1", {<<2, 1, 2, 3>>, <<1, 2, 1, 5>>}, rope) @@ Launches("rope_dual_v1", RopePairs, rope_dual_v1)
    @@ Launches("sdpa_bhsd_v2", Heads, sdpa_bhsd_v2)

(***************************************************************************)
(* One op at a time, on numbers of every type it takes: x a matrix, y and z   *)
(* of the same extents, a value per column or per row, or one for all.       *)
(***************************************************************************)
Sample == [i1 |-> <<0, 1>>, i32 |-> <<-3, 100, 4>>, i64 |-> <<200, -1, 7>>, f32 |-> <<6, -3, 5, -8>>]
Spans == [both |-> <<0, 1>>, column |-> <<1>>, row |-> <<0>>, none |-> <<>>]
Typed(type, span, out, step) ==
    LET sample == Sample[type] IN
    [dims |-> Spans[span],
     at |-> [i \in Upto(Ref!Size(out)) |-> [type |-> type, value |-> sample[1 + ((i * step) % Len(sample))]]]]
OutType(op, types) ==
    IF op \in {"eq", "ne", "lt", "le", "gt", "ge", "and", "not"} THEN "i1"
    ELSE LET v == [k \in DOMAIN types |-> [type |-> types[k], value |-> 0]] IN
         IF op = "where" THEN Numpy!Promoted(v[2], v[3]) ELSE Numpy!Promoted(v[1], v[Len(v)])
Op1(op, types, spans, out, elems) ==
    [op |-> op, types |-> types, spans |-> spans, out |-> out, elems |-> elems]
Binary2 == {<<"i32", "i32">>, <<"i64", "i32">>, <<"f32", "f32">>, <<"f32", "i32">>, <<"i1", "i64">>}
TypedOps ==
    LET all(ops, types, spans) == {Op1(op, t, spans, <<2, 3>>, 2) : op \in ops, t \in types}
        bits == {<<"i32", "i32">>}
        both == <<"both", "both">> IN
    all({"add", "sub"}, Binary2, <<"both", "column">>)
    \cup all({"mul"}, Binary2 \ {<<"f32", "f32">>}, both)
    \cup all({"eq", "lt", "ge"}, Binary2, <<"both", "row">>) \cup all({"ne", "le", "gt"}, Binary2, <<"column", "both">>)
    \cup all({"eq", "ne", "max", "min"}, {<<"i1", "i1">>}, both) \cup all({"and"}, {<<"i1", "i1">>}, <<"both", "row">>)
    \cup all({"not"}, {<<"i1">>}, <<"both">>) \cup all({"bitwise_and", "bitwise_or"}, bits, both)
    \cup all({"bitwise_not"}, {<<"i32">>}, <<"both">>)
    \cup all({"where"}, {<<"i1", "f32", "i32">>, <<"i32", "i32", "i64">>}, <<"both", "row", "none">>)
    \cup all({"remainder", "pow"}, {<<"f32", "f32">>}, both)
Places2 ==
    {Op1("sub", <<"f32", "f32">>, <<x, y>>, out, elems) :
        x \in {"both"}, y \in {"both", "column", "row", "none"}, out \in {<<2, 4>>, <<3, 2>>}, elems \in {1, 2}}
    \cup {Op1(op, <<"f32">>, <<"both">>, <<3, 3>>, 1) : op \in {"abs", "floor", "ceil", "neg", "relu", "identity", "exp"}}
    \cup {Op1(op, <<"f32", "f32">>, <<"both", "column">>, <<5, 4>>, 4) : op \in {"max", "min", "div"}}

ElementKernels ==
    LET element(x) ==
          elementwise_v1(x.op, [k \in DOMAIN x.types |-> Typed(x.types[k], x.spans[k], x.out, k)], x.out,
                         OutType(x.op, x.types), x.elems)
        cast(x) == elementwise_v1("cast", <<Typed(x[1], "both", <<1, 4>>, 1)>>, <<1, 4>>, x[2], 1)
        iota(x) == elementwise_iota(<<2, 3>>, x[1], x[2])
        concat(x) == elementwise_concat(x[1], x[2], x[3], x[4])
        pad(x) == elementwise_pad(<<2, 2>>, <<1, 0>>, <<0, 2>>, x)
        gather(x) == elementwise_gather(<<3, 2>>, <<2, 4>>, <<[i \in 0 .. 7 |-> i % 3], [i \in 0 .. 3 |-> (i + 1) % 2]>>,
                                        <<<<2, 4>>, <<4>>>>, x)
        transpose(x) == elementwise_transpose(3, 2, x) IN
    Launches("elementwise_v1", TypedOps \cup Places2, element)
    @@ Launches("elementwise_cast", {"i1", "i32", "i64", "f32"} \X {"i1", "i32", "i64", "f32"}, cast)
    @@ Launches("elementwise_iota", {1, 2} \X {1, 2}, iota)
    @@ Launches("elementwise_concat", {<<<<2, 3>>, <<1, 3>>, 0, 1>>, <<<<2, 1>>, <<2, 2>>, 1, 2>>}, concat)
    @@ Launches("elementwise_pad", {1, 2}, pad) @@ Launches("elementwise_gather", {1, 4}, gather) @@ Launches("elementwise_transpose", {1, 2}, transpose)

\* Rows of values that repeat or do not; the output has room for what there is.
Searches ==
    LET unique(x) == unique2d_v1(x, Cardinality(Range(x)))
        nonzero(x) == nonzero2d_v1(x, 2, Cardinality({i \in DOMAIN x : x[i] # 0})) IN
    Programs("unique2d_v1", [1 .. 4 -> 0 .. 2], unique)
    @@ Programs("nonzero2d_v1", {x \in [1 .. 4 -> 0 .. 1] : 1 \in Range(x)}, nonzero)

(***************************************************************************)
(* The loop nests for a RISC-V core: the named kernels at 2 by 3 (inner       *)
(* extent 2), and those whose result depends on the numbers they are given.  *)
(***************************************************************************)
Named ==
    LET named == lower_intent_to_rvv_cpu_kernel(2, 3, 2) IN
    [k \in {<<"rvv", name>> : name \in DOMAIN named} |-> named[k[2]]]

NumberRows == [1 .. 3 -> {-Infinity, 0, 1, Infinity}]
Vector(axis, values) == [dims |-> <<axis>>, at |-> values]
Bytes == <<-128, -2, -1, 0, 1, 127>>
SignOps == {"max", "min"}
Byte(op, i) == IF op \in SignOps THEN i * 21 ELSE Bytes[i + 1]
Divisor(op, i) == IF op = "remainder" THEN 2 * i - 3 ELSE Byte(op, i)
ElementOps == {"eq", "ne", "lt", "le", "gt", "ge", "and", "or", "not", "bool", "where", "add", "sub", "mul",
               "remainder", "relu", "abs", "neg"} \cup SignOps
Warps2 == {<<0, 1, 2, 0, 3>>, <<0, -1, -3, 3, 1>>, <<-128, 127, -127, 5, -2>>}

ElementLoops ==
    LET columns(op) == Vector(0, [i \in 0 .. 5 |-> Byte(op, i)])
        rows(op) == Vector(1, [i \in 0 .. 4 |-> Divisor(op, i)])
        apply(op) == emit_elementwise(op, columns(op), rows(op), 6, 5)
        relu(ops) == emit_relu2d(ops, [dims |-> <<0, 1>>, at |-> [i \in 0 .. 5 |-> Bytes[i + 1]]], 2, 3)
        least(x) == emit_row_reduce_min_argmin(x)
        argmin(x) == emit_row_argminmax("min", x)
        argmax(x) == emit_row_argminmax("max", x)
        all(x) == emit_reduce_min_all(x)
        close(x) == emit_allclose2d([i \in 0 .. 1 |-> x[i + 1]], [i \in 0 .. 1 |-> x[i + 2]], 1, 1)
        warp(x) == emit_ai_bench_warp(2, 1, 5, [i \in 0 .. 4 |-> x[i + 1]])
        transpose(x) == emit_transpose2d(x[1], x[2])
        reduce(x) == IF x[3] = "prod" THEN emit_row_reduce_prod(x[1], x[2]) ELSE emit_row_reduce(x[1], x[2]) IN
    Programs("emit_elementwise", ElementOps, apply)
    @@ Programs("emit_relu2d", {<<"const", "gt", "where">>, <<"const", "ge", "where">>}, relu)
    @@ Programs("emit_row_reduce_min_argmin", NumberRows, least)
    @@ Programs("emit_row_argmin", NumberRows, argmin) @@ Programs("emit_row_argmax", NumberRows, argmax)
    @@ Programs("emit_reduce_min_all", NumberRows, all) @@ Programs("emit_allclose2d", NumberRows, close)
    @@ Programs("emit_ai_bench_warp", Warps2, warp) @@ Programs("emit_transpose2d", {<<2, 3>>}, transpose)
    @@ Programs("emit_row_reduce", {<<2, 3, "sum">>, <<3, 2, "prod">>}, reduce)

(***************************************************************************)
(* The C runtime: loops with fewer iterations than the team, as many, and    *)
(* more; rows that fill the vectors, as its reductions need them.           *)
(***************************************************************************)
RuntimeRows ==
    LET sum2(x) == intentir_reduce_sum_2d_axis1_f32(x[1], x[2])
        sum4(x) == intentir_reduce_sum_4d_axis23_f32(x[1], x[2], x[3], x[4])
        max2(x) == intentir_reduce_max_2d_axis1_f32(x[1], x[2])
        layernorm(x) == intentir_layernorm_2d_f32(x[1], x[2])
        dropout(x) == intentir_dropout_f32(x[1], x[2])
        correlation(x) == intentir_correlation_i8(x[1], x[2], x[3], x[4])
        resize(x) == intentir_resize_bilinear2x_i8(x[1], x[2], x[3], x[4])
        warp(x) == intentir_warp_q8_8_i8_i16(2, 2, 3, [i \in 0 .. 5 |-> x[i + 1]])
        rope(x) == intentir_rope_f32(x[1], x[2], x[3], x[4])
        softmax2(x) == intentir_softmax_2d_last_f32(x[1], x[2])
        softmax3(x) == intentir_softmax_3d_last_f32(x[1], x[2], x[3])
        softmax4(x) == intentir_softmax_4d_last_f32(x[1], x[2], x[3], x[4])
        any(x) == intentir_reduce_any_2d_axis1_u8(<<x, [x EXCEPT ![1] = 0]>>) IN
    Programs("intentir_reduce_sum_2d_axis1_f32", {<<5, 4>>, <<3, 1>>}, sum2)
    @@ Programs("intentir_reduce_sum_4d_axis23_f32", {<<2, 3, 2, 2>>, <<1, 2, 1, 2>>}, sum4)
    @@ Programs("intentir_reduce_max_2d_axis1_f32", {<<4, 6>>, <<2, 2>>}, max2)
    @@ Programs("intentir_layernorm_2d_f32", {<<6, 2>>, <<2, 4>>}, layernorm)
    @@ Programs("intentir_dropout_f32", {<<9, "none">>, <<3, "all">>, <<19, "some">>, <<5, "some">>}, dropout)
    @@ Programs("intentir_correlation_i8", {<<3, 2, 2, 3>>, <<2, 1, 1, 1>>}, correlation)
    @@ Programs("intentir_resize_bilinear2x_i8", {<<1, 2, 3, 7>>, <<1, 1, 2, 0>>}, resize)
    @@ Programs("intentir_warp_q8_8_i8_i16", {<<0, 1, 2, 0, 5, 1>>, <<0, 0, 0, 3, 1, 2>>}, warp)
    @@ Programs("intentir_rope_f32", {<<4, 1, 2, 3>>, <<1, 2, 1, 2>>}, rope)
    @@ Programs("intentir_softmax_1d_last_f32", {1, 4}, intentir_softmax_1d_last_f32)
    @@ Programs("intentir_softmax_2d_last_f32", {<<5, 2>>, <<3, 4>>}, softmax2)
    @@ Programs("intentir_softmax_3d_last_f32", {<<2, 3, 2>>}, softmax3)
    @@ Programs("intentir_softmax_4d_last_f32", {<<1, 2, 3, 2>>}, softmax4)
    @@ Programs("intentir_reduce_any_2d_axis1_u8", [1 .. 3 -> {0, 1}], any)

\* An operand of that shape with the numbers -1, 0, 1 in turn.
Numbered(shape) == [shape |-> shape, at |-> [i \in 0 .. 11 |-> (i % 3) - 1]]
Broadcasts ==
    LET sum(x) == intentir_f32_bin_broadcast(x.shapes, x.out)
        cmp_f32(x) == intentir_cmp_f32_broadcast_u8(x[1], Numbered(x[2].shapes.a), Numbered(x[2].shapes.b), x[2].out)
        cmp_i32(x) == intentir_cmp_i32_broadcast_u8(x[1], Numbered(x[2].shapes.a), Numbered(x[2].shapes.b), x[2].out)
        bool(x) == intentir_bool_bin_broadcast_u8(x[1], Numbered(x[2].shapes.a), Numbered(x[2].shapes.b), x[2].out)
        where(x) == intentir_where_broadcast_f32(Numbered(x.shapes.a), x.shapes.b, x.out, x.out)
        cast(x) == intentir_cast_1d(x[3], x[1], x[2])
        iota(x) == intentir_iota_i32(x[1], x[2])
        into(x) == intentir_broadcast_in_dim_f32(x[1], x[2], x[3]) IN
    Programs("intentir_f32_bin_contig", {Large - 1, Large, Large + 1, Large + 2}, intentir_f32_bin_contig)
    @@ Programs("intentir_f32_bin_broadcast", Shapes, sum)
    @@ Programs("intentir_cmp_f32_broadcast_u8", {"lt", "le", "ne"} \X Shapes, cmp_f32)
    @@ Programs("intentir_cmp_i32_broadcast_u8", {"gt", "ge", "ne"} \X Shapes, cmp_i32)
    @@ Programs("intentir_bool_bin_broadcast_u8", {"and", "or"} \X Shapes, bool)
    @@ Programs("intentir_where_broadcast_f32", Shapes, where)
    @@ Programs("intentir_cast_1d", {<<"f32", "u8", <<-1, 0, 2>>>>, <<"u8", "f32", <<0, 1, 1>>>>, <<"i32", "i8", <<-2, 0, 3>>>>}, cast)
    @@ Programs("intentir_iota_i32", {<<<<3>>, 0>>, <<<<2, 3>>, 0>>, <<<<2, 3>>, 1>>, <<<<2, 1, 2, 2>>, 2>>}, iota)
    @@ Programs("intentir_broadcast_in_dim_f32",
                {<<<<>>, <<3, 3>>, <<>>>>, <<<<1, 1>>, <<2, 3>>, <<0, 1>>>>, <<<<3>>, <<3>>, <<0>>>>, <<<<3>>, <<2, 3>>, <<1>>>>,
                 <<<<4>>, <<4, 2>>, <<0>>>>, <<<<2, 3>>, <<2, 2, 3>>, <<0, 2>>>>, <<<<2, 1>>, <<2, 3, 2>>, <<0, 1>>>>,
                 <<<<2, 2>>, <<2, 2, 1, 2>>, <<1, 3>>>>}, into)

UnaryOps ==
    Programs("intentir_abs_f32", {5, 9}, intentir_abs_f32) @@ Programs("intentir_floor_f32", {5, 9}, intentir_floor_f32)
    @@ Programs("intentir_rsqrt_f32", {5, 9}, intentir_rsqrt_f32) @@ Programs("intentir_exp_f32", {5, 9}, intentir_exp_f32)
    @@ Programs("intentir_relu_f32", {5, 9}, intentir_relu_f32) @@ Programs("intentir_cos_f32", {5, 9}, intentir_cos_f32)
    @@ Programs("intentir_erf_f32", {5, 9}, intentir_erf_f32)

\* Products with tiles and without.
Untiled == [m |-> 0, n |-> 0, k |-> 0]
Quarter == [m |-> 2, n |-> 2, k |-> 1]
Column == [m |-> 0, n |-> 1, k |-> 1]
Tensors ==
    LET gather(x) == intentir_gather_f32_i32(x[1], x[2], x[3], x[4])
        swap(x) == intentir_transpose_4d_0132_f32(x[1], x[2], x[3], x[4])
        transpose(x) == intentir_transpose_f32(x[1], x[2])
        matmul2(x) == intentir_matmul_2d_f32(x[1], x[2], x[3], x[4], x[5], x[6])
        matmul3(x) == intentir_matmul_3d_f32(x[1], 3, 2, 2, x[2], x[3], x[4])
        matmul4(x) == intentir_matmul_4d_f32(x[1], 2, 3, 2, 2, x[2], x[3], x[4]) IN
    Programs("intentir_gather_f32_i32", Picks, gather)
    @@ Programs("intentir_transpose_4d_0132_f32", {<<2, 1, 3, 2>>, <<1, 2, 2, 3>>}, swap)
    @@ Programs("intentir_transpose_f32", {<<<<3>>, <<0>>>>, <<<<2, 3>>, <<1, 0>>>>, <<<<2, 3, 2>>, <<1, 2, 0>>>>,
                                           <<<<2, 1, 2, 2>>, <<3, 0, 2, 1>>>>}, transpose)
    @@ Programs("intentir_matmul_2d_f32", {3} \X {2, 9} \X {2} \X BOOLEAN \X BOOLEAN \X {Untiled, Quarter, Column}
                                          \cup {5} \X {3} \X {2} \X BOOLEAN \X {TRUE} \X {Untiled, Quarter}
                                          \cup {13} \X {2} \X {1} \X {FALSE} \X {TRUE} \X {Untiled}, matmul2)
    @@ Programs("intentir_matmul_3d_f32", {1, 2, 5} \X BOOLEAN \X BOOLEAN \X {Quarter}, matmul3)
    @@ Programs("intentir_matmul_4d_f32", {1} \X BOOLEAN \X BOOLEAN \X {Untiled, Quarter}, matmul4)

RoundTable(r) == [load |-> Table(r.load), store |-> Table(r.store), fresh |-> Table(r.fresh),
                  from |-> Table(r.from), pick |-> Table(r.pick), want |-> Table(r.want)]
KernelTable(p) == [p EXCEPT !.rounds = Table([i \in DOMAIN @ |-> RoundTable(@[i])]),
                            !.output = Table(@)]

(***************************************************************************)
(* The deterministic intents: the outcome of run_diff for every case, as the *)
(* output of a program that does nothing else.                             *)
(***************************************************************************)
FlagGemsPoints == INSTANCE FlagGemsPointwise
FlagGemsArrays == INSTANCE FlagGemsTensors
TileLang == INSTANCE TileLangKernels
Triton == INSTANCE TritonKernels
Cuda == INSTANCE CudaIntents

canonical_flaggems_intent_for_spec ==
    FlagGemsPoints!PointwiseVerdicts @@ FlagGemsArrays!RowVerdicts @@ FlagGemsArrays!TensorVerdicts

\* The outcomes are written in one step, and each should be "ok".
RunDiff(verdicts) ==
    LET told == Table([c \in {<<"case", s>> : s \in DOMAIN verdicts} |-> {<<verdicts[c[2]], 0>>}]) IN
    Leaving(Core, <<Put(Core, [c \in DOMAIN told |-> 0], told)>>, [c \in DOMAIN told |-> SetToBag({<<"ok", 0>>})])
Differential(provider, outcomes) ==
    LET held == Table(outcomes) IN
    Table([k \in {<<provider, name>> : name \in DOMAIN held} |-> KernelTable(RunDiff(Table(held[k[2]])))])
Intents ==
    Differential("flaggems", canonical_flaggems_intent_for_spec) @@ Differential("tilelang", TileLang!TileLangVerdicts)
    @@ Differential("triton", Triton!TritonVerdicts) @@ Differential("cuda", Cuda!CudaVerdicts)

ProgramTable ==
    LET programs == Trees @@ Shuffles @@ Scans @@ TilesAndAttention @@ Sorts @@ ArgReductions
                    @@ Scatters @@ Reducers @@ Gathers @@ ElementKernels @@ Searches @@ Named @@ ElementLoops
                    @@ RuntimeRows @@ Broadcasts @@ UnaryOps @@ Tensors @@ Full196 @@ Plugin @@ Intents IN
    Table([k \in DOMAIN programs |-> KernelTable(programs[k])])

\* All threads of a round read, then all write.
LockStepRun(p) ==
    LET start == [mem |-> [c \in p.cells |-> Unwritten(c)],
                  reg |-> [t \in p.threads |-> [c \in p.cells |-> Unwritten(c)]]]
        running == p.threads \ p.idle
        after(s, r) ==
          LET held == Table([t \in p.threads |-> Table([c \in p.cells |->
                          IF t \in running /\ c \in r.load[t] THEN s.mem[c] ELSE s.reg[t][c]])])
              writers(c) == {t \in running : c \in r.store[t]} IN
          [reg |-> held,
           mem |-> Table([c \in p.cells |->
                     IF writers(c) = {} THEN s.mem[c]
                     ELSE Value(r, held[CHOOSE t \in writers(c) : TRUE], c)])]
        states == FoldLeft(LAMBDA done, r : Append(done, after(done[Len(done)], r)), <<start>>, p.rounds) IN
    Table([i \in 0 .. Len(p.rounds) |-> states[i + 1]])

LockStepTable == LET programs == ProgramTable IN Table([k \in DOMAIN programs |-> LockStepRun(programs[k])])
================================================================================
