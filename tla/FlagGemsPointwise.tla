--------------------------- MODULE FlagGemsPointwise ----------------------------
(***************************************************************************)
(* The FlagGems kernels that treat every element by itself: for each, the     *)
(* deterministic intent (intent_normalize.py), the arrays its reference      *)
(* returns (specs.py) and the outcome of comparing the two for the shapes of  *)
(* its entry in the table of specs.  What torch and FlagGems compute is       *)
(* external and written as its documentation defines it.                    *)
(***************************************************************************)
EXTENDS DiffRunner

LOCAL INSTANCE TLC
LOCAL INSTANCE SequencesExt

\* An intent of one op on matrices.
MatrixIntent(op, out, inputs) ==
    IntentFunction(Shaped({out} \cup Range(inputs), MN), <<OpOf(op, out, inputs)>>, <<out>>)

(***************************************************************************)
(* Two arrays, element by element.                                         *)
(***************************************************************************)
Binary(op_name, x, y) ==
    CASE op_name = "sub" -> Minus(x, y)
      [] op_name = "min" -> IF x <= y THEN x ELSE y
      [] op_name = "eq" -> Truth(x = y)
      [] op_name = "ne" -> Truth(x # y)
      [] op_name = "lt" -> Truth(x < y)
      [] op_name = "le" -> Truth(x <= y)
binary2d_reference(s, op_name) ==
    LET a == DrawIn("float", Matrix(s), 1, -2, 2)
        b == DrawIn("float", Matrix(s), 2, -2, 2)
        c(i) == Binary(op_name, At(a, i), At(b, i)) IN
    Named({"A", "a", "x"}, a) @@ Named({"B", "b", "y"}, b)
    @@ Named({"C", "out", "output"}, Filled(IF op_name \in {"sub", "min"} THEN "float" ELSE "bool", Matrix(s), c))

_canonical_sub2d_intent == MatrixIntent("sub", "out", <<"x", "y">>)
sub2d_reference(s) == binary2d_reference(s, "sub")
sub2d == Verdicts(MatrixCases, _canonical_sub2d_intent, sub2d_reference)

_canonical_minimum2d_intent ==
    IntentFunction(Shaped({"X", "Y", "Out"}, MN),
                   <<AsFloat("x_f32", "X"), AsFloat("y_f32", "Y"),
                     OpOf("min", "result_f32", <<"x_f32", "y_f32">>),
                     OpWith("cast", "Out", <<"result_f32">>, [to |-> "bf16"])>>, <<"Out">>)
minimum2d_reference(s) == binary2d_reference(s, "min")
minimum2d == Verdicts(MatrixCases, _canonical_minimum2d_intent, minimum2d_reference)

_canonical_eq2d_intent ==
    IntentFunction(Shaped({"x", "y", "out"}, MN),
                   <<AsFloat("x_f32", "x"), AsFloat("y_f32", "y"),
                     OpOf("eq", "out", <<"x_f32", "y_f32">>)>>, <<"out">>)
eq2d_reference(s) == binary2d_reference(s, "eq")
eq2d == Verdicts(MatrixCases, _canonical_eq2d_intent, eq2d_reference)

_canonical_ne2d_intent ==
    IntentFunction(Shaped({"x", "y", "output"}, MN),
                   <<AsFloat("x_f32", "x"), AsFloat("y_f32", "y"),
                     OpOf("ne", "output", <<"x_f32", "y_f32">>)>>, <<"output">>)
ne2d_reference(s) == binary2d_reference(s, "ne")
ne2d == Verdicts(MatrixCases, _canonical_ne2d_intent, ne2d_reference)

_canonical_lt2d_intent ==
    IntentFunction(Shaped({"x", "y", "out"}, MN),
                   <<AsFloat("cast_x", "x"), OpOf("lt", "out", <<"cast_x", "y">>)>>, <<"out">>)
lt2d_reference(s) == binary2d_reference(s, "lt")
lt2d == Verdicts(MatrixCases, _canonical_lt2d_intent, lt2d_reference)

_canonical_le2d_intent == MatrixIntent("le", "out", <<"A", "B">>)
le2d_reference(s) == binary2d_reference(s, "le")
le2d == Verdicts(MatrixCases, _canonical_le2d_intent, le2d_reference)

_canonical_remainder2d_intent == MatrixIntent("remainder", "out", <<"inp", "other">>)
remainder2d_reference(s) ==
    LET a == Draw(Matrix(s), 1)
        b == DrawIn("float", Matrix(s), 2, 1, 5)
        c(i) == CHOOSE r \in 0 .. At(b, i) - 1 : \E q \in -48 .. 48 : At(a, i) = q * At(b, i) + r IN
    Named({"A", "inp", "input"}, a) @@ Named({"B", "other"}, b) @@ Named({"out", "output"}, Filled("float", Matrix(s), c))
remainder2d == Verdicts(MatrixCases, _canonical_remainder2d_intent, remainder2d_reference)

\* Integers; what the ops do with their bits is not looked into.
bitwise_binary2d_reference(s, op_name) ==
    LET shift == op_name \in {"bitwise_left_shift", "bitwise_right_shift"}
        a == DrawIn("int", Matrix(s), 1, -7, 7)
        b == DrawIn("int", Matrix(s), 2, IF shift THEN 0 ELSE -7, IF shift THEN 3 ELSE 7) IN
    Named({"A", "input"}, a) @@ Named({"B", "other"}, b) @@ Named({"out", "output"}, Bitwise2(op_name, a, b))

_canonical_bitwise_and2d_intent == MatrixIntent("bitwise_and", "out", <<"A", "B">>)
bitwise_and2d_reference(s) == bitwise_binary2d_reference(s, "bitwise_and")
bitwise_and2d == Verdicts(MatrixCases, _canonical_bitwise_and2d_intent, bitwise_and2d_reference)

_canonical_bitwise_or2d_intent == MatrixIntent("bitwise_or", "out", <<"A", "B">>)
bitwise_or2d_reference(s) == bitwise_binary2d_reference(s, "bitwise_or")
bitwise_or2d == Verdicts(MatrixCases, _canonical_bitwise_or2d_intent, bitwise_or2d_reference)

_canonical_bitwise_left_shift2d_intent == MatrixIntent("bitwise_left_shift", "out", <<"A", "B">>)
bitwise_left_shift2d_reference(s) == bitwise_binary2d_reference(s, "bitwise_left_shift")
bitwise_left_shift2d == Verdicts(MatrixCases, _canonical_bitwise_left_shift2d_intent, bitwise_left_shift2d_reference)

_canonical_bitwise_right_shift2d_intent == MatrixIntent("bitwise_right_shift", "out", <<"A", "B">>)
bitwise_right_shift2d_reference(s) == bitwise_binary2d_reference(s, "bitwise_right_shift")
bitwise_right_shift2d == Verdicts(MatrixCases, _canonical_bitwise_right_shift2d_intent, bitwise_right_shift2d_reference)

_canonical_bitwise_not2d_intent == MatrixIntent("bitwise_not", "out", <<"inp">>)
bitwise_not2d_reference(s) ==
    LET inp == DrawIn("int", Matrix(s), 1, -7, 7)
        out(i) == -At(inp, i) - 1 IN
    Named({"A", "inp", "input"}, inp) @@ Named({"Out", "out", "output"}, Filled("int", Matrix(s), out))
bitwise_not2d == Verdicts(MatrixCases, _canonical_bitwise_not2d_intent, bitwise_not2d_reference)

(***************************************************************************)
(* One array, element by element.                                          *)
(***************************************************************************)
Unary2d(op_name, x) ==
    CASE op_name = "reciprocal" -> Over(1, x)
      [] op_name = "exp2" -> Exp(Times(x, Ln2))
      [] op_name = "sigmoid" -> Over(1, Plus(1, Exp(Residue(-x))))
      [] op_name = "silu" -> Over(x, Plus(1, Exp(Residue(-x))))
      [] op_name = "tanh" -> LET e == Exp(Times(2, x)) IN Minus(1, Over(2, Plus(e, 1)))
      [] OTHER -> UnaryOf(op_name, x)
unary2d_reference(s, op_name, positive_input) ==
    LET drawn == Draw(Matrix(s), 1)
        inp == IF positive_input THEN Positive(drawn) ELSE drawn
        out(i) == Unary2d(op_name, At(inp, i)) IN
    Named({"A", "inp", "input", "x"}, inp) @@ Named({"Out", "out", "output", "y"}, Filled("float", Matrix(s), out))

_canonical_reciprocal2d_intent ==
    IntentFunction(Shaped({"A", "out", "A_f32"}, MN) @@ [one |-> <<>>],
                   <<Const("one", 1), AsFloat("A_f32", "A"), OpOf("div", "out", <<"one", "A_f32">>)>>, <<"out">>)
reciprocal2d_reference(s) == unary2d_reference(s, "reciprocal", TRUE)
reciprocal2d == Verdicts(MatrixCases, _canonical_reciprocal2d_intent, reciprocal2d_reference)

_canonical_sqrt2d_intent == MatrixIntent("sqrt", "out", <<"A">>)
sqrt2d_reference(s) == unary2d_reference(s, "sqrt", TRUE)
sqrt2d == Verdicts(MatrixCases, _canonical_sqrt2d_intent, sqrt2d_reference)

_canonical_sigmoid2d_intent ==
    IntentFunction(Shaped({"x", "output"}, MN),
                   <<Const("one_const", 1), Const("neg_one_const", -1), OpOf("mul", "neg_x", <<"x", "neg_one_const">>),
                     OpOf("exp", "exp_neg_x", <<"neg_x">>), OpOf("add", "denominator", <<"one_const", "exp_neg_x">>),
                     OpOf("div", "output", <<"one_const", "denominator">>)>>, <<"output">>)
sigmoid2d_reference(s) == unary2d_reference(s, "sigmoid", FALSE)
sigmoid2d == Verdicts(MatrixCases, _canonical_sigmoid2d_intent, sigmoid2d_reference)

_canonical_silu2d_intent ==
    IntentFunction(Shaped({"x", "y"}, MN),
                   <<Const("one_const", 1), Const("neg_one_const", -1), OpOf("mul", "neg_x", <<"x", "neg_one_const">>),
                     OpOf("exp", "exp_neg_x", <<"neg_x">>), OpOf("add", "denominator", <<"one_const", "exp_neg_x">>),
                     OpOf("div", "sigma", <<"one_const", "denominator">>), OpOf("mul", "y", <<"x", "sigma">>)>>, <<"y">>)
silu2d_reference(s) == unary2d_reference(s, "silu", FALSE)
silu2d == Verdicts(MatrixCases, _canonical_silu2d_intent, silu2d_reference)

_canonical_tanh2d_intent ==
    IntentFunction(Shaped({"x", "out"}, MN),
                   <<Const("one_const", 1), Const("two_const", 2), OpOf("mul", "two_x", <<"two_const", "x">>),
                     OpOf("exp", "exp_two_x", <<"two_x">>), OpOf("sub", "numer", <<"exp_two_x", "one_const">>),
                     OpOf("add", "denom", <<"exp_two_x", "one_const">>), OpOf("div", "out", <<"numer", "denom">>)>>, <<"out">>)
tanh2d_reference(s) == unary2d_reference(s, "tanh", FALSE)
tanh2d == Verdicts(MatrixCases, _canonical_tanh2d_intent, tanh2d_reference)

_canonical_tan2d_intent == MatrixIntent("tan", "out", <<"A">>)
tan2d_reference(s) == unary2d_reference(s, "tan", FALSE)
tan2d == Verdicts(MatrixCases, _canonical_tan2d_intent, tan2d_reference)

_canonical_exp22d_intent ==
    IntentFunction(Shaped({"A", "scaled", "out"}, MN) @@ [ln2 |-> <<>>],
                   <<Const("ln2", Ln2), OpOf("mul", "scaled", <<"A", "ln2">>), OpOf("exp", "out", <<"scaled">>)>>, <<"out">>)
exp22d_reference(s) == unary2d_reference(s, "exp2", FALSE)
exp22d == Verdicts(MatrixCases, _canonical_exp22d_intent, exp22d_reference)

\* The references of other kernels: the arrays returned under the names of the input and of the output.
Mapping(s, inp, inputs, outputs, class, out(_)) ==
    LET at(i) == out(At(inp, i)) IN Named(inputs, inp) @@ Named(outputs, Filled(class, Matrix(s), at))
InOut == <<{"inp", "input"}, {"out", "output"}>>

_canonical_neg2d_intent ==
    IntentFunction(Shaped({"A", "out"}, MN) @@ [neg_one |-> <<>>],
                   <<Const("neg_one", -1), OpOf("mul", "out", <<"A", "neg_one">>)>>, <<"out">>)
neg2d_reference(s) ==
    LET out(x) == -x IN
    Mapping(s, Positive(Draw(Matrix(s), 1)), {"A", "inp", "input"}, {"Out", "out", "output"}, "float", out)
neg2d == Verdicts(MatrixCases, _canonical_neg2d_intent, neg2d_reference)

_canonical_softplus2d_intent ==
    IntentFunction(Shaped({"x", "out"}, MN) @@ Shaped({"beta", "threshold"}, <<>>),
                   <<Const("one_const", 1), OpOf("mul", "z", <<"x", "beta">>), OpOf("exp", "exp_z", <<"z">>),
                     OpOf("add", "exp_plus_one", <<"one_const", "exp_z">>), OpOf("log", "log_term", <<"exp_plus_one">>),
                     OpOf("gt", "gt_threshold", <<"z", "threshold">>),
                     OpOf("where", "soft_z", <<"gt_threshold", "z", "log_term">>),
                     OpOf("div", "out", <<"soft_z", "beta">>)>>, <<"out">>)
softplus2d_reference(s) ==
    LET soft(x) == LET z == Times(s.BETA, x) IN
                   IF z > s.THRESHOLD THEN x ELSE Over(Log(Plus(1, Exp(z))), s.BETA) IN
    Mapping(s, Draw(Matrix(s), 1), {"inp", "A", "input"}, {"out", "output"}, "float", soft)
    @@ [beta |-> Number(s.BETA), threshold |-> Number(s.THRESHOLD)]
softplus2d ==
    Verdicts([M : 1 .. 3, N : 1 .. 3, BETA : {1}, THRESHOLD : {20}], _canonical_softplus2d_intent, softplus2d_reference)

\* Numbers only: of -0 and NaN the angle differs (README).
_canonical_angle2d_intent ==
    IntentFunction(Shaped({"inp", "is_neg", "result"}, MN) @@ Shaped({"zero", "pi"}, <<>>),
                   <<Const("zero", 0), Const("pi", Pi), OpOf("lt", "is_neg", <<"inp", "zero">>),
                     OpOf("where", "result", <<"is_neg", "pi", "zero">>)>>, <<"result">>)
angle2d_reference(s) ==
    LET out(x) == IF x < 0 THEN Pi ELSE 0
        inp == Draw(Matrix(s), 1)
        none(x) == 0 IN
    Mapping(s, inp, {"A", "inp", "input", "real", "x"}, {"Out", "out", "output", "result", "y"}, "float", out)
    @@ [imag |-> Mapped("float", inp, none)]
angle2d == Verdicts(MatrixCases, _canonical_angle2d_intent, angle2d_reference)

_canonical_sin2d_intent == MatrixIntent("sin", "out", <<"A">>)
sin2d_reference(s) ==
    LET out(x) == Function1("sin", x) IN
    Mapping(s, Draw(Matrix(s), 1), {"inp", "A", "input"}, {"out", "output"}, "float", out)
sin2d == Verdicts(MatrixCases, _canonical_sin2d_intent, sin2d_reference)

_canonical_log2d_intent == MatrixIntent("log", "out", <<"inp">>)
log2d_reference(s) ==
    Mapping(s, Positive(Draw(Matrix(s), 1)), {"inp", "A", "input"}, {"out", "output"}, "float", Log)
log2d == Verdicts(MatrixCases, _canonical_log2d_intent, log2d_reference)

_canonical_rsqrt2d_intent ==
    IntentFunction(Shaped({"A", "out", "A_f32"}, MN), <<AsFloat("A_f32", "A"), OpOf("rsqrt", "out", <<"A_f32">>)>>, <<"out">>)
rsqrt2d_reference(s) ==
    LET out(x) == Over(Sqrt(x), x) IN
    Mapping(s, Mapped("float", Positive(Draw(Matrix(s), 1)), LAMBDA x : Times(x, x)),
            {"inp", "input"}, {"out", "output"}, "float", out)
rsqrt2d == Verdicts(MatrixCases, _canonical_rsqrt2d_intent, rsqrt2d_reference)

\* Both have alpha 1.
_canonical_elu2d_intent ==
    IntentFunction(Shaped({"x", "pos_mask", "exp_x", "neg_branch", "output"}, MN) @@ Shaped({"zero_const", "one_const"}, <<>>),
                   <<Const("zero_const", 0), Const("one_const", 1), OpOf("gt", "pos_mask", <<"x", "zero_const">>),
                     OpOf("exp", "exp_x", <<"x">>), OpOf("sub", "neg_branch", <<"exp_x", "one_const">>),
                     OpOf("where", "output", <<"pos_mask", "x", "neg_branch">>)>>, <<"output">>)
ExpLinear(x) == IF x <= 0 THEN Minus(Exp(x), 1) ELSE x
elu2d_reference(s) == Mapping(s, Draw(Matrix(s), 1), InOut[1], InOut[2], "float", ExpLinear)
elu2d == Verdicts(MatrixCases, _canonical_elu2d_intent, elu2d_reference)

_canonical_celu2d_intent == _canonical_elu2d_intent
celu2d_reference(s) == Mapping(s, Draw(Matrix(s), 2), InOut[1], InOut[2], "float", ExpLinear)
celu2d == Verdicts(MatrixCases, _canonical_celu2d_intent, celu2d_reference)

_canonical_log_sigmoid2d_intent ==
    IntentFunction(Shaped({"inp", "out"}, MN),
                   <<OpOf("abs", "abs_inp", <<"inp">>), Const("neg_one", -1), OpOf("mul", "neg_abs", <<"abs_inp", "neg_one">>),
                     OpOf("exp", "exp_neg_abs", <<"neg_abs">>), Const("one", 1),
                     OpOf("add", "one_plus_exp", <<"exp_neg_abs", "one">>),
                     OpOf("log", "log_one_plus_exp", <<"one_plus_exp">>), Const("zero", 0),
                     OpOf("min", "min_inp_zero", <<"inp", "zero">>),
                     OpOf("sub", "out", <<"min_inp_zero", "log_one_plus_exp">>)>>, <<"out">>)
log_sigmoid2d_reference(s) ==
    LET soft(x) == Log(Plus(1, Exp(x)))
        out(x) == IF x < 0 THEN Minus(x, soft(x)) ELSE Residue(-soft(-x)) IN
    Mapping(s, Draw(Matrix(s), 1), InOut[1], InOut[2], "float", out)
log_sigmoid2d == Verdicts(MatrixCases, _canonical_log_sigmoid2d_intent, log_sigmoid2d_reference)

(***************************************************************************)
(* Kinds of numbers.  The first elements are made NaN and infinite.          *)
(***************************************************************************)
Special(t, numbers) == [t EXCEPT !.at = [l \in DOMAIN @ |-> IF l + 1 \in DOMAIN numbers THEN numbers[l + 1] ELSE @[l]]]

_canonical_isnan2d_intent == MatrixIntent("ne", "output", <<"inp", "inp">>)
isnan2d_reference(s) ==
    LET out(x) == Truth(x = NaN) IN Mapping(s, Special(Draw(Matrix(s), 1), <<NaN>>), InOut[1], InOut[2], "bool", out)
isnan2d == Verdicts(MatrixCases, _canonical_isnan2d_intent, isnan2d_reference)

_canonical_isinf2d_intent ==
    IntentFunction(Shaped({"inp", "output"}, MN),
                   <<OpOf("abs", "abs_inp", <<"inp">>), Const("finite_max", FiniteMax),
                     OpOf("gt", "output", <<"abs_inp", "finite_max">>)>>, <<"output">>)
isinf2d_reference(s) ==
    LET out(x) == Truth(x \in {Infinity, -Infinity}) IN
    Mapping(s, Special(Draw(Matrix(s), 1), <<Infinity, -Infinity>>), InOut[1], InOut[2], "bool", out)
isinf2d == Verdicts(MatrixCases, _canonical_isinf2d_intent, isinf2d_reference)

_canonical_isfinite2d_intent ==
    IntentFunction(Shaped({"inp", "output"}, MN),
                   <<OpOf("abs", "abs_inp", <<"inp">>), Const("finite_max", FiniteMax),
                     OpOf("le", "output", <<"abs_inp", "finite_max">>)>>, <<"output">>)
isfinite2d_reference(s) ==
    LET out(x) == Truth(~Nonfinite(x)) IN
    Mapping(s, Special(Draw(Matrix(s), 1), <<NaN, Infinity, -Infinity>>), InOut[1], InOut[2], "bool", out)
isfinite2d == Verdicts(MatrixCases, _canonical_isfinite2d_intent, isfinite2d_reference)

_canonical_nan_to_num2d_intent ==
    IntentFunction(Shaped({"A", "out"}, MN),
                   <<OpOf("abs", "abs_a", <<"A">>), Const("finite_max", FiniteMax),
                     OpOf("gt", "is_inf", <<"abs_a", "finite_max">>), OpOf("ne", "is_nan", <<"A", "A">>),
                     Const("zero_const", 0), Const("posinf_const", 9), Const("neginf_const", -9),
                     OpOf("ge", "is_nonnegative", <<"A", "zero_const">>),
                     OpOf("where", "inf_repl", <<"is_nonnegative", "posinf_const", "neginf_const">>),
                     OpOf("where", "no_inf", <<"is_inf", "inf_repl", "A">>),
                     OpOf("where", "out", <<"is_nan", "zero_const", "no_inf">>)>>, <<"out">>)
nan_to_num2d_reference(s) ==
    LET x(l, drawn) == IF l % 11 = 2 THEN -Infinity ELSE IF l % 7 = 1 THEN Infinity ELSE IF l % 5 = 0 THEN NaN ELSE drawn
        drawn == Draw(Matrix(s), 1)
        a == [drawn EXCEPT !.at = [l \in DOMAIN @ |-> x(l, @[l])]]
        out(v) == CASE v = NaN -> s.nan [] v = Infinity -> s.posinf [] v = -Infinity -> s.neginf [] OTHER -> v IN
    Mapping(s, a, {"A", "inp"}, {"out", "output"}, "float", out)
    @@ [nan |-> Number(s.nan), posinf |-> Number(s.posinf), neginf |-> Number(s.neginf)]
nan_to_num2d ==
    Verdicts([M : 1 .. 3, N : 1 .. 3, nan : {0}, posinf : {9}, neginf : {-9}],
             _canonical_nan_to_num2d_intent, nan_to_num2d_reference)

(***************************************************************************)
(* Closeness of finite numbers, b within atol + rtol |b| of a (of infinite    *)
(* ones the intents differ from torch, README).                            *)
(***************************************************************************)
CloseTensors == Shaped({"A", "B"}, MN) @@ Shaped({"rtol", "atol"}, <<>>)
CloseOps(close) ==
    <<OpOf("sub", "diff", <<"A", "B">>), OpOf("abs", "abs_diff", <<"diff">>), OpOf("abs", "abs_b", <<"B">>),
      OpOf("mul", "rtol_term", <<"rtol", "abs_b">>), OpOf("add", "tol", <<"atol", "rtol_term">>),
      OpOf("le", close, <<"abs_diff", "tol">>)>>
_canonical_isclose2d_intent == IntentFunction(CloseTensors @@ [out |-> MN], CloseOps("out"), <<"out">>)
CloseTo(a, b, i, atol, rtol) == Magnitude(At(a, i) - At(b, i)) <= atol + rtol * Magnitude(At(b, i))
\* b is up to 3 away from a, which is not always close.
CloseOperands(s, k) ==
    LET a == DrawIn("float", Matrix(s), k, -4, 4)
        b == Arithmetic2("add", a, DrawIn("float", Matrix(s), k + 1, -3, 1)) IN <<a, b, 1, 1>>
isclose2d_reference(s) ==
    LET x == CloseOperands(s, 1)
        out(i) == Truth(CloseTo(x[1], x[2], i, x[3], x[4])) IN
    Named({"A", "input"}, x[1]) @@ Named({"B", "other"}, x[2]) @@ [rtol |-> Number(x[4]), atol |-> Number(x[3])]
    @@ Named({"out", "output"}, Filled("bool", Matrix(s), out))
isclose2d == Verdicts(MatrixCases, _canonical_isclose2d_intent, isclose2d_reference)

_canonical_allclose2d_intent ==
    IntentFunction(CloseTensors @@ [output |-> <<>>],
                   CloseOps("close_mask")
                   \o <<OpOf("not", "not_close", <<"close_mask">>),
                        OpWith("reduce_any", "any_not_close", <<"not_close">>, [dims |-> <<0, 1>>]),
                        OpOf("not", "output", <<"any_not_close">>)>>, <<"output">>)
allclose2d_reference(s) ==
    LET x == CloseOperands(s, s.M + s.N)
        all == \A i \in Indices(Matrix(s)) : CloseTo(x[1], x[2], i, x[3], x[4]) IN
    [A |-> x[1], B |-> x[2], rtol |-> Number(x[4]), atol |-> Number(x[3])]
    @@ Named({"out", "result", "output"}, ScalarOf("bool", Truth(all)))
allclose2d == Verdicts(MatrixCases, _canonical_allclose2d_intent, allclose2d_reference)

(***************************************************************************)
(* Truth values.                                                           *)
(***************************************************************************)
logical_binary2d_reference(s, op_name) ==
    LET a == DrawIn("bool", Matrix(s), 1, 0, 1)
        b == DrawIn("bool", Matrix(s), 2, 0, 1)
        c(i) == Truth(CASE op_name = "logical_and" -> At(a, i) = 1 /\ At(b, i) = 1
                        [] op_name = "logical_or" -> At(a, i) = 1 \/ At(b, i) = 1
                        [] op_name = "logical_xor" -> At(a, i) # At(b, i)) IN
    Named({"A", "a", "x"}, a) @@ Named({"B", "b", "y"}, b) @@ Named({"C", "out", "output"}, Filled("bool", Matrix(s), c))

_canonical_logical_and2d_intent == MatrixIntent("and", "out", <<"A", "B">>)
logical_and2d_reference(s) == logical_binary2d_reference(s, "logical_and")
logical_and2d == Verdicts(MatrixCases, _canonical_logical_and2d_intent, logical_and2d_reference)

_canonical_logical_or2d_intent ==
    IntentFunction(Shaped({"A", "B", "Out", "a_i1", "b_i1"}, MN),
                   <<OpWith("cast", "a_i1", <<"A">>, [to |-> "i1"]), OpWith("cast", "b_i1", <<"B">>, [to |-> "i1"]),
                     OpOf("max", "Out", <<"a_i1", "b_i1">>)>>, <<"Out">>)
logical_or2d_reference(s) == logical_binary2d_reference(s, "logical_or")
logical_or2d == Verdicts(MatrixCases, _canonical_logical_or2d_intent, logical_or2d_reference)

_canonical_logical_xor2d_intent ==
    IntentFunction(Shaped({"A", "B", "Out", "a_bool", "b_bool"}, MN),
                   <<OpWith("cast", "a_bool", <<"A">>, [to |-> "i1"]), OpWith("cast", "b_bool", <<"B">>, [to |-> "i1"]),
                     OpOf("ne", "Out", <<"a_bool", "b_bool">>)>>, <<"Out">>)
logical_xor2d_reference(s) == logical_binary2d_reference(s, "logical_xor")
logical_xor2d == Verdicts(MatrixCases, _canonical_logical_xor2d_intent, logical_xor2d_reference)

_canonical_logical_not2d_intent == MatrixIntent("not", "out", <<"inp">>)
logical_not2d_reference(s) ==
    LET out(x) == 1 - x IN
    Mapping(s, DrawIn("bool", Matrix(s), 1, 0, 1), {"A", "inp", "input"}, {"Out", "out", "output"}, "bool", out)
logical_not2d == Verdicts(MatrixCases, _canonical_logical_not2d_intent, logical_not2d_reference)

(***************************************************************************)
(* Choices between numbers.  Constants of a half are 5 here: halves of        *)
(* residues are not ordered like halves.                                    *)
(***************************************************************************)
_canonical_where2d_intent == MatrixIntent("where", "out", <<"condition", "self", "other">>)
where2d_reference(s) ==
    LET a == Draw(Matrix(s), 1)
        b == Draw(Matrix(s), 2)
        cond(i) == Truth(At(a, i) > At(b, i))
        c(i) == IF At(a, i) > At(b, i) THEN At(a, i) ELSE At(b, i) IN
    Named({"A", "self", "a"}, a) @@ Named({"B", "other", "b"}, b) @@ Named({"cond", "condition"}, Filled("bool", Matrix(s), cond))
    @@ Named({"C", "out", "output"}, Filled("float", Matrix(s), c))
\* The shapes of this kernel are never varied.
where2d == Verdicts({[M |-> 2, N |-> 3]}, _canonical_where2d_intent, where2d_reference)

_canonical_masked_fill2d_intent ==
    IntentFunction(Shaped({"inp", "mask", "output"}, MN) @@ [value |-> <<>>],
                   <<OpOf("where", "output", <<"mask", "value", "inp">>)>>, <<"output">>)
masked_fill2d_reference(s) ==
    LET inp == Draw(Matrix(s), 1)
        mask == DrawIn("bool", Matrix(s), 2, 0, 1)
        value == Over(1, 4)
        out(i) == IF At(mask, i) = 1 THEN value ELSE At(inp, i) IN
    Named({"inp", "input"}, inp) @@ [mask |-> mask, value |-> Number(value)]
    @@ Named({"out", "output"}, Filled("float", Matrix(s), out))
masked_fill2d == Verdicts(MatrixCases, _canonical_masked_fill2d_intent, masked_fill2d_reference)

_canonical_threshold2d_intent ==
    IntentFunction(Shaped({"inp", "output"}, MN) @@ Shaped({"threshold", "value"}, <<>>),
                   <<OpOf("gt", "keep_mask", <<"inp", "threshold">>),
                     OpOf("where", "output", <<"keep_mask", "inp", "value">>)>>, <<"output">>)
threshold2d_reference(s) ==
    LET out(x) == IF x <= 0 THEN -5 ELSE x IN
    Mapping(s, DrawIn("float", Matrix(s), 1, -3, 3), InOut[1], InOut[2], "float", out)
    @@ [threshold |-> Number(0), value |-> Number(-5)]
threshold2d == Verdicts(MatrixCases, _canonical_threshold2d_intent, threshold2d_reference)

_canonical_clamp2d_intent ==
    IntentFunction(Shaped({"x", "out"}, MN) @@ Shaped({"mini", "maxi"}, <<>>),
                   <<AsFloat("x_f32", "x"), OpOf("max", "clamped_min", <<"mini", "x_f32">>),
                     OpOf("min", "out", <<"clamped_min", "maxi">>)>>, <<"out">>)
clamp2d_reference(s) ==
    LET out(x) == CASE x < -5 -> -5 [] x > 5 -> 5 [] OTHER -> x IN
    Mapping(s, DrawIn("float", Matrix(s), 1, -9, 9), {"inp", "input", "x"}, {"out", "output"}, "float", out)
    @@ Named({"lo", "mini"}, Number(-5)) @@ Named({"hi", "maxi"}, Number(5))
clamp2d == Verdicts(MatrixCases, _canonical_clamp2d_intent, clamp2d_reference)

_canonical_lerp2d_intent ==
    IntentFunction(Shaped({"A", "B", "C"}, MN) @@ [W |-> <<>>],
                   <<OpOf("sub", "delta", <<"B", "A">>), OpOf("mul", "scaled_delta", <<"W", "delta">>),
                     OpOf("add", "C", <<"A", "scaled_delta">>)>>, <<"C">>)
lerp2d_reference(s) ==
    LET a == Draw(Matrix(s), 1)
        b == Draw(Matrix(s), 2)
        w == Over(1, 3)
        c(i) == Plus(Times(Minus(1, w), At(a, i)), Times(w, At(b, i))) IN
    Named({"A", "input"}, a) @@ Named({"B", "end"}, b) @@ Named({"W", "weight"}, Number(w))
    @@ Named({"C", "out", "output"}, Filled("float", Matrix(s), c))
lerp2d == Verdicts(MatrixCases, _canonical_lerp2d_intent, lerp2d_reference)

_canonical_cast2d_intent == IntentFunction(Shaped({"x", "out"}, MN), <<AsFloat("out", "x")>>, <<"out">>)
cast2d_reference(s) ==
    LET out(x) == x IN
    Mapping(s, Draw(Matrix(s), 1), {"A", "inp", "input"}, {"Out", "out", "output"}, "float", out)
cast2d == Verdicts(MatrixCases, _canonical_cast2d_intent, cast2d_reference)

(***************************************************************************)
(* Powers; the exponent is a number or an array.                            *)
(***************************************************************************)
SquareCases == [M : 1 .. 3, N : 1 .. 3, EXP : {2}]
_canonical_pow_scalar2d_intent ==
    IntentFunction(Shaped({"inp", "out"}, MN) @@ [exponent |-> <<>>],
                   <<OpWith("broadcast_in_dim", "exp_bcast", <<"exponent">>, [out_shape |-> MN, broadcast_dims |-> <<>>]),
                     OpOf("pow", "out", <<"inp", "exp_bcast">>)>>, <<"out">>)
pow_scalar2d_reference(s) ==
    LET out(x) == Function2("pow", x, s.EXP) IN
    Mapping(s, Positive(Draw(Matrix(s), 1)), {"inp", "A", "input"}, {"out", "output"}, "float", out)
    @@ [exponent |-> Number(s.EXP)]
pow_scalar2d == Verdicts(SquareCases, _canonical_pow_scalar2d_intent, pow_scalar2d_reference)

_canonical_pow_tensor_scalar2d_intent ==
    IntentFunction(Shaped({"X", "Out", "x_f32", "exp_bcast"}, MN) @@ Shaped({"exponent", "exp_f32"}, <<>>),
                   <<AsFloat("x_f32", "X"), AsFloat("exp_f32", "exponent"),
                     OpWith("broadcast_in_dim", "exp_bcast", <<"exp_f32">>, [out_shape |-> MN, broadcast_dims |-> <<>>]),
                     OpOf("pow", "Out", <<"x_f32", "exp_bcast">>)>>, <<"Out">>)
pow_tensor_scalar2d_reference(s) ==
    LET out(x) == Function2("pow", x, s.EXP) IN
    Mapping(s, Positive(Draw(Matrix(s), 2)), {"A", "inp", "input"}, {"out", "output"}, "float", out)
    @@ [exponent |-> Number(s.EXP)]
pow_tensor_scalar2d == Verdicts(SquareCases, _canonical_pow_tensor_scalar2d_intent, pow_tensor_scalar2d_reference)

_canonical_pow_tensor_tensor2d_intent ==
    IntentFunction(Shaped({"x", "exponent", "output", "cast_x", "cast_exponent", "pow_op"}, MN),
                   <<AsFloat("cast_x", "x"), AsFloat("cast_exponent", "exponent"),
                     OpOf("pow", "pow_op", <<"cast_x", "cast_exponent">>), OpOf("identity", "output", <<"pow_op">>)>>,
                   <<"output">>)
pow_tensor_tensor2d_reference(s) ==
    LET a == Positive(Draw(Matrix(s), 1))
        exponent == DrawIn("float", Matrix(s), 2, 1, 3)
        out(i) == Function2("pow", At(a, i), At(exponent, i)) IN
    Named({"A", "inp", "input"}, a) @@ Named({"exponent", "other"}, exponent)
    @@ Named({"out", "output"}, Filled("float", Matrix(s), out))
pow_tensor_tensor2d == Verdicts(MatrixCases, _canonical_pow_tensor_tensor2d_intent, pow_tensor_tensor2d_reference)

\* The outcomes, spec by spec.
PointwiseVerdicts ==
    [sub2d |-> sub2d, minimum2d |-> minimum2d, eq2d |-> eq2d, ne2d |-> ne2d, lt2d |-> lt2d, le2d |-> le2d,
     remainder2d |-> remainder2d, bitwise_and2d |-> bitwise_and2d, bitwise_or2d |-> bitwise_or2d,
     bitwise_left_shift2d |-> bitwise_left_shift2d, bitwise_right_shift2d |-> bitwise_right_shift2d,
     bitwise_not2d |-> bitwise_not2d, reciprocal2d |-> reciprocal2d, sqrt2d |-> sqrt2d, sigmoid2d |-> sigmoid2d,
     silu2d |-> silu2d, tanh2d |-> tanh2d, tan2d |-> tan2d, exp22d |-> exp22d, neg2d |-> neg2d,
     softplus2d |-> softplus2d, angle2d |-> angle2d, sin2d |-> sin2d, log2d |-> log2d, rsqrt2d |-> rsqrt2d,
     elu2d |-> elu2d, celu2d |-> celu2d, log_sigmoid2d |-> log_sigmoid2d, isnan2d |-> isnan2d, isinf2d |-> isinf2d,
     isfinite2d |-> isfinite2d, nan_to_num2d |-> nan_to_num2d, isclose2d |-> isclose2d, allclose2d |-> allclose2d,
     logical_and2d |-> logical_and2d, logical_or2d |-> logical_or2d, logical_xor2d |-> logical_xor2d,
     logical_not2d |-> logical_not2d, where2d |-> where2d, masked_fill2d |-> masked_fill2d,
     threshold2d |-> threshold2d, clamp2d |-> clamp2d, lerp2d |-> lerp2d, cast2d |-> cast2d,
     pow_scalar2d |-> pow_scalar2d, pow_tensor_scalar2d |-> pow_tensor_scalar2d,
     pow_tensor_tensor2d |-> pow_tensor_tensor2d]
=================================================================================
