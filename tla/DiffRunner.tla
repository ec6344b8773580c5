------------------------------ MODULE DiffRunner -------------------------------
(***************************************************************************)
(* Running an intent against its reference.  First what the reference       *)
(* interpreter (verify/interpreter.py) makes of a whole intent: numbers,      *)
(* arrays, the ops on them and execute_intent; the places the ops move,       *)
(* gather and reduce are those of InterpreterTensors.  Then run_diff          *)
(* (verify/diff_runner.py) on one case: the names an intent uses are looked   *)
(* up among the arrays a reference exports, missing extents are derived,      *)
(* inputs are checked against their declared shapes, the intent is executed   *)
(* and its outputs are compared.                                             *)
(*                                                                         *)
(* A float is a residue modulo a prime, so that two expressions that are      *)
(* equal as fractions are equal here and others differ at most places; it is *)
(* written with a sign, and ordered as it is written.  Functions such as exp  *)
(* are fixed but arbitrary functions of residues.                          *)
(***************************************************************************)
EXTENDS InterpreterTensors

LOCAL INSTANCE TLC
LOCAL INSTANCE SequencesExt
LOCAL INSTANCE FiniteSetsExt

Prime == 97
Residue(x) == ((x + 48) % Prime) - 48
FiniteMax == 900
Infinity == 1000
NaN == 2000
Known(numbers, x) == IF Range(numbers) \subseteq -48 .. 48 THEN Residue(x) ELSE NaN

Plus(x, y) == Known(<<x, y>>, x + y)
Minus(x, y) == Known(<<x, y>>, x - y)
Times(x, y) == Known(<<x, y>>, x * y)
Over(x, y) == IF y = 0 \/ ~({x, y} \subseteq -48 .. 48) THEN NaN ELSE CHOOSE q \in -48 .. 48 : Residue(q * y) = x

\* Functions of which nothing is known but that they are functions.
Functions1 == <<"exp", "log", "sin", "cos", "tan", "acos", "atan", "erf", "sqrt", "floor", "ceil">>
Function1(name, x) ==
    LET k == CHOOSE i \in DOMAIN Functions1 : Functions1[i] = name IN
    Known(<<x>>, (k + 2) * x * x * x + (5 * k + 1) * x + 7 * k + 3)
Function2(name, x, y) ==
    LET k == IF name = "pow" THEN 5 ELSE 11 IN Known(<<x, y>>, k * x * x + (k + 1) * x * y + 3 * y + k)
Exp(x) == Function1("exp", x)
Log(x) == Function1("log", x)
\* The root of a square is exact.
Sqrt(x) ==
    IF \E s \in 0 .. 48 : Residue(s * s) = x THEN CHOOSE s \in 0 .. 48 : Residue(s * s) = x
    ELSE Function1("sqrt", x)
Ln2 == 31
Pi == 37

(***************************************************************************)
(* An array: its class of numbers (bool, int or float), its shape and its     *)
(* elements row-major.  An op that raises leaves Raised.                     *)
(***************************************************************************)
Tensor(class, shape, at) == [class |-> class, shape |-> shape, at |-> at @@ <<>>]
ScalarOf(class, x) == Tensor(class, <<>>, [l \in {0} |-> x])
Raised == [class |-> "raised", shape |-> <<>>, at |-> [l \in {0} |-> NaN]]

Classes == <<"bool", "int", "float", "raised">>
ClassRank(class) == CHOOSE r \in DOMAIN Classes : Classes[r] = class
Wider(ts) == LET Ranks == {ClassRank(ts[i].class) : i \in DOMAIN ts} IN Classes[Max(Ranks)]
Class(dtype) == CASE dtype \in {"f16", "bf16", "f32"} -> "float"
                  [] dtype \in {"i8", "i16", "i32", "i64", "u8"} -> "int"
                  [] dtype \in {"bool", "i1"} -> "bool"

As(class, x) == CASE class = "bool" -> Truth(x # 0)
                  [] class = "float" /\ x \notin {NaN, Infinity, -Infinity, FiniteMax, -FiniteMax} -> Residue(x)
                  [] OTHER -> x
Cast(t, class) == Tensor(class, t.shape, [l \in DOMAIN t.at |-> As(class, t.at[l])])

\* numpy's broadcasting of shapes; of arrays, the elements at index o of the common shape.
Leading(shape, rank) == [d \in 1 .. rank - Len(shape) |-> 1] \o shape
Rank2(s, t) == Max({Len(s), Len(t)})
Compatible(s, t) ==
    \A d \in 1 .. Rank2(s, t) : LET Pair2 == {Leading(s, Rank2(s, t))[d], Leading(t, Rank2(s, t))[d]} IN
                                1 \in Pair2 \/ Cardinality(Pair2) = 1
BroadcastShape(s, t) ==
    [d \in 1 .. Rank2(s, t) |-> LET x == Leading(s, Rank2(s, t))[d] IN IF x = 1 THEN Leading(t, Rank2(s, t))[d] ELSE x]
ElementAt(t, o) == t.at[Spread("x", o, Leading(t.shape, Len(o)))[2]]
Everywhere(class, ts, f(_)) ==
    LET common == FoldLeft(LAMBDA s, t : BroadcastShape(s, t.shape), <<>>, ts)
        at(o) == f([i \in DOMAIN ts |-> ElementAt(ts[i], o)]) IN
    IF Wider(ts) = "raised" \/ \E i, j \in DOMAIN ts : ~Compatible(ts[i].shape, ts[j].shape) THEN Raised
    ELSE Tensor(class, common, RowMajor(common, at))
Mapped(class, t, f(_)) == IF t.class = "raised" THEN Raised ELSE Tensor(class, t.shape, [l \in DOMAIN t.at |-> f(t.at[l])])

\* Arrays made of places: one place each, or the sum, of an array's elements.
Taken(t, shape, places) == Tensor(t.class, shape, [l \in DOMAIN places |-> t.at[(CHOOSE c \in places[l] : TRUE)[2]]])
SumOf(items, x(_)) == FoldSet(LAMBDA c, sum : sum + x(c), 0, items)
FloatSum(items, x(_)) ==
    IF \E c \in items : x(c) = NaN THEN NaN ELSE Residue(SumOf(items, x))

(***************************************************************************)
(* Numbers two by two.                                                     *)
(***************************************************************************)
NUM_BIN_OPS == {"add", "sub", "mul", "div", "max", "min", "remainder", "pow"}
NumOf(op, class, x, y) ==
    CASE op = "max" -> IF NaN \in {x, y} THEN NaN ELSE Max({x, y})
      [] op = "min" -> IF NaN \in {x, y} THEN NaN ELSE Min({x, y})
      [] op = "div" -> Over(x, y)
      [] op = "remainder" -> IF y = 0 THEN NaN ELSE Elementwise("remainder", x, y)
      [] op = "pow" -> Function2("pow", x, y)
      [] OTHER -> LET exact == CASE op = "add" -> x + y [] op = "sub" -> x - y [] op = "mul" -> x * y IN
                  IF class = "float" THEN Known(<<x, y>>, exact) ELSE exact
Arithmetic2(op, a, b) ==
    LET class == IF op \in {"div", "pow"} THEN "float" ELSE Wider(<<a, b>>)
        at(x) == NumOf(op, class, x[1], x[2]) IN
    Everywhere(class, <<a, b>>, at)

CMP_BIN_OPS == {"ne", "eq", "lt", "le", "gt", "ge"}
Comparison(op, a, b) ==
    LET at(x) == IF NaN \in Range(x) THEN Truth(op = "ne") ELSE Elementwise(op, x[1], x[2]) IN
    Everywhere("bool", <<a, b>>, at)

BOOL_BIN_OPS == {"and", "or"}
Connective(op, a, b) == LET at(x) == Elementwise(op, x[1], x[2]) IN Everywhere("bool", <<a, b>>, at)
Negation(a) == LET at(x) == Truth(x = 0) IN Mapped("bool", a, at)

BITWISE_BIN_OPS == <<"bitwise_and", "bitwise_or", "bitwise_left_shift", "bitwise_right_shift">>
Bitwise2(op, a, b) ==
    LET k == CHOOSE i \in DOMAIN BITWISE_BIN_OPS : BITWISE_BIN_OPS[i] = op
        at(x) == k * x[1] * x[1] + 3 * x[1] * x[2] + k * x[2] IN
    Everywhere("int", <<a, b>>, at)
Bitwise1(a) == LET at(x) == -x - 1 IN Mapped("int", a, at)

NUM_UNARY_OPS == {"relu", "exp", "tanh", "rsqrt", "abs", "floor", "ceil", "sqrt", "neg", "log", "sin", "cos", "acos",
                  "atan", "angle", "tan", "erf"}
Tanh(x) == LET y == Exp(Times(2, x)) IN Over(Minus(y, 1), Plus(y, 1))
Sigmoid(x) == Over(1, Plus(1, Exp(Residue(-x))))
UnaryOf(op, x) ==
    CASE op = "relu" -> IF x = NaN THEN NaN ELSE Max({x, 0})
      [] op = "abs" -> IF x = NaN THEN NaN ELSE IF x < 0 THEN -x ELSE x
      [] op = "neg" -> -x
      [] op = "tanh" -> Tanh(x)
      [] op = "sqrt" -> IF x = NaN THEN NaN ELSE Sqrt(x)
      [] op = "rsqrt" -> IF x = NaN THEN NaN ELSE Over(1, Sqrt(x))
      [] op = "angle" -> IF x < 0 THEN Pi ELSE 0
      [] OTHER -> Function1(op, x)
Unary(op, a) == LET at(x) == UnaryOf(op, x) IN Mapped(IF op \in {"abs", "relu", "neg"} THEN a.class ELSE "float", a, at)

WhereOf(c, a, b) == LET at(x) == IF x[1] # 0 THEN x[2] ELSE x[3] IN Everywhere(Wider(<<a, b>>), <<c, a, b>>, at)

(***************************************************************************)
(* Reductions over axes, and along one axis.                               *)
(***************************************************************************)
FoldOf(items, x(_), op(_, _)) ==
    LET first == CHOOSE c \in items : TRUE IN
    IF \E c \in items : x(c) = NaN THEN NaN
    ELSE FoldSet(LAMBDA c, kept : op(kept, x(c)), x(first), items \ {first})
TimesOf(class, x, y) == IF class = "float" THEN Times(x, y) ELSE x * y

Reduction(op, t, dims, keepdims, correction) ==
    LET held(c) == t.at[c[2]]
        larger(x, y) == Max({x, y})
        smaller(x, y) == Min({x, y})
        times(x, y) == TimesOf(t.class, x, y)
        sum(items) == IF t.class = "float" THEN FloatSum(items, held) ELSE SumOf(items, held)
        mean(items) == Over(sum(items), Cardinality(items))
        var(items) == LET away(c) == LET d == Minus(held(c), mean(items)) IN Times(d, d) IN
                      Over(FloatSum(items, away), Cardinality(items) - correction)
        of(items) == CASE op = "reduce_sum" -> sum(items)
                       [] op = "reduce_any" -> Truth(\E c \in items : held(c) # 0)
                       [] op = "reduce_all" -> Truth(\A c \in items : held(c) # 0)
                       [] op = "reduce_max" -> FoldOf(items, held, larger)
                       [] op = "reduce_min" -> FoldOf(items, held, smaller)
                       [] op = "reduce_prod" -> FoldOf(items, held, times)
                       [] op = "mean" -> mean(items)
                       [] op = "var" -> var(items)
                       [] op = "std" -> LET v == var(items) IN IF v = NaN THEN NaN ELSE Sqrt(v)
        class == CASE op \in {"reduce_any", "reduce_all"} -> "bool"
                   [] op \in {"mean", "var", "std"} -> "float"
                   [] op \in {"reduce_sum", "reduce_prod"} /\ t.class = "bool" -> "int"
                   [] OTHER -> t.class
        places == Reduce(t.shape, dims, keepdims) IN
    Tensor(class, ReducedShape(t.shape, dims, keepdims), [l \in DOMAIN places |-> of(places[l])])

\* The first place of the greatest or least value of a line of the last axis.
ArgOf(op, t) ==
    LET rank == Len(t.shape)
        line(o) == [i \in 1 .. t.shape[rank] |-> t.at[Flat(o \o <<i - 1>>, t.shape)]]
        at(o) == (IF op = "argmax" THEN ArgMax(line(o)) ELSE ArgMin(line(o))) - 1
        kept == SubSeq(t.shape, 1, rank - 1) IN
    Tensor("int", kept, RowMajor(kept, at))

Running(op, t, axis) ==
    LET held(c) == t.at[c[2]]
        larger(x, y) == Max({x, y})
        smaller(x, y) == Min({x, y})
        of(items) == CASE op = "cumsum" -> (IF t.class = "float" THEN FloatSum(items, held) ELSE SumOf(items, held))
                       [] op = "cummax" -> FoldOf(items, held, larger)
                       [] op = "cummin" -> FoldOf(items, held, smaller)
        places == Accumulate(t.shape, axis + 1) IN
    Tensor(t.class, t.shape, [l \in DOMAIN places |-> of(places[l])])

SoftmaxOf(t, axis) ==
    LET held(c) == t.at[c[2]]
        larger(x, y) == Max({x, y})
        places == SoftmaxAlong(t.shape, axis + 1)
        of(c) == LET line == c[3]
                     top == FoldOf(line, held, larger)
                     e(d) == Exp(Minus(held(d), top)) IN
                 Over(e(c[2]), FloatSum(line, e)) IN
    Tensor("float", t.shape, [l \in DOMAIN places |-> of(CHOOSE c \in places[l] : TRUE)])

SortOf(t, descending) ==
    LET rank == Len(t.shape)
        line(o) == Sorted([i \in 1 .. t.shape[rank] |-> t.at[Flat([o EXCEPT ![rank] = i - 1], t.shape)]], descending)
        at(o) == line(o)[o[rank] + 1] IN
    Tensor(t.class, t.shape, RowMajor(t.shape, at))

QuantileOf(t, q) ==
    LET part == CHOOSE f \in {<<0, 1>>, <<1, 2>>, <<1, 1>>} : Over(f[1], f[2]) = q
        row(o) == [i \in 1 .. t.shape[2] |-> t.at[Flat(o \o <<i - 1>>, t.shape)]]
        at(o) == Over(Residue(Quantile(row(o), part[1], part[2])), part[2]) IN
    Tensor("float", <<t.shape[1]>>, RowMajor(<<t.shape[1]>>, at))

(***************************************************************************)
(* Moving, joining and writing elements.                                    *)
(***************************************************************************)
ReshapeOf(t, shape) == IF Size(shape) = Size(t.shape) THEN [t EXCEPT !.shape = shape] ELSE Raised
BroadcastTo(t, shape, dims) == Taken(t, shape, BroadcastInDim(t.shape, shape, dims))
PartOf(ts, shape, places, first) ==
    Tensor(Wider(ts), shape,
           [l \in DOMAIN places |-> LET c == CHOOSE d \in places[l] : TRUE IN ts[c[2] + 1 - first].at[c[3]]])
ConcatOf(ts, axis) ==
    LET shapes == [i \in DOMAIN ts |-> ts[i].shape]
        along == FoldLeft(LAMBDA sum, s : sum + s[axis + 1], 0, shapes) IN
    IF \E i, j \in DOMAIN ts : [shapes[i] EXCEPT ![axis + 1] = 1] # [shapes[j] EXCEPT ![axis + 1] = 1] THEN Raised
    ELSE PartOf(ts, [shapes[1] EXCEPT ![axis + 1] = along], ConcatAlong(shapes, axis + 1), 1)
StackOf(ts, axis) ==
    LET s == ts[1].shape IN
    IF \E i \in DOMAIN ts : ts[i].shape # s THEN Raised
    ELSE PartOf(ts, SubSeq(s, 1, axis) \o <<Len(ts)>> \o SubSeq(s, axis + 1, Len(s)), StackAlong(Len(ts), s, axis + 1), 0)
PadOf(t, pairs, filler) ==
    LET before == [d \in DOMAIN pairs |-> pairs[d][1]]
        after == [d \in DOMAIN pairs |-> pairs[d][2]]
        places == Pad(t.shape, before, after)
        of(c) == IF c[1] = "x" THEN t.at[c[2]] ELSE filler IN
    Tensor(t.class, PadShape(t.shape, before, after), [l \in DOMAIN places |-> of(CHOOSE c \in places[l] : TRUE)])
IotaOf(shape, axis) == LET at(o) == o[axis + 1] IN Tensor("int", shape, RowMajor(shape, at))
\* data[indices], for index arrays of one common shape.
GatherOf(t, ixs) ==
    LET out == FoldLeft(LAMBDA s, ix : BroadcastShape(s, ix.shape), <<>>, ixs) IN
    Taken(t, out, GatherAll(t.shape, out, [a \in DOMAIN ixs |-> ixs[a].at],
                            [a \in DOMAIN ixs |-> Leading(ixs[a].shape, Len(out))]))

\* The elements of inp and, where it is written, of src.
WrittenOf(inp, src, places) ==
    LET held(c) == IF c[1] = "inp" THEN inp.at[c[2]] ELSE src.at[c[2]] IN
    Tensor(inp.class, inp.shape, [l \in DOMAIN places |-> FloatSum(places[l], held)])
ScatterOf(inp, index, src, dim) ==
    IF index.shape # inp.shape \/ src.shape # inp.shape \/ \E l \in DOMAIN index.at : index.at[l] >= inp.shape[dim + 1]
    THEN Raised ELSE WrittenOf(inp, src, ScatterInto(inp.shape, dim + 1, index.at))
SelectScatterOf(inp, src, dim, index) ==
    IF index >= inp.shape[dim + 1] \/ src.shape # Without(inp.shape, {dim + 1}) THEN Raised
    ELSE WrittenOf(inp, src, SelectScatter(inp.shape, dim + 1, index))
SliceScatterOf(inp, src, dim, start, end, step) ==
    LET extent == inp.shape[dim + 1]
        p == [dim |-> dim + 1, start |-> Min({start, extent}), end |-> Min({end, extent}), step |-> step] IN
    IF src.shape # [inp.shape EXCEPT ![dim + 1] = SliceLength(p)] THEN Raised
    ELSE WrittenOf(inp, src, SliceScatter(inp.shape, p))
AsSeq(t) == [i \in 1 .. Size(t.shape) |-> t.at[i - 1]]
IndexAddOf(base, index, src, axis) == WrittenOf(base, src, IndexAdd(base.shape, axis + 1, AsSeq(index)))
IndexPutOf(base, rows, cols, src, accumulate) ==
    WrittenOf(base, src, IndexPut(base.shape, AsSeq(rows), AsSeq(cols), accumulate))
MaskedScatterOf(inp, mask, src) ==
    IF mask.shape # inp.shape \/ Len(Selected(mask.at)) > Size(src.shape) THEN Raised
    ELSE WrittenOf(inp, src, MaskedScatter(inp.shape, mask.at))
MaskedSelectOf(inp, mask) == Taken(inp, <<Len(Selected(mask.at))>>, MaskedSelect(mask.at))
UniqueOf(t) == LET u == Unique(AsSeq(t)) IN Tensor(t.class, <<Len(u)>>, [l \in Extent(Len(u)) |-> u[l + 1]])
NonzeroOf(t) ==
    LET found == Nonzero(AsSeq(t), t.shape[2])
        at(o) == found[o[1] + 1][o[2] + 1] IN
    Tensor("int", <<Len(found), 2>>, RowMajor(<<Len(found), 2>>, at))

(***************************************************************************)
(* Products, windows and losses.                                            *)
(***************************************************************************)
\* Stacks of matrices, or a matrix and a vector.
MatrixOf(t) == [b |-> Size(SubSeq(t.shape, 1, Len(t.shape) - 2)), m |-> t.shape[Len(t.shape) - 1], n |-> t.shape[Len(t.shape)]]
MatmulTo(x, y, ta, tb) ==
    LET vector == Len(y.shape) = 1
        right == IF vector THEN [y EXCEPT !.shape = @ \o <<1>>] ELSE y
        p == MatrixOf(x)
        q == MatrixOf(right)
        rows == IF ta THEN p.n ELSE p.m
        inner == IF ta THEN p.m ELSE p.n
        cols == IF tb THEN q.m ELSE q.n
        places == MatmulOf(p.b, rows, cols, inner, ta, tb)
        product(c) == Times(x.at[c[2]], right.at[c[3]])
        out == SubSeq(x.shape, 1, Len(x.shape) - 2) \o (IF vector THEN <<rows>> ELSE <<rows, cols>>) IN
    IF inner # (IF tb THEN q.n ELSE q.m) \/ p.b # q.b THEN Raised
    ELSE Tensor("float", out, [l \in DOMAIN places |-> FloatSum(places[l], product)])
KronOf(x, y) ==
    LET places == Kron(x.shape[1], x.shape[2], y.shape[1], y.shape[2])
        product(c) == Times(x.at[c[2]], y.at[c[3]]) IN
    Tensor("float", <<x.shape[1] * y.shape[1], x.shape[2] * y.shape[2]>>,
           [l \in DOMAIN places |-> FloatSum(places[l], product)])

\* torch's convolution of x with the windows w, for 1 to 3 spatial dimensions.
ConvolutionOf(x, w, bias, stride, pad, dilation, groups) ==
    LET p == [n |-> x.shape[1], cin |-> x.shape[2], cout |-> w.shape[1], groups |-> groups,
              input |-> SubSeq(x.shape, 3, Len(x.shape)), window |-> SubSeq(w.shape, 3, Len(w.shape)),
              stride |-> stride, pad |-> pad, dilation |-> dilation]
        places == Conv(p)
        term(c) == IF c[1] = "bias" THEN bias.at[c[2]] ELSE Times(x.at[c[2]], w.at[c[3]]) IN
    IF w.shape[2] * groups # x.shape[2] THEN Raised
    ELSE Tensor("float", <<p.n, p.cout>> \o ConvOut(p), [l \in DOMAIN places |-> FloatSum(places[l], term)])

WindowsOf(x, window, stride, pad, dilation) ==
    [n |-> x.shape[1], c |-> x.shape[2], input |-> SubSeq(x.shape, 3, 4), window |-> window, stride |-> stride,
     pad |-> pad, dilation |-> dilation]
AvgPoolOf(x, window, stride, pad, countIncludePad) ==
    LET p == WindowsOf(x, window, stride, pad, <<1, 1>>)
        places == AveragePool(p, countIncludePad)
        share(c) == Over(x.at[c[2]], c[3]) IN
    Tensor("float", <<p.n, p.c>> \o PoolShape(p), [l \in DOMAIN places |-> FloatSum(places[l], share)])
MaxPoolOf(x, p, select) ==
    LET places == MaximumPool(p, x.at, select)
        of(c) == c[2] IN
    Tensor(IF select = "indices" THEN "int" ELSE "float", <<p.n, p.c>> \o PoolShape(p),
           [l \in DOMAIN places |-> SumOf(places[l], of)])
UpsampleOf(x, output) ==
    Taken(x, SubSeq(x.shape, 1, 2) \o output,
          UpsampleNearest(x.shape[1], x.shape[2], SubSeq(x.shape, 3, Len(x.shape)), output))

AttentionOf(x, y, z, causal) ==
    LET p == [b |-> x.shape[1], h |-> x.shape[2], q |-> x.shape[3], d |-> x.shape[4], k |-> y.shape[3], causal |-> causal]
        scale == Over(1, Sqrt(p.d))
        product(c) == Times(x.at[c[1]], y.at[c[2]])
        places == Sdpa4d(p)
        value(s) == Times(FloatSum(s, product), scale)
        larger(a, b) == Max({a, b})
        of(c) == LET top == FoldOf(c[4], value, larger)
                     e(s) == Exp(Minus(value(s), top)) IN
                 Times(Over(e(c[3]), FloatSum(c[4], e)), z.at[c[2]]) IN
    Tensor("float", x.shape, [l \in DOMAIN places |-> FloatSum(places[l], of)])

PolarOf(x, angle) ==
    LET places == Polar(x.shape[1], x.shape[2])
        of(c) == Times(x.at[c[2]], Function1(c[1], angle.at[c[2]])) IN
    Tensor("float", x.shape \o <<2>>, [l \in DOMAIN places |-> FloatSum(places[l], of)])
GluOf(x) ==
    LET half == x.shape[2] \div 2
        places == Glu(x.shape[1], half)
        kind(l, tag) == x.at[(CHOOSE c \in places[l] : c[1] = tag)[2]] IN
    IF x.shape[2] % 2 # 0 THEN Raised
    ELSE Tensor("float", <<x.shape[1], half>>,
                [l \in DOMAIN places |-> Times(kind(l, "value"), Sigmoid(kind(l, "gate")))])
MseOf(x, y, reduction) ==
    LET square(c) == LET d == Minus(x.at[c[2]], y.at[c[2]]) IN Over(Times(d, d), c[3]) IN
    ScalarOf("float", FloatSum(MseLoss(Size(x.shape), reduction), square))
NllOf(x, target, weight, reduction, ignore_index) ==
    LET terms == NllLoss(x.shape[1], x.shape[2], Tail(target.shape), target.at, ignore_index, reduction)
        loss(c) == Residue(-Times(x.at[c[2]], weight.at[c[3]]))
        share(v) == weight.at[v[2]]
        over == (CHOOSE c \in terms : TRUE)[4] IN
    ScalarOf("float", IF terms = {} THEN 0
                      ELSE IF reduction = 1 THEN Over(FloatSum(terms, loss), FloatSum(over, share))
                      ELSE FloatSum(terms, loss))

(***************************************************************************)
(* An intent: its tensors with their declared shapes, a sequence of names of   *)
(* extents (or numbers, as strings), its ops in order, and its outputs.  An   *)
(* op has attributes only where the code gives it some.                      *)
(***************************************************************************)
OpWith(op, out, inputs, attrs) == [op |-> op, out |-> out, inputs |-> inputs, attrs |-> attrs]
OpOf(op, out, inputs) == OpWith(op, out, inputs, <<>>)
Const(out, x) == OpWith("const", out, <<>>, [value |-> x])
IntentFunction(tensors, ops, outputs) == [tensors |-> tensors, ops |-> ops, outputs |-> outputs]
Attr(op, key, default) == IF key \in DOMAIN op.attrs THEN op.attrs[key] ELSE default

\* The extents bound to names; numbers and sums are evaluated.
Literals == ("1" :> 1) @@ ("2" :> 2) @@ ("3" :> 3) @@ ("4" :> 4) @@ ("16" :> 16) @@ ("64" :> 64)
Evaluable(d, b) == d \in DOMAIN b \/ d \in DOMAIN Literals \/ (d = "M + 1" /\ "M" \in DOMAIN b) \/ (d = "N + 3" /\ "N" \in DOMAIN b)
Evaluated(d, b) ==
    CASE d \in DOMAIN b -> b[d]
      [] d \in DOMAIN Literals -> Literals[d]
      [] d = "M + 1" -> b["M"] + 1
      [] d = "N + 3" -> b["N"] + 3
EvaluableShape(dims, b) == \A i \in DOMAIN dims : Evaluable(dims[i], b)
ShapeOf(dims, b) == [i \in DOMAIN dims |-> Evaluated(dims[i], b)]

(***************************************************************************)
(* A vector next to an array of higher rank stands along the axis of the same  *)
(* declared name, or of the same extent if only one axis has it.            *)
(***************************************************************************)
MatchAxis(intent, b, vector, name, rank) ==
    LET v == intent.tensors[vector]
        t == intent.tensors[name]
        byName == {d \in DOMAIN t : t[d] = v[1]}
        byExtent == {d \in DOMAIN t : Evaluable(t[d], b) /\ Evaluable(v[1], b) /\ Evaluated(t[d], b) = Evaluated(v[1], b)} IN
    IF {vector, name} \subseteq DOMAIN intent.tensors /\ Len(v) = 1 /\ Len(t) = rank
    THEN IF Cardinality(byName) = 1 THEN byName ELSE IF Cardinality(byExtent) = 1 THEN byExtent ELSE {}
    ELSE {}
_align_shapes_for_elemwise_named(intent, b, aName, x, bName, y) ==
    LET rank == Len(y.shape)
        axis == MatchAxis(intent, b, aName, bName, rank) IN
    IF Len(x.shape) = 1 /\ rank >= 2 /\ \E d \in axis : x.shape[1] = y.shape[d]
    THEN [x EXCEPT !.shape = [d \in 1 .. rank |-> IF d \in axis THEN @[1] ELSE 1]] ELSE x

\* The second operand of an op with one input.
ResolveValue(name, env, b) ==
    IF name \in DOMAIN env THEN env[name] ELSE IF Evaluable(name, b) THEN ScalarOf("int", Evaluated(name, b)) ELSE Raised
SecondOperands == [div |-> <<"divisor">>, add |-> <<"addend">>, sub |-> <<"subtract">>, mul |-> <<"mul_factor", "scale">>,
                   max |-> <<"other">>, min |-> <<"other">>, remainder |-> <<>>, pow |-> <<>>]
SecondOperand(op, env, b) ==
    LET keys == SelectSeq(SecondOperands[op.op], LAMBDA k : k \in DOMAIN op.attrs) IN
    IF keys = <<>> THEN Raised ELSE ResolveValue(op.attrs[keys[1]], env, b)

\* An expression over the extents, where an attribute is one.
Expression(text, b) ==
    CASE text = "1.0/N" -> Over(1, b["N"])
      [] text = "1.0/(HEAD_DIM**0.5)" -> Over(1, Sqrt(b["HEAD_DIM"]))

ExecuteElementwise(intent, op, env, b) ==
    LET x(i) == env[op.inputs[i]]
        beside(i, j) == _align_shapes_for_elemwise_named(intent, b, op.inputs[i], x(i), op.inputs[j], x(j)) IN
    CASE op.op \in NUM_BIN_OPS /\ Len(op.inputs) = 1 -> Arithmetic2(op.op, x(1), SecondOperand(op, env, b))
      [] op.op \in NUM_BIN_OPS /\ Len(op.inputs) = 2 ->
            LET out == Arithmetic2(op.op, beside(1, 2), beside(2, 1)) IN
            IF op.op = "mul" /\ "scale" \in DOMAIN op.attrs THEN Arithmetic2("mul", out, ResolveValue(op.attrs.scale, env, b))
            ELSE out
      [] op.op = "exp" /\ Attr(op, "base", "e") = "2" ->
            Unary("exp", Arithmetic2("mul", x(1), ScalarOf("float", Ln2)))
      [] op.op \in NUM_UNARY_OPS -> Unary(op.op, x(1))
      [] op.op \in CMP_BIN_OPS -> Comparison(op.op, beside(1, 2), beside(2, 1))
      [] op.op \in BOOL_BIN_OPS -> Connective(op.op, beside(1, 2), beside(2, 1))
      [] op.op = "not" -> Negation(x(1))
      [] op.op \in Range(BITWISE_BIN_OPS) -> Bitwise2(op.op, beside(1, 2), beside(2, 1))
      [] op.op = "bitwise_not" -> Bitwise1(x(1))
      [] op.op = "where" -> LET y == _align_shapes_for_elemwise_named(intent, b, op.inputs[2], x(2), op.inputs[3], x(3))
                                z == _align_shapes_for_elemwise_named(intent, b, op.inputs[3], x(3), op.inputs[2], x(2)) IN
                            WhereOf(x(1), y, z)
      [] op.op = "cast" -> Cast(x(1), Class(op.attrs.to))
      [] op.op = "const" -> ScalarOf("float", IF "expr" \in DOMAIN op.attrs THEN Expression(op.attrs.expr, b) ELSE op.attrs.value)

\* identity keeps the leading part of the declared shape.
SlicedToDeclared(intent, name, t, b) ==
    LET target == IF name \in DOMAIN intent.tensors /\ EvaluableShape(intent.tensors[name], b)
                  THEN ShapeOf(intent.tensors[name], b) ELSE t.shape
        at(o) == t.at[Flat(o, t.shape)] IN
    IF Len(target) # Len(t.shape) \/ \E d \in DOMAIN target : target[d] > t.shape[d] THEN t
    ELSE Tensor(t.class, target, RowMajor(target, at))

ExecuteMove(intent, op, env, b) ==
    LET x(i) == env[op.inputs[i]]
        all == [i \in DOMAIN op.inputs |-> x(i)]
        a(key) == op.attrs[key] IN
    CASE op.op = "identity" -> SlicedToDeclared(intent, op.out, x(1), b)
      [] op.op = "broadcast_in_dim" -> BroadcastTo(x(1), ShapeOf(a("out_shape"), b), a("broadcast_dims"))
      [] op.op = "transpose" -> Taken(x(1), [d \in DOMAIN a("perm") |-> x(1).shape[a("perm")[d] + 1]],
                                      TransposeBy(x(1).shape, a("perm")))
      [] op.op = "concat" -> ConcatOf(all, a("axis"))
      [] op.op = "stack" -> StackOf(all, a("axis"))
      [] op.op = "reshape" -> ReshapeOf(x(1), ShapeOf(a("shape"), b))
      [] op.op = "pad" -> PadOf(x(1), a("pairs"), Attr(op, "value", 0))
      [] op.op = "iota" -> IotaOf(ShapeOf(a("shape"), b), a("axis"))
      [] op.op = "gather" -> GatherOf(x(1), Tail(all))
      [] op.op = "sort" -> SortOf(x(1), a("descending"))
      [] op.op = "unique" -> UniqueOf(x(1))
      [] op.op = "nonzero" -> NonzeroOf(x(1))
      [] op.op = "scatter" -> ScatterOf(x(1), x(2), x(3), a("dim"))
      [] op.op = "select_scatter" -> SelectScatterOf(x(1), x(2), a("dim"), a("index"))
      [] op.op = "slice_scatter" -> SliceScatterOf(x(1), x(2), a("dim"), a("start"), a("end"), a("step"))
      [] op.op = "index_add" -> IndexAddOf(x(1), x(2), x(3), a("axis"))
      [] op.op = "index_put" -> IndexPutOf(x(1), x(2), x(3), x(4), a("accumulate"))
      [] op.op = "masked_select" -> MaskedSelectOf(x(1), x(2))
      [] op.op = "masked_scatter" -> MaskedScatterOf(x(1), x(2), x(3))

\* Axes are counted from 0, and all of them unless the op names some.
AxesOf(op, t) == LET dims == Attr(op, "dims", [i \in DOMAIN t.shape |-> i - 1]) IN {d + 1 : d \in Range(dims)}
_apply_reduce_scale(t, op, b) ==
    IF "scale" \in DOMAIN op.attrs THEN Arithmetic2("mul", t, ScalarOf("float", Expression(op.attrs.scale, b))) ELSE t
ReduceOp(op, t, b) ==
    LET kind == CASE op.op = "reduce_sum" /\ Attr(op, "reduction_type", "sum") = "any" -> "reduce_any"
                  [] op.op = "reduce_any" /\ Attr(op, "combine_fn", "or") \in {"and", "all"} -> "reduce_all"
                  [] OTHER -> op.op
        reduced == Reduction(kind, t, AxesOf(op, t), Attr(op, "keepdims", FALSE), IF kind = "std" THEN Attr(op, "correction", 0) ELSE 0) IN
    IF op.op = "reduce_sum" THEN _apply_reduce_scale(reduced, op, b) ELSE reduced

ExtentsOf(dims, b) == [i \in DOMAIN dims |-> Evaluated(dims[i], b)]
ExecuteOther(intent, op, env, b) ==
    LET x(i) == env[op.inputs[i]]
        a(key) == op.attrs[key]
        output == ShapeOf(intent.tensors[op.out], b)
        bias(w) == IF Len(op.inputs) > 2 THEN x(3) ELSE Tensor("float", <<w.shape[1]>>, [l \in Extent(w.shape[1]) |-> 0]) IN
    CASE op.op \in {"argmax", "argmin"} -> ArgOf(op.op, x(1))
      [] op.op \in {"cumsum", "cummax", "cummin"} -> Running(op.op, x(1), Attr(op, "axis", Len(x(1).shape) - 1))
      [] op.op = "softmax" -> SoftmaxOf(x(1), Attr(op, "axis", -1) % Len(x(1).shape))
      [] op.op = "quantile" -> QuantileOf(x(1), x(2).at[0])
      [] op.op = "matmul" -> MatmulTo(x(1), x(2), Attr(op, "transpose_a", FALSE), Attr(op, "transpose_b", FALSE))
      [] op.op = "kron" -> KronOf(x(1), x(2))
      [] op.op \in {"conv1d", "conv2d", "conv3d"} ->
            ConvolutionOf(x(1), x(2), bias(x(2)), ExtentsOf(a("stride"), b), ExtentsOf(a("padding"), b),
                          ExtentsOf(a("dilation"), b), a("groups"))
      [] op.op = "conv_depthwise2d" ->
            ConvolutionOf(x(1), x(2), bias(x(2)), ExtentsOf(a("stride"), b), ExtentsOf(a("padding"), b),
                          ExtentsOf(a("dilation"), b), Attr(op, "groups", x(1).shape[2]))
      [] op.op = "avg_pool2d" ->
            AvgPoolOf(x(1), a("kernel_size"), Attr(op, "stride", a("kernel_size")), Attr(op, "padding", <<0, 0>>),
                      Attr(op, "count_include_pad", TRUE))
      [] op.op = "max_pool2d_with_indices" ->
            MaxPoolOf(x(1), WindowsOf(x(1), a("kernel_size"), Attr(op, "stride", a("kernel_size")),
                                      Attr(op, "padding", <<0, 0>>), Attr(op, "dilation", <<1, 1>>)), a("select"))
      [] op.op \in {"upsample_nearest1d", "upsample_nearest2d"} -> UpsampleOf(x(1), SubSeq(output, 3, Len(output)))
      [] op.op = "scaled_dot_product_attention" -> AttentionOf(x(1), x(2), x(3), Attr(op, "is_causal", FALSE))
      [] op.op = "polar" -> PolarOf(x(1), x(2))
      [] op.op = "glu" -> GluOf(x(1))
      [] op.op = "mse_loss" -> MseOf(x(1), x(2), a("reduction"))
      [] op.op \in {"nll_loss_forward", "nll_loss2d_forward"} ->
            NllOf(x(1), x(2), x(3), a("reduction"), a("ignore_index"))
      [] OTHER -> Raised

Moves == {"identity", "broadcast_in_dim", "transpose", "concat", "stack", "reshape", "pad", "iota", "gather", "sort", "unique",
          "nonzero", "scatter", "select_scatter", "slice_scatter", "index_add", "index_put", "masked_select", "masked_scatter"}
Reductions == {"reduce_sum", "reduce_any", "reduce_max", "reduce_min", "reduce_prod", "mean", "var", "std"}
_execute_op(intent, op, env, b) ==
    CASE \E n \in Range(op.inputs) : n \notin DOMAIN env \/ env[n].class = "raised" -> Raised
      [] op.op \in NUM_BIN_OPS \cup NUM_UNARY_OPS \cup CMP_BIN_OPS \cup BOOL_BIN_OPS \cup Range(BITWISE_BIN_OPS)
                   \cup {"not", "bitwise_not", "where", "cast", "const"} -> ExecuteElementwise(intent, op, env, b)
      [] op.op \in Moves -> ExecuteMove(intent, op, env, b)
      [] op.op \in Reductions -> ReduceOp(op, env[op.inputs[1]], b)
      [] OTHER -> ExecuteOther(intent, op, env, b)

\* The values of all names after the ops in order; each is bound to its op's last output.
execute_intent(intent, inputs, b) ==
    FoldLeft(LAMBDA env, op : (op.out :> _execute_op(intent, op, env, b)) @@ env, inputs, intent.ops)

--------------------------------------------------------------------------------
\* Names that the copied kernels spell differently.
Spellings ==
    [input  |-> {"i", "a", "x", "in", "input", "A", "X", "I", "in_ptr", "input_ptr", "Input", "a_ptr", "x_ptr"},
     output |-> {"o", "y", "out", "output", "y_q", "O", "Y", "Out", "out_ptr", "output_ptr", "Output", "quantized"},
     weight |-> {"w", "W", "weight", "weight_ptr", "Weight"},
     bias   |-> {"b", "B", "bias", "bias_ptr", "Bias"},
     query  |-> {"q", "Q", "query"},
     key    |-> {"k", "K", "key"},
     value  |-> {"v", "V", "value"},
     scale  |-> {"s", "S", "scale", "sm_scale", "y_s", "scales"},
     mean   |-> {"mean", "Mean"},
     rstd   |-> {"rstd", "Rstd"},
     eps    |-> {"eps", "EPS"},
     inp    |-> {"inp", "Inp"},
     c      |-> {"c", "C"}]
\* Names taken as they are.
_normalize_io_name_fault(name) == name

_normalize_io_name(name) ==
    IF \E s \in DOMAIN Spellings : name \in Spellings[s] THEN CHOOSE s \in DOMAIN Spellings : name \in Spellings[s] ELSE name
\* Names that are the same but for capitals.
SameLetters == {{"Out", "out"}, {"X", "x"}, {"Y", "y"}, {"A", "a"}, {"B", "b"}, {"C", "c"}, {"Inp", "inp"}, {"EPS", "eps"}}

\* Normalised names of which the first is a part of the second.
NameWithin == {<<"inp", "input">>, <<"mean", "RunningMean">>, <<"mask", "row_mask">>, <<"mask", "col_mask">>, <<"mask", "attn_mask">>}
\* The exported names an intent's name may stand for: those spelled alike, or else the one that it is
\* a part of, or else the one that is a part of it.
Candidates(name, ref_io) ==
    LET norm == _normalize_io_name(name)
        spelled(related(_)) == {k \in DOMAIN ref_io : related(_normalize_io_name(k))}
        alike == spelled(LAMBDA k : k = norm)
        around == spelled(LAMBDA k : <<norm, k>> \in NameWithin)
        within == spelled(LAMBDA k : <<k, norm>> \in NameWithin) IN
    CASE alike # {} -> alike
      [] alike = {} /\ Cardinality(around) = 1 -> around
      [] alike = {} /\ Cardinality(around) # 1 /\ Cardinality(within) = 1 -> within
      [] OTHER -> {}
Exported(name, ref_io) ==
    LET norm == _normalize_io_name(name)
        keys == Candidates(name, ref_io)
        same == {k \in keys : {k, name} \in SameLetters} IN
    CASE name \in DOMAIN ref_io -> ref_io[name]
      [] name \notin DOMAIN ref_io /\ same # {} -> ref_io[CHOOSE k \in same : TRUE]
      [] name \notin DOMAIN ref_io /\ same = {} /\ norm \in keys -> ref_io[norm]
      [] OTHER -> ref_io[CHOOSE k \in keys : TRUE]
_with_io_aliases(intent, ref_io) ==
    LET wanted == DOMAIN intent.tensors \cup Range(intent.outputs) IN
    [n \in {w \in wanted : w \in DOMAIN ref_io \/ Candidates(w, ref_io) # {}} |-> Exported(n, ref_io)] @@ ref_io

(***************************************************************************)
(* Extents that follow from others.                                         *)
(***************************************************************************)
Binding(b, name, needs, value) ==
    IF needs \subseteq DOMAIN b /\ name \notin DOMAIN b THEN (name :> value) @@ b ELSE b
Alias(b, r) == IF r[1] \in DOMAIN b THEN Binding(b, r[2], {}, b[r[1]]) ELSE b
Aliases(b, rules) == FoldLeft(Alias, b, rules)
Divides(b, part, whole) == b[part] > 0 /\ b[whole] % b[part] = 0

\* The inputs of one element that a case gives are bound as well.
ScalarInputs(inputs) ==
    [n \in {m \in DOMAIN inputs : Size(inputs[m].shape) = 1} |-> inputs[n].at[0]]

CaseBindings(shapes, inputs) ==
    LET b0 == Aliases(shapes, <<<<"batch", "Z">>, <<"Z", "batch">>, <<"GROUP_SIZE", "group_size">>,
                                <<"group_size", "GROUP_SIZE">>, <<"EPS", "eps">>, <<"eps", "EPS">>, <<"group", "num_groups">>,
                                <<"G", "num_groups">>, <<"num_groups", "G">>>>)
        b1 == b0 @@ ScalarInputs(inputs)
        b2 == Binding(b1, "group_size", {"num_groups", "C"}, (b1["C"] + b1["num_groups"] - 1) \div b1["num_groups"])
        b3 == IF {"N", "group_size"} \subseteq DOMAIN b2 /\ Divides(b2, "group_size", "N")
              THEN Binding(b2, "num_groups", {}, b2["N"] \div b2["group_size"]) ELSE b2
        b4 == Binding(b3, "N", {"num_groups", "group_size"}, b3["num_groups"] * b3["group_size"])
        b5 == Binding(b4, "num_elements", {"group_size", "HW"}, b4["group_size"] * b4["HW"])
        b6 == IF {"N", "group_size"} \subseteq DOMAIN b5 /\ Divides(b5, "group_size", "N")
              THEN Binding(b5, "G", {}, b5["N"] \div b5["group_size"]) ELSE b5
        half == {"HEAD_DIM_DIV2", "HEAD_DIM_DIV_2", "HEAD_DIM_HALF", "HEAD_DIM_MID"} IN
    IF "HEAD_DIM" \in DOMAIN b6 THEN b6 @@ [n \in half |-> b6["HEAD_DIM"] \div 2] ELSE b6

\* The extent of a convolution's output, from its input, padding, window, stride and dilation.
Windowed(b, o, in, pad, window, stride, dilation) ==
    IF stride \in DOMAIN b /\ b[stride] > 0
    THEN Binding(b, o, {in, pad, window, dilation},
                 (b[in] + 2 * b[pad] - b[dilation] * (b[window] - 1) - 1) \div b[stride] + 1)
    ELSE b
_add_common_derived_bindings(b) ==
    LET columns == <<"n_cols", "ncols", "num_cols", "numcols", "cols", "stride">>
        rows == <<"n_rows", "nrows", "num_rows", "numrows", "rows">>
        b1 == Aliases(b, [i \in DOMAIN columns |-> <<"N", columns[i]>>] \o [i \in DOMAIN rows |-> <<"M", rows[i]>>])
        b2 == Binding(b1, "offset", {}, 0)
        b3 == Binding(Binding(b2, "C_IN_TOTAL", {"C_IN", "GROUPS"}, b2["C_IN"] * b2["GROUPS"]), "C_IN_TOTAL", {"C_IN"}, b2["C_IN"])
        b4 == IF {"C_IN", "GROUPS"} \subseteq DOMAIN b3 /\ Divides(b3, "GROUPS", "C_IN")
              THEN Binding(b3, "C_PER_G", {}, b3["C_IN"] \div b3["GROUPS"]) ELSE Binding(b3, "C_PER_G", {"C_IN"}, b3["C_IN"])
        b5 == Binding(b4, "C_OUT", {"C_IN", "MULT"}, b4["C_IN"] * b4["MULT"])
        \* C_PER_G counts here only if the case gave it
        b6 == IF "C_PER_G" \in DOMAIN b THEN Binding(b5, "C_OUT", {"GROUPS"}, b["C_PER_G"] * b5["GROUPS"]) ELSE b5
        b7 == Alias(b6, <<"groups", "GROUPS">>)
        b8 == IF {"CIN", "GROUPS"} \subseteq DOMAIN b7 /\ b7["GROUPS"] > 0
              THEN LET each == b7["CIN"] \div b7["GROUPS"] IN
                   Binding(Binding(b7, "CIN_per_group", {}, each), "C_PER_G", {}, each)
              ELSE b7
        b9 == Aliases(b8, <<<<"COUT", "C_OUT">>, <<"K", "kernel_size">>>>)
        b10 == Binding(Binding(b9, "HC_C", {"HC", "C"}, b9["HC"] * b9["C"]), "K", {"HC", "C"}, b9["HC"] * b9["C"])
        b11 == Binding(b10, "M", {"HC"}, b10["HC"] * b10["HC"] + 2 * b10["HC"])
        b12 == Binding(Binding(b11, "T_plus_1", {"T"}, b11["T"] + 1), "T1", {"T"}, b11["T"] + 1)
        b13 == Windowed(b12, "OH", "H", "PH", "KH", "SH", "DH")
        b14 == Windowed(b13, "OW", "W", "PW", "KW", "SW", "DW") IN
    Windowed(b14, "OD", "D", "PD", "KD", "SD", "DD")

\* The extents of the inputs bind the names declared for them, in up to four rounds.
DeclaredNames(intent, inputs, b) ==
    {<<intent.tensors[n][i], inputs[n].shape[i]>> :
        <<n, i>> \in {p \in (DOMAIN inputs) \X (1 .. 5) : /\ Len(intent.tensors[p[1]]) = Len(inputs[p[1]].shape)
                                                        /\ p[2] \in DOMAIN intent.tensors[p[1]]
                                                        /\ ~Evaluable(intent.tensors[p[1]][p[2]], b)}}
_infer_bindings_from_external_inputs(intent, inputs, b) ==
    LET again(c) ==
            LET found == DeclaredNames(intent, inputs, c)
                extent(s) == (CHOOSE p \in found : p[1] = s)[2] IN
            IF found = {} THEN c ELSE _add_common_derived_bindings([s \in {p[1] : p \in found} |-> extent(s)] @@ c) IN
    again(again(again(again(b))))

(***************************************************************************)
(* Shapes that differ by extents of one only, or by a transposition.         *)
(***************************************************************************)
Units(shape) == SelectSeq(shape, LAMBDA d : d # 1)
_squeeze_unit_dims_to_match(t, target) ==
    IF Len(t.shape) > Len(target) /\ Units(t.shape) = Units(target) THEN [t EXCEPT !.shape = target] ELSE Raised
_unsqueeze_unit_dims_to_match(t, target) ==
    IF Len(t.shape) < Len(target) /\ Units(t.shape) = Units(target) THEN [t EXCEPT !.shape = target] ELSE Raised
Squeezed(t, target) ==
    CASE t.shape = target -> t
      [] Len(t.shape) > Len(target) -> _squeeze_unit_dims_to_match(t, target)
      [] OTHER -> _unsqueeze_unit_dims_to_match(t, target)
MatrixNames == {"weight", "weight_ptr", "W_proj", "matrix", "mat", "mat1", "mat2", "kernel"}
_transpose_2d_to_match(t, target, name) ==
    IF Len(t.shape) = 2 /\ <<t.shape[2], t.shape[1]>> = target /\ name \in MatrixNames
    THEN Taken(t, target, TransposeBy(t.shape, <<1, 0>>)) ELSE Raised
Aligned(t, target, name) ==
    LET squeezed == Squeezed(t, target) IN
    IF squeezed = Raised THEN _transpose_2d_to_match(t, target, name) ELSE squeezed

(***************************************************************************)
(* The comparison.                                                         *)
(***************************************************************************)
_materialized_outputs(intent, ref_out) ==
    LET produced == {intent.ops[i].out : i \in DOMAIN intent.ops}
        outs == SelectSeq(intent.outputs, LAMBDA n : n \in DOMAIN ref_out \cup produced) IN
    IF outs = <<>> THEN intent.outputs ELSE outs
Nonfinite(x) == x \in {NaN, Infinity, -Infinity}
Differs(p, r) ==
    IF "bool" \in {p.class, r.class} THEN \E l \in DOMAIN r.at : (p.at[l] # 0) # (r.at[l] # 0)
    ELSE \E l \in DOMAIN r.at : IF Nonfinite(p.at[l]) \/ Nonfinite(r.at[l]) THEN p.at[l] # r.at[l]
                                ELSE As(Wider(<<p, r>>), p.at[l]) # As(Wider(<<p, r>>), r.at[l])
OutputVerdict(name, pred, ref) ==
    IF name \notin DOMAIN ref THEN "reference missing output"
    ELSE IF name \notin DOMAIN pred THEN "missing output"
    ELSE LET p == Squeezed(pred[name], ref[name].shape) IN
         IF p = Raised THEN "shape mismatch" ELSE IF Differs(p, ref[name]) THEN "mismatch" ELSE "ok"
_compare_outputs(pred, ref, outputs) ==
    LET found == SelectSeq([i \in DOMAIN outputs |-> OutputVerdict(outputs[i], pred, ref)], LAMBDA s : s # "ok") IN
    IF found = <<>> THEN "ok" ELSE found[1]

(***************************************************************************)
(* One case: the arrays the reference returned for it, its shapes, and the    *)
(* inputs it may give.                                                      *)
(***************************************************************************)
ExternalInputs(intent) ==
    LET produced == {intent.ops[i].out : i \in DOMAIN intent.ops}
        used == UNION {Range(intent.ops[i].inputs) : i \in DOMAIN intent.ops} IN
    (used \cap DOMAIN intent.tensors) \ produced
\* An input of one element that the reference does not export is the case's own, or follows from an
\* extent of the case.
InjectedScalar(intent, name, b, inputs) ==
    LET shape == ShapeOf(intent.tensors[name], b) IN
    IF name = "attn_mask" THEN Tensor("float", shape, [l \in Extent(Size(shape)) |-> 0])
    ELSE IF name \in DOMAIN ScalarInputs(inputs) THEN [inputs[name] EXCEPT !.shape = shape]
    ELSE IF name = "sm_scale" THEN
            [ScalarOf("float", IF "HEAD_DIM" \in DOMAIN b THEN Over(1, Sqrt(b["HEAD_DIM"])) ELSE 1) EXCEPT !.shape = shape]
    ELSE [ScalarOf("float", b[name]) EXCEPT !.shape = shape]
Injectable(intent, name, b) ==
    LET dims == intent.tensors[name] IN
    EvaluableShape(dims, b) /\ (name = "attn_mask" \/ (Size(ShapeOf(dims, b)) = 1 /\ name \in DOMAIN b \cup {"sm_scale"}))

run_diff(intent, ref_io, shapes, inputs) ==
    LET ref_out == _with_io_aliases(intent, ref_io)
        external == ExternalInputs(intent)
        given == [n \in external \cap DOMAIN ref_out |-> ref_out[n]]
        b == _infer_bindings_from_external_inputs(intent, given, _add_common_derived_bindings(CaseBindings(shapes, inputs)))
        missing == {n \in external \ DOMAIN given : Injectable(intent, n, b)}
        fed == [n \in missing |-> InjectedScalar(intent, n, b, inputs)] @@ given
        checked == [n \in DOMAIN fed |-> Aligned(fed[n], ShapeOf(intent.tensors[n], b), n)]
        env == execute_intent(intent, checked, b)
        outputs == _materialized_outputs(intent, ref_out) IN
    IF \E n \in DOMAIN fed : ~EvaluableShape(intent.tensors[n], b) THEN "unbound symbols"
    ELSE IF \E n \in DOMAIN checked : checked[n] = Raised THEN "input shape mismatch"
    ELSE IF \E n \in DOMAIN env : env[n].class = "raised" THEN "interpreter error"
    ELSE _compare_outputs(env, ref_out, outputs)

(***************************************************************************)
(* What references are written with: arrays without a pattern, numbered k,    *)
(* arrays given element by element, and arrays under several names.         *)
(***************************************************************************)
Noise(l, k) == (l + 3) * (31 * k + 17) + (l * l + 1) * (7 * k + 5)
Draw(shape, k) == Tensor("float", shape, [l \in Extent(Size(shape)) |-> (Noise(l, k) % Prime) - 48])
\* Numbers of that class from low to high, few enough to be equal now and then.
DrawIn(class, shape, k, low, high) ==
    Tensor(class, shape, [l \in Extent(Size(shape)) |-> ((Noise(l, k) \div 3) % (high - low + 1)) + low])
Magnitude(x) == IF x < 0 THEN -x ELSE x
Positive(t) == [t EXCEPT !.at = [l \in DOMAIN @ |-> IF @[l] = 0 THEN 1 ELSE Magnitude(@[l])]]

At(t, i) == t.at[Flat(i, t.shape)]
Filled(class, shape, value(_)) == Tensor(class, shape, RowMajor(shape, value))
Number(x) == ScalarOf("float", x)
Named(names, t) == [n \in names |-> t]
Shaped(names, dims) == [n \in names |-> dims]

(***************************************************************************)
(* What intents and references of matrices have in common.                   *)
(***************************************************************************)
MN == <<"M", "N">>
MatrixCases == [M : 1 .. 3, N : 1 .. 3]
Matrix(s) == <<s.M, s.N>>
Drawn(s) == Draw(Matrix(s), 1)
\* An intent of one op, the tensors' declared shapes given by name.
OneOp(tensors, op, out, inputs, attrs) == IntentFunction(tensors, <<OpWith(op, out, inputs, attrs)>>, <<out>>)
AtLeast(low, x) == Max({low, x})
AsFloat(out, x) == OpWith("cast", out, <<x>>, [to |-> "f32"])
Spread2(out, x, shape, dims) == OpWith("broadcast_in_dim", out, <<x>>, [out_shape |-> shape, broadcast_dims |-> dims])
Numbering(out, axis, shape) == OpWith("iota", out, <<>>, [axis |-> axis, shape |-> shape])

\* A value for every row, from its elements in order.
Line(t, i) == [j \in Extent(t.shape[2]) |-> At(t, <<i, j>>)]
OfRows(class, t, value(_)) == LET at(o) == value(Line(t, o[1])) IN Filled(class, <<t.shape[1]>>, at)
Total(line) == LET held(j) == line[j] IN FloatSum(DOMAIN line, held)
Squares(line) == LET held(j) == Times(line[j], line[j]) IN FloatSum(DOMAIN line, held)
Product(line) == LET times(x, j) == Times(x, line[j]) IN FoldSet(LAMBDA j, x : times(x, j), 1, DOMAIN line)
Least(line) == Min({line[j] : j \in DOMAIN line})
Greatest(line) == Max({line[j] : j \in DOMAIN line})
FirstOf(line, x) == Min({j \in DOMAIN line : line[j] = x})
Average(line) == Over(Total(line), Cardinality(DOMAIN line))
\* The variance, from the sums of the elements and of their squares.
Variance(line, correction) ==
    LET n == Cardinality(DOMAIN line) IN
    Over(Minus(Squares(line), Times(n, Times(Average(line), Average(line)))), n - correction)

\* The outcome of an intent for every case, given the arrays its reference returns.
Verdicts(cases, intent, reference(_)) == [s \in cases |-> run_diff(intent, reference(s), s, <<>>)]
================================================================================
