------------------------------ MODULE PluginTiles ------------------------------
(***************************************************************************)
(* The CUDA matrix products and the attention of one warp that the C++        *)
(* plugin emits.  Tiles of the operands are copied asynchronously into one    *)
(* of two buffers while the other one is multiplied; a warp accumulates a     *)
(* fragment of the output in its registers.  The actors are whole warps.      *)
(***************************************************************************)
EXTENDS PluginKernels

LOCAL INSTANCE SequencesExt
LOCAL INSTANCE FiniteSetsExt

Frag == 2         \* 16 in the source: a warp's fragment is Frag by Frag
Vec == 2          \* 4: elements copied or stored at once
TileLanes == 2    \* 32

(***************************************************************************)
(* A product of p.M by p.K and p.K by p.N in tiles of p.bm by p.bn by p.bk.    *)
(***************************************************************************)
WarpsN(p) == p.bn \div Frag
TileWarps(p) == (p.bm \div Frag) * WarpsN(p)
RowW(p, w) == (w \div WarpsN(p)) * Frag
ColW(p, w) == (w % WarpsN(p)) * Frag

\* What the lowering accepts: whole tiles, each copied by all threads in equal parts.
Tiled(p) ==
    LET threads == TileWarps(p) * TileLanes IN
    /\ p.bm % Frag = 0 /\ p.bn % Frag = 0
    /\ p.M % p.bm = 0 /\ p.N % p.bn = 0 /\ p.K % p.bk = 0
    /\ p.async => /\ p.bk % Vec = 0 /\ p.bn % Vec = 0
                  /\ ((p.bm * p.bk) \div Vec) % threads = 0 /\ ((p.bk * p.bn) \div Vec) % threads = 0

TileCells(p, buf) == {<<"As", buf, e>> : e \in Upto(p.bm * p.bk)} \cup {<<"Bs", buf, e>> : e \in Upto(p.bk * p.bn)}
\* The warp that handles element e of a tile, Vec elements a time.
Copier(p, e) == ((e \div Vec) % (TileWarps(p) * TileLanes)) \div TileLanes

\* The next tile is copied into the buffer not in use.
Ahead(buf) == 1 - buf

emitTile(p, row0, col0, kb, buf) ==
    LET element(c) ==
          IF c[1] = "As" THEN {<<"A", (row0 + c[3] \div p.bk) * p.K + kb + (c[3] % p.bk)>>}
          ELSE {<<"B", (kb + c[3] \div p.bn) * p.N + col0 + (c[3] % p.bn)>>}
        cells == TileCells(p, buf) IN
    WarpStep(TileWarps(p), {}, [c \in cells |-> Copier(p, c[3])], Nothing, [c \in cells |-> element(c)])

AccCells(p) == {<<"acc", w, e>> : w \in Upto(TileWarps(p)), e \in Upto(Frag * Frag)}
ByWarp(cells) == [c \in cells |-> c[2]]
Accumulator(p) == WarpStep(TileWarps(p), {}, ByWarp(AccCells(p)), Nothing, Nothing)

\* The fragments of warp w for element e of its accumulator, from the tile in buf.
Multiply(p, buf) ==
    LET operands(w, e) ==
          {<<"As", buf, (RowW(p, w) + e \div Frag) * p.bk + t>> : t \in Upto(p.bk)}
          \cup {<<"Bs", buf, t * p.bn + ColW(p, w) + (e % Frag)>> : t \in Upto(p.bk)} IN
    WarpStep(TileWarps(p), {}, ByWarp(AccCells(p)), [c \in AccCells(p) |-> {c} \cup operands(c[2], c[3])], Nothing)

\* The copy of the next tile runs while this one is multiplied; no barrier after the last.
PipelinedTiles(p, row0, col0) ==
    LET tiles == p.K \div p.bk
        current(i) == IF i % 2 = 0 THEN 0 ELSE 1
        work(i) == IF i + 1 < tiles
                   THEN Fused(Multiply(p, current(i)), emitTile(p, row0, col0, (i + 1) * p.bk, Ahead(current(i))))
                   ELSE Multiply(p, current(i)) IN
    <<Fused(Accumulator(p), emitTile(p, row0, col0, 0, 0))>> \o [i \in 1 .. tiles |-> work(i - 1)]

\* Fragments loaded from global memory: nothing is shared.
GlobalTiles(p, row0, col0) ==
    LET operands(w, e, kb) ==
          {<<"A", (row0 + RowW(p, w) + e \div Frag) * p.K + kb + t>> : t \in Upto(p.bk)}
          \cup {<<"B", (kb + t) * p.N + col0 + ColW(p, w) + (e % Frag)>> : t \in Upto(p.bk)}
        work(kb) == WarpStep(TileWarps(p), {}, ByWarp(AccCells(p)), [c \in AccCells(p) |-> {c}],
                             [c \in AccCells(p) |-> operands(c[2], c[3], kb)]) IN
    <<Accumulator(p)>> \o [i \in 1 .. p.K \div p.bk |-> work((i - 1) * p.bk)]

AccumulatedTiles(p, row0, col0) ==
    IF p.async THEN PipelinedTiles(p, row0, col0) ELSE GlobalTiles(p, row0, col0)

\* The place of warp w's element e in the output tile.
FragPlace(p, w, e) == (RowW(p, w) + e \div Frag) * p.bn + ColW(p, w) + (e % Frag)
OutCell(p, row0, col0, place) == <<"C", 0, (row0 + place \div p.bn) * p.N + col0 + (place % p.bn)>>

StoreFragments(p, row0, col0) ==
    LET cells == [c \in AccCells(p) |-> OutCell(p, row0, col0, FragPlace(p, c[2], c[3]))]
        of(o) == CHOOSE c \in AccCells(p) : cells[c] = o IN
    WarpStep(TileWarps(p), {}, [o \in Range(cells) |-> of(o)[2]], [o \in Range(cells) |-> {of(o)}], Nothing)

(***************************************************************************)
(* The blocks of the launch, and what the output tile of one should hold.     *)
(***************************************************************************)
TileBlocks(p) == Upto(p.N \div p.bn) \X Upto(p.M \div p.bm)
\* The product, and what extra adds to it, at the places of open; nothing elsewhere.
TileOutput(p, block, open, extra) ==
    LET product == Ref!Matmul(1, 2, p.M, p.N, p.K)
        parts(i) == UNION {{<<"A", e[3]>>, <<"B", e[5]>>} : e \in product[i]} \cup extra[i] IN
    [c \in {OutCell(p, block[2] * p.bm, block[1] * p.bn, e) : e \in Upto(p.bm * p.bn)} |->
        SetToBag(IF c[3] \in open THEN parts(c[3]) ELSE {})]

lowerCudaAiBenchMatmulMmaTF32V1(p) ==
    [block \in TileBlocks(p) |->
        LET row0 == block[2] * p.bm
            col0 == block[1] * p.bn IN
        Leaving(Upto(TileWarps(p)), AccumulatedTiles(p, row0, col0) \o <<StoreFragments(p, row0, col0)>>,
                TileOutput(p, block, Upto(p.M * p.N), All(Upto(p.M * p.N), {})))]

(***************************************************************************)
(* The fused epilogue: a bias, and a mask of the rows and of the columns      *)
(* outside which the output is 0.  They are the first arguments of their      *)
(* types and lengths, in alphabetical order; x.args lists what is neither     *)
(* operand nor output.  A mask holds the places it lets through.            *)
(***************************************************************************)
EpilogueRoles(x, p) ==
    LET role(r, a) ==
          CASE a.type = "f32" /\ a.length = p.N /\ r.bias = 0 -> [r EXCEPT !.bias = a.name]
            [] a.type = "bool" /\ a.length = p.M /\ r.rows = 0 -> [r EXCEPT !.rows = a.name]
            [] a.type = "bool" /\ a.length = p.N /\ ~ (a.length = p.M /\ r.rows = 0) /\ r.cols = 0 -> [r EXCEPT !.cols = a.name]
            [] OTHER -> r IN
    FoldLeft(role, [bias |-> 0, rows |-> 0, cols |-> 0], x.args)

Passes(x, r, row, col) == row \in x.mask[r.rows] /\ col \in x.mask[r.cols]

\* Of output element i: the bias, or nothing when a mask closes it.
EpilogueParts(x, p, r, i) ==
    IF Passes(x, r, i \div p.N, i % p.N) THEN {<<"bias", r.bias, i % p.N>>} ELSE {}

ShareFragments(p) ==
    LET cells == [c \in AccCells(p) |-> <<"Cs", 0, FragPlace(p, c[2], c[3])>>]
        of(s) == CHOOSE c \in AccCells(p) : cells[c] = s IN
    WarpStep(TileWarps(p), {}, [s \in Range(cells) |-> of(s)[2]], [s \in Range(cells) |-> {of(s)}], Nothing)

\* After a barrier the threads take the tile Vec elements a time.
BlockEpilogue(x, p, r, row0, col0) ==
    LET at == [e \in Upto(p.bm * p.bn) |-> OutCell(p, row0, col0, e)]
        place(o) == CHOOSE e \in DOMAIN at : at[e] = o
        open(o) == EpilogueParts(x, p, r, o[3]) # {} IN
    WarpStep(TileWarps(p), {}, [o \in Range(at) |-> Copier(p, place(o))],
             [o \in Range(at) |-> IF open(o) THEN {<<"Cs", 0, place(o)>>} ELSE {}],
             [o \in Range(at) |-> EpilogueParts(x, p, r, o[3])])

\* Without one a warp finishes the fragment it has just shared with itself.
WarpEpilogue(x, p, r, row0, col0) ==
    LET cells == [c \in AccCells(p) |-> OutCell(p, row0, col0, FragPlace(p, c[2], c[3]))]
        of(o) == CHOOSE c \in AccCells(p) : cells[c] = o
        open(o) == EpilogueParts(x, p, r, o[3]) # {} IN
    WarpStep(TileWarps(p), {}, [o \in Range(cells) |-> of(o)[2]], [o \in Range(cells) |-> IF open(o) THEN {of(o)} ELSE {}],
             [o \in Range(cells) |-> EpilogueParts(x, p, r, o[3])])

lowerCudaMatmulFusedEpilogue2dMmaTF32V1(x) ==
    LET p == x.tiles
        r == EpilogueRoles(x, p) IN
    [block \in TileBlocks(p) |->
        LET row0 == block[2] * p.bm
            col0 == block[1] * p.bn
            epilogue == IF x.warpEpilogue THEN <<WarpEpilogue(x, p, r, row0, col0)>>
                        ELSE <<ShareFragments(p), BlockEpilogue(x, p, r, row0, col0)>> IN
        Leaving(Upto(TileWarps(p)), AccumulatedTiles(p, row0, col0) \o epilogue,
                TileOutput(p, block, {Ref!Flat(o, <<p.M, p.N>>) : o \in x.mask[x.meant.rows] \X x.mask[x.meant.cols]},
                           [i \in Upto(p.M * p.N) |-> {<<"bias", x.meant.bias, i % p.N>>}]))]

(***************************************************************************)
(* Causal attention by one warp per query row.  A lane owns the columns lane   *)
(* and lane + WarpSize; a score is added up over all lanes.                 *)
(***************************************************************************)
LaneColumns(t, HD) == {d \in {t, t + WarpSize} : d < HD}
WarpScore(q, kv, HD) ==
    UNION {{<<"qk", q * HD + d, kv * HD + d>> : d \in LaneColumns(t, HD)} : t \in Upto(WarpSize)}
WarpRow(q, HD, acc, l) ==
    LET out(d) == {<<"weighted", WarpScore(q, w[1], HD), w[2], w[1] * HD + d>> : w \in acc} \cup {<<"divided by", l>>}
        cells == Output("y", [i \in RowPlaces(q, HD) |-> out(i - q * HD)])
        owner(c) == CHOOSE t \in Upto(WarpSize) : \E i \in RowPlaces(q, HD) : <<"y", i>> = c /\ (i - q * HD) \in LaneColumns(t, HD) IN
    Put(Upto(WarpSize), [c \in DOMAIN cells |-> owner(c)], cells)

WarpAttention(Q, KV, HD, row(_)) ==
    LET expected == Sums(Attention(Q, KV, HD, TRUE)) IN
    [q \in Upto(Q) |->
        Leaving(Upto(WarpSize), <<row(q)>>, [c \in {<<"y", i>> : i \in RowPlaces(q, HD)} |-> expected[c]])]

\* One pass over all keys; a masked key has the score -inf and changes nothing.
lowerCudaAttn2dCausalSoftmaxWarpV1(Q, KV, HD) ==
    LET key(q, kv) == IF kv > q THEN {} ELSE {kv}
        online(q) == FoldLeft(Tile, [m |-> {}, l |-> {}, acc |-> {}], [i \in 1 .. KV |-> key(q, i - 1)])
        row(q) == WarpRow(q, HD, online(q).acc, online(q).l) IN
    WarpAttention(Q, KV, HD, row)

\* The maximum first, then the weights; a masked key has the weight 0.
lowerCudaAttn2dCausalSoftmaxWarpV2(Q, KV, HD) ==
    LET max(q) == {kv \in Upto(KV) : ~ kv > q}
        weights(q) == {<<kv, max(q)>> : kv \in {k \in Upto(KV) : ~ k > q}}
        row(q) == WarpRow(q, HD, weights(q), weights(q)) IN
    WarpAttention(Q, KV, HD, row)
================================================================================
