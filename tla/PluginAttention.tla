---------------------------- MODULE PluginAttention ----------------------------
(***************************************************************************)
(* The CUDA attention kernels of several warps that the C++ plugin emits: one *)
(* block per query row, walking over tiles of keys with an online softmax.    *)
(* Two warps own the output columns, the others compute the scores.  A warp   *)
(* has one lane here, so the head has a column per output warp.             *)
(***************************************************************************)
EXTENDS PluginTiles

LOCAL INSTANCE SequencesExt
LOCAL INSTANCE FiniteSetsExt

OutWarps == 2
HeadDim == OutWarps

(***************************************************************************)
(* A block: its row q of the queries, the row k of its first key, its KV keys, *)
(* of which those in attended count, in tiles of blockKV; warps in all.       *)
(* Shared memory is laid out as q, K and V tile, scores, weights, scalars.    *)
(***************************************************************************)
Shared(name, i) == <<name, 0, i>>
MaxCell == Shared("m", 0)
SumCell == Shared("l", 0)
AlphaCell == Shared("alpha", 0)
Scores(x) == {Shared("score", t) : t \in Upto(x.blockKV)}
Weights(x) == {Shared("weight", t) : t \in Upto(x.blockKV)}
Attends(x, tile0, t) == tile0 + t \in x.attended

LoadQuery(x) ==
    LET q == {Shared("q", d) : d \in Upto(HeadDim)} IN
    WarpStep(x.warps, {}, [c \in q |-> c[3]], Nothing, [c \in q |-> {<<"Q", x.q * HeadDim + c[3]>>}])

\* Thread 0 sets the scalars; acc is in the registers of the output warps.
InitScalars(x) ==
    WarpStep(x.warps, {}, All({MaxCell, SumCell, AlphaCell}, 0) @@ [c \in {Shared("acc", d) : d \in Upto(HeadDim)} |-> c[3]],
             Nothing, Nothing)

\* The keys and values of the tile that starts at tile0; zeros past the last key.
TileContent(x, tile0, c) ==
    LET kv == tile0 + (c[3] \div HeadDim) IN
    IF kv < x.KV THEN {<<c[1], (x.k + kv) * HeadDim + (c[3] % HeadDim)>>} ELSE {}
TileOf(x) == {Shared(n, e) : n \in {"K", "V"}, e \in Upto(x.blockKV * HeadDim)}

LoadTile(x, tile0) ==
    WarpStep(x.warps, {}, [c \in TileOf(x) |-> c[3] % x.warps], Nothing, [c \in TileOf(x) |-> TileContent(x, tile0, c)])
\* Vec elements a time; a thread with nothing left to copy writes behind the tile.
CopyTile(x, tile0) ==
    WarpStep(x.warps, {}, [c \in TileOf(x) |-> (c[3] \div Vec) % x.warps], Nothing,
             [c \in TileOf(x) |-> TileContent(x, tile0, c)])

KeyCells(t) == {Shared("K", t * HeadDim + d) : d \in Upto(HeadDim)}
QueryCells == {Shared("q", d) : d \in Upto(HeadDim)}

\* A masked score is the least number there is: nothing is taken for it.
FlashScores(x, tile0) ==
    WarpStep(x.warps, {}, [c \in Scores(x) |-> OutWarps + (c[3] % (x.warps - OutWarps))],
             [c \in Scores(x) |-> IF ~ Attends(x, tile0, c[3]) THEN {}
                                  ELSE QueryCells \cup (IF x.direct THEN {} ELSE KeyCells(c[3]))],
             [c \in Scores(x) |-> IF ~ x.direct \/ ~ Attends(x, tile0, c[3]) THEN {}
                                  ELSE {<<"K", (x.k + tile0 + c[3]) * HeadDim + d>> : d \in Upto(HeadDim)}])

(***************************************************************************)
(* The softmax of a tile.  m stands for what went into the maximum, l and      *)
(* acc for what was added up; the scale from the old maximum to the new one   *)
(* is the alpha of the tile.                                               *)
(***************************************************************************)
Scaling(tile0) == {<<"alpha", tile0>>}

\* What m, l and the weights are made of, once the keys up to a tile's end were seen.
ScoreBag(x, kvs) ==
    FoldSet(LAMBDA kv, b : b (+) SetToBag({<<"Q", x.q * HeadDim + d>> : d \in Upto(HeadDim)}
                                          \cup {<<"K", (x.k + kv) * HeadDim + d>> : d \in Upto(HeadDim)}), EmptyBag, kvs)
SeenBy(x, tile0) == ScoreBag(x, {kv \in x.attended : kv < tile0 + x.blockKV})

\* Thread 0 does it all.
SerialSoftmax(x, tile0) ==
    <<WarpStep(x.warps, {}, All({MaxCell, SumCell, AlphaCell} \cup Weights(x), 0),
               [c \in {MaxCell, SumCell} |-> {c} \cup Scores(x)] @@ [c \in Weights(x) |-> {Shared("score", c[3])}],
               [c \in {AlphaCell} |-> Scaling(tile0)])>>

\* A warp per part of the tile finds its maximum, warp 0 that of all, thread 0 the scale.
WarpMaxima(x) ==
    WarpStep(x.warps, {}, [c \in Weights(x) |-> c[3]], [c \in Weights(x) |-> {Shared("score", c[3])}], Nothing)
lScaled == Shared("lScaled", 0)   \* a register of thread 0
BlockMaximum(x, tile0) ==
    LET cells == {MaxCell, SumCell, AlphaCell, lScaled, Shared("weight", 0)} IN
    WarpStep(x.warps, {}, All(cells, 0),
             [c \in {Shared("weight", 0)} |-> Weights(x)] @@ [c \in {MaxCell} |-> {MaxCell} \cup Weights(x)] @@ All({SumCell, lScaled}, {SumCell}),
             [c \in {AlphaCell} |-> Scaling(tile0)])
WarpSumCells(x) == {Shared("scratch", t) : t \in Upto(x.blockKV)}
WeightsAndSums(x, tile0) ==
    LET cells == Weights(x) \cup WarpSumCells(x) IN
    Wanting(RoundOf(Upto(x.warps), [w \in Upto(x.warps) |-> IF w < x.blockKV THEN {MaxCell, Shared("score", w)} ELSE {}],
                    [c \in cells |-> c[3]], Nothing, [c \in cells |-> {Shared("score", c[3])}]),
            [c \in {MaxCell} |-> SeenBy(x, tile0)])
WarpSoftmax(x, tile0) == <<WarpMaxima(x), BlockMaximum(x, tile0), WeightsAndSums(x, tile0)>>

\* acc * alpha + weights * values, by the warps that own the columns.
AccumulateTile(x, tile0) ==
    LET attended == {t \in Upto(x.blockKV) : Attends(x, tile0, t)}
        acc == {Shared("acc", d) : d \in Upto(HeadDim)}
        values(d) == IF x.direct THEN {} ELSE {Shared("V", t * HeadDim + d) : t \in attended}
        round == [c \in acc |-> {c, AlphaCell} \cup Weights(x) \cup values(c[3])] IN
    Wanting(RoundOf(Upto(x.warps), [w \in Upto(x.warps) |-> IF w < OutWarps THEN round[Shared("acc", w)] ELSE {}],
                    [c \in acc |-> c[3]],
                    [c \in acc |-> IF x.direct THEN {<<"V", (x.k + tile0 + t) * HeadDim + c[3]>> : t \in attended} ELSE {}],
                    [c \in acc |-> {c} \cup Weights(x) \cup values(c[3])]),
            [c \in {AlphaCell} |-> SetToBag(Scaling(tile0))])

OutOf(x) == [c \in {Shared("out", x.q * HeadDim + d) : d \in Upto(HeadDim)} |-> c[3] % HeadDim]
StoreOut(x) ==
    WarpStep(x.warps, {SumCell}, OutOf(x), [c \in DOMAIN OutOf(x) |-> {Shared("acc", OutOf(x)[c]), SumCell}], Nothing)

\* The last sum of the seventh version: thread 0 adds the warps' sums to l.
FinalSum(x) ==
    WarpStep(x.warps, {}, All({SumCell}, 0), All({SumCell}, {lScaled} \cup WarpSumCells(x)), Nothing)
\* Nothing separates it from the division by l: warp 0 knows the sum, the others read l.
FinalSumAndOut(x) ==
    LET out == OutOf(x)
        sum(w) == IF w = 0 THEN {lScaled} \cup WarpSumCells(x) ELSE {SumCell}
        own(w) == {Shared("acc", d) : d \in {e \in Upto(HeadDim) : e = w}} IN
    Wanting(RoundOf(Upto(x.warps), [w \in Upto(x.warps) |-> sum(w) \cup own(w)], out @@ All({SumCell}, 0), Nothing,
                    [c \in DOMAIN out |-> {Shared("acc", out[c])} \cup sum(out[c])] @@ All({SumCell}, sum(0))),
            [c \in {SumCell} |-> ScoreBag(x, x.attended)])

\* Every key the query attends to, weighted; divided by the sum of the weights.
AttentionRow(x) ==
    [c \in DOMAIN OutOf(x) |->
        ScoreBag(x, x.attended) (+) ScoreBag(x, x.attended)
        (+) SetToBag({<<"V", (x.k + kv) * HeadDim + OutOf(x)[c]>> : kv \in x.attended})]

TileStarts(x) == [i \in 1 .. CeilDiv(x.KV, x.blockKV) |-> (i - 1) * x.blockKV]
TileRounds(x, tile0) ==
    IF x.direct THEN <<>> ELSE IF x.async THEN <<CopyTile(x, tile0)>> ELSE <<LoadTile(x, tile0)>>

(***************************************************************************)
(* FlashAttention2dCausalSoftmax: query q attends to the keys up to q.        *)
(***************************************************************************)
FlashBlock(s, q) ==
    [q |-> q, k |-> 0, KV |-> s.KV, blockKV |-> s.blockKV, warps |-> OutWarps + s.scoreWarps, direct |-> s.direct,
     async |-> s.async, attended |-> {kv \in Upto(s.KV) : kv <= q}]

lowerCudaFlashAttention2dCausalSoftmaxV6(s) ==
    LET tile(x, tile0) == TileRounds(x, tile0) \o <<FlashScores(x, tile0)>> \o SerialSoftmax(x, tile0)
                          \o <<AccumulateTile(x, tile0)>>
        rounds(x) == <<LoadQuery(x), InitScalars(x)>>
                     \o FlattenSeq([i \in DOMAIN TileStarts(x) |-> tile(x, TileStarts(x)[i])]) \o <<StoreOut(x)>> IN
    [q \in Upto(s.Q) |->
        LET x == FlashBlock(s, q) IN
        Leaving(Upto(x.warps), rounds(x), AttentionRow([q |-> q, k |-> 0, attended |-> (0 .. q) \cap Upto(s.KV)]))]

\* The seventh version; the sums of a tile are added while the next one is loaded.
FlashV7(x) ==
    LET starts == TileStarts(x)
        begun(i) == IF x.direct THEN <<FlashScores(x, starts[i])>> ELSE TileRounds(x, starts[i]) \o <<FlashScores(x, starts[i])>>
        entered(i) == IF i = 1 THEN begun(i) ELSE <<Fused(FinalSum(x), begun(i)[1])>> \o Tail(begun(i))
        tile(i) == entered(i) \o WarpSoftmax(x, starts[i]) \o <<AccumulateTile(x, starts[i])>> IN
    KernelOf(Upto(x.warps), <<LoadQuery(x), InitScalars(x)>> \o FlattenSeq([i \in DOMAIN starts |-> tile(i)])
                            \o <<FinalSumAndOut(x)>>)

(***************************************************************************)
(* AttnFwdSoftmax: every key, for each batch and head.                        *)
(***************************************************************************)
ForwardBlock(s, bid) ==
    LET qRow == bid % s.QCTX
        head == (bid \div s.QCTX) % s.QH
        z == (bid \div s.QCTX) \div s.QH
        zh == z * s.QH + head IN
    [q |-> zh * s.QCTX + qRow, k |-> zh * s.KVCTX, KV |-> s.KVCTX, blockKV |-> s.blockKV,
     warps |-> OutWarps + s.scoreWarps, direct |-> FALSE, async |-> FALSE, attended |-> Upto(s.KVCTX)]

ForwardScores(x, tile0) ==
    WarpStep(x.warps, {}, [c \in Scores(x) |-> OutWarps + (c[3] % (x.warps - OutWarps))],
             [c \in Scores(x) |-> IF tile0 + c[3] < x.KV THEN QueryCells \cup KeyCells(c[3]) ELSE {}], Nothing)

\* Halving: of the first 2 * stride cells of name those below stride take up the others.
Halve(x, name, stride) ==
    LET cells == {Shared(name, t) : t \in Upto(stride)} IN
    WarpStep(x.warps, {}, [c \in cells |-> c[3]], [c \in cells |-> {c, Shared(name, c[3] + stride)}], Nothing)
Strides(x) == LET n == CHOOSE k \in Upto(x.blockKV) : 2 ^ k = x.blockKV IN [i \in 1 .. n |-> 2 ^ (n - i)]

HalvedMaximum(x, tile0) ==
    LET strides == Strides(x)
        first == Shared("weight", 0) IN
    <<WarpMaxima(x)>> \o [i \in DOMAIN strides |-> Halve(x, "weight", strides[i])]
    \o <<WarpStep(x.warps, {}, All({MaxCell, SumCell, AlphaCell}, 0), [c \in {MaxCell} |-> {MaxCell, first}] @@ [c \in {SumCell} |-> {SumCell}],
                  [c \in {AlphaCell} |-> Scaling(tile0)])>>
HalvedSum(x, tile0) ==
    LET strides == Strides(x)
        cells == Weights(x) \cup Scores(x) IN
    <<Wanting(RoundOf(Upto(x.warps), [w \in Upto(x.warps) |-> IF w < x.blockKV THEN {MaxCell, Shared("score", w)} ELSE {}],
                      [c \in cells |-> c[3]], Nothing, [c \in cells |-> {Shared("score", c[3])}]),
              [c \in {MaxCell} |-> SeenBy(x, tile0)])>>
    \o [i \in DOMAIN strides |-> Halve(x, "score", strides[i])]
    \o <<WarpStep(x.warps, {}, All({SumCell}, 0), All({SumCell}, {SumCell, Shared("score", 0)}), Nothing)>>

lowerCudaAttnFwdSoftmaxV6(s) ==
    LET softmax(x, tile0) == IF s.tree THEN HalvedMaximum(x, tile0) \o HalvedSum(x, tile0) ELSE SerialSoftmax(x, tile0)
        tile(x, tile0) == <<LoadTile(x, tile0), ForwardScores(x, tile0)>> \o softmax(x, tile0) \o <<AccumulateTile(x, tile0)>>
        rounds(x) == <<LoadQuery(x), InitScalars(x)>>
                     \o FlattenSeq([i \in DOMAIN TileStarts(x) |-> tile(x, TileStarts(x)[i])]) \o <<StoreOut(x)>>
        row(o) == [q |-> Ref!Flat(<<o[1], o[2], o[3]>>, <<s.Z, s.QH, s.QCTX>>),
                   k |-> Ref!Flat(<<o[1], o[2], 0>>, <<s.Z, s.QH, s.KVCTX>>), attended |-> Upto(s.KVCTX)] IN
    [bid \in Upto(s.Z * s.QH * s.QCTX) |->
        LET x == ForwardBlock(s, bid)
            o == CHOOSE p \in Ref!Indices(<<s.Z, s.QH, s.QCTX>>) : Ref!Flat(p, <<s.Z, s.QH, s.QCTX>>) = bid IN
        Leaving(Upto(x.warps), rounds(x), AttentionRow(row(o)))]

(***************************************************************************)
(* MaskedAttention2dHd16Keys: one warp, a lane per key, then per column.       *)
(***************************************************************************)
KeyHead == 2    \* 16 in the source
lowerCudaMaskedAttention2dHd16KeysV1(Q, KV) ==
    LET lanes == Upto(WarpSize)
        score(t) == <<"lane", 0, t>>
        prob(t) == Shared("prob", t)
        query == {Shared("q", d) : d \in Upto(KeyHead)}
        out(q) == {Shared("out", q * KeyHead + d) : d \in Upto(KeyHead)}
        load(q) == WarpStep(WarpSize, {}, [c \in query |-> c[3]], Nothing, [c \in query |-> {<<"Q", q * KeyHead + c[3]>>}])
        scores(q) == WarpStep(WarpSize, {}, [c \in {score(t) : t \in lanes} |-> c[3]],
                              [c \in {score(t) : t \in {u \in Upto(KV) : ~ u > q}} |-> query],
                              [c \in {score(t) : t \in {u \in Upto(KV) : ~ u > q}} |->
                                  {<<"K", c[3] * KeyHead + d>> : d \in Upto(KeyHead)}])
        \* the maximum and the sum over all lanes; a masked key has the probability 0
        probs(q) == WarpStep(WarpSize, {score(t) : t \in lanes}, [c \in {prob(t) : t \in Upto(KV)} |-> c[3]],
                             [c \in {prob(t) : t \in {u \in Upto(KV) : ~ u > q}} |-> {score(t) : t \in lanes}], Nothing)
        sums(q) == WarpStep(WarpSize, {}, [c \in out(q) |-> c[3] % KeyHead],
                            [c \in out(q) |-> {prob(kv) : kv \in Upto(KV)}],
                            [c \in out(q) |-> {<<"V", kv * KeyHead + (c[3] % KeyHead)>> : kv \in {u \in Upto(KV) : ~ u > q}}])
        row(q) == [q |-> q, k |-> 0, attended |-> {kv \in Upto(KV) : kv <= q}] IN
    [q \in Upto(Q) |->
        Leaving(lanes, <<load(q), scores(q), probs(q), sums(q)>>,
                [c \in out(q) |->
                    FoldSet(LAMBDA kv, b : b (+) ScoreBag(row(q), row(q).attended)
                                           (+) SetToBag({<<"V", kv * KeyHead + (c[3] % KeyHead)>>}), EmptyBag, row(q).attended)])]
================================================================================
