---------------------------- MODULE SortScanKernels ----------------------------
(***************************************************************************)
(* The emitted kernels that sort a row, scan it, or scatter into it.  The   *)
(* sorting kernels hold items (value, index), the scans bags of what they   *)
(* have added up, the scatters the row of the output in global memory,      *)
(* which one block owns.                                                   *)
(***************************************************************************)
EXTENDS BlockShape

Least2(a, b) == IF a < b THEN a ELSE b

(***************************************************************************)
(* Bitonic sort of a row of at most Width values, one to a thread, padded.  *)
(* For every k and j the thread below its partner orders the two cells.     *)
(***************************************************************************)
Pad == 9
Partner(t, j) == IF (t \div j) % 2 = 0 THEN t + j ELSE t - j    \* t xor j, j a power of 2
Upward_fault(t, k) == TRUE                                      \* one direction for all
Upward(t, k) == (t \div k) % 2 = 0                              \* t and k is 0
Owner(c, j) == Least2(c, Partner(c, j))

Compare(k, j) ==
    [RoundOf(Ts, [t \in Ts |-> IF Partner(t, j) > t THEN {t, Partner(t, j)} ELSE {}],
             [c \in Ts |-> Owner(c, j)], Nothing, [c \in Ts |-> {c, Partner(c, j)}])
        EXCEPT !.pick = [c \in Ts |-> IF Upward(Owner(c, j), k) = (c = Owner(c, j))
                                      THEN "min" ELSE "max"]]

Schedule == [i \in 0 .. Levels |->
                IF i = 0 THEN <<>> ELSE [m \in 1 .. i |-> Compare(2 ^ i, 2 ^ (i - m))]]
Network[i \in 0 .. Levels] == IF i = 0 THEN <<>> ELSE Network[i - 1] \o Schedule[i]

PutItems(item) == Picking(Put(Ts, [c \in Ts |-> c], [c \in Ts |-> {item[c]}]), "min")
Sorting(item, take) == KernelOf(Ts, <<PutItems(item)>> \o Network[Levels] \o <<take>>)
TakeEach(reads, want) == Wanting(RoundOf(Ts, reads, Nothing, Nothing, Nothing), want)

ValuesOf(row, pad) == [t \in Ts |-> <<IF t < Len(row) THEN row[t + 1] ELSE pad, 0>>]

\* The value at rank r of the row: at most r values are smaller, more are not greater.
Ranked(row, r) ==
    CHOOSE v \in {row[j] : j \in DOMAIN row} :
        /\ Cardinality({j \in DOMAIN row : row[j] < v}) <= r
        /\ r < Cardinality({j \in DOMAIN row : row[j] <= v})
RankedItems(row) == [c \in 0 .. Len(row) - 1 |-> <<Ranked(row, c), 0>>]

row_sort_axis1_bitonic_v1(row) ==
    Sorting(ValuesOf(row, Pad),
            TakeEach([t \in Ts |-> IF t < Len(row) THEN {t} ELSE {}], RankedItems(row)))

row_sort_axis1_bitonic_descending(row) ==
    Sorting(ValuesOf(row, Pad),
            TakeEach([t \in Ts |-> IF t < Len(row) THEN {Len(row) - 1 - t} ELSE {}], RankedItems(row)))

\* Equal values keep their order: the items carry the thread they came from.
StableItems(row) == [t \in Ts |-> <<IF t < Len(row) THEN row[t + 1] ELSE Pad, t>>]
StablyRanked(row) ==
    LET items == {StableItems(row)[t] : t \in 0 .. Len(row) - 1} IN
    [c \in 0 .. Len(row) - 1 |->
        CHOOSE x \in items : Cardinality({y \in items : y # x /\ Leq(y, x)}) = c]
row_sort_axis1_bitonic_stable_v1(row) ==
    Sorting(StableItems(row),
            TakeEach([t \in Ts |-> IF t < Len(row) THEN {t} ELSE {}], StablyRanked(row)))

\* The K greatest, from the top of the sorted row, the padding below it.
row_topk_axis1_bitonic_v1(row, K) ==
    Sorting(ValuesOf(row, -Pad),
            TakeEach([t \in Ts |-> IF t < K THEN {Width - 1 - t} ELSE {}],
                     [c \in Width - K .. Width - 1 |-> <<Ranked(row, c - (Width - Len(row))), 0>>]))

\* The two neighbours of the quantile's position, which is lower or just above it.
row_quantile_axis1_sort_v1(row, lower) ==
    Sorting(ValuesOf(row, Pad),
            TakeEach(OnlyBy(Ts, {0}, {lower, Least2(lower + 1, Len(row) - 1)}), RankedItems(row)))

(***************************************************************************)
(* Inclusive scan in one cell per thread.  Reading and writing of a step    *)
(* have a barrier between them.                                            *)
(***************************************************************************)
ScanReads(t, off) == IF t >= off THEN {t, t - off} ELSE {t}
\* No barrier between the reads and the writes of a step.
ScanStep_fault(off) ==
    <<RoundOf(Ts, [t \in Ts |-> ScanReads(t, off)], [c \in Ts |-> c], Nothing,
              [c \in Ts |-> ScanReads(c, off)])>>
ScanStep(off) ==
    <<RoundOf(Ts, [t \in Ts |-> ScanReads(t, off)], Nothing, Nothing, Nothing),
      RoundOf(Ts, NoReads(Ts), [c \in Ts |-> c], Nothing, [c \in Ts |-> ScanReads(c, off)])>>
ScanSteps[i \in 0 .. Levels] == IF i = 0 THEN <<>> ELSE ScanSteps[i - 1] \o ScanStep(2 ^ (i - 1))

PrefixSum ==
    KernelOf(Ts, <<Put(Ts, [c \in Ts |-> c], [c \in Ts |-> {<<"flag", c>>}])>> \o ScanSteps[Levels]
                 \o <<TakeEach([t \in Ts |-> {t}],
                               [c \in Ts |-> SetToBag({<<"flag", u>> : u \in 0 .. c})])>>)
masked_select2d_prefixsum_v1 == PrefixSum
masked_scatter2d_prefixsum_v1 == PrefixSum

(***************************************************************************)
(* Inclusive scan of a row in tiles.  Us are the warps; the last lane of    *)
(* each writes the warp's total, warp 0 turns the totals into the sums of   *)
(* the warps below, and the last warp keeps the running total in the cell   *)
(* carry, which every thread has read before.                              *)
(***************************************************************************)
WarpCount == 8                      \* cWarps: room for the warps' totals, then for their offsets
Carry == 16
Denom == 17
OffsetOf(w) == WarpCount + w
TileBelow(i, w) == {<<"x", i, v>> : v \in 0 .. w - 1}
TilesBefore(Us, i) == {<<"x", j, v>> : j \in 1 .. i - 1, v \in Us}

WarpTotals(Us, i) ==
    Wanting(RoundOf(Us, All(Us, {Carry}), [c \in Us |-> c], [c \in Us |-> {<<"x", i, c>>}], Nothing),
            [c \in {Carry} |-> SetToBag(TilesBefore(Us, i))])
WarpOffsets(Us) ==
    RoundOf(Us, OnlyBy(Us, {0}, Us), [c \in {OffsetOf(w) : w \in Us} |-> 0], Nothing,
            [c \in {OffsetOf(w) : w \in Us} |-> {v \in Us : v < c - WarpCount}])
AddOffsets(Us, i) ==
    LET last == Cardinality(Us) - 1 IN
    Wanting(RoundOf(Us, [w \in Us |-> {OffsetOf(w)}], [c \in {Carry} |-> last],
                    [c \in {Carry} |-> {<<"x", i, last>>}], [c \in {Carry} |-> {Carry, OffsetOf(last)}]),
            [c \in {OffsetOf(w) : w \in Us} |-> SetToBag(TileBelow(i, c - WarpCount))])
ClearCarry(Us) == Put(Us, [c \in {Carry} |-> 0], Nothing)

ScanTile(Us, i) == <<WarpTotals(Us, i), WarpOffsets(Us), AddOffsets(Us, i)>>
TiledScan(Us) == ScanTile(Us, 1) \o ScanTile(Us, 2)

cumsum2d_axis1_v1 == KernelOf(Ws, <<ClearCarry(Ws)>> \o TiledScan(Ws))
cummax1d_axis0_v1 == KernelOf(Ws, <<ClearCarry(Ws)>> \o TiledScan(Ws))
cummin1d_axis0_v1 == KernelOf(Ws, <<ClearCarry(Ws)>> \o TiledScan(Ws))

(***************************************************************************)
(* The row's sum first, by the tree; thread 0 keeps it in the cell Denom    *)
(* and clears the carry.  A thread here is a warp of one lane.              *)
(***************************************************************************)
TreeSum(i) ==
    LET s == 2 ^ (Levels - i) IN
    RoundOf(Ts, [t \in Ts |-> IF t < s THEN {t, t + s} ELSE {}], [c \in 0 .. s - 1 |-> c],
            Nothing, [c \in 0 .. s - 1 |-> {c, c + s}])
RowTotal == SetToBag({<<"total", t>> : t \in Ts})
KeepTotal ==
    Wanting(RoundOf(Ts, All(Ts, {0}), [c \in {Carry, Denom} |-> 0], Nothing, [c \in {Denom} |-> {0}]),
            [c \in {0} |-> RowTotal])
TakeTotal == TakeBy(Ts, Ts, [c \in {Denom} |-> RowTotal])

normed_cumsum2d_axis1_v1 ==
    LET scan == TiledScan(Ts) IN
    KernelOf(Ts, <<Put(Ts, [c \in Ts |-> c], [c \in Ts |-> {<<"total", c>>}])>>
                 \o [i \in 1 .. Levels |-> TreeSum(i)]
                 \o <<KeepTotal, Fused(TakeTotal, Head(scan))>> \o Tail(scan))

(***************************************************************************)
(* Scatters: the block copies its row to the output, and after a barrier    *)
(* overwrites the addressed columns.  Column c is copied by thread c modulo *)
(* Width; columns outside the row are skipped.                             *)
(***************************************************************************)
Columns == 0 .. Elems - 1
CopyRow == Put(Ts, [c \in Columns |-> c % Width], [c \in Columns |-> {<<"base", c>>}])
Overwrite(by, index) == Put(Ts, by, [c \in DOMAIN index |-> {<<"src", index[c]>>}])
Addressed(index) == Columns \cap {index[i] : i \in DOMAIN index}
Scattered(source) ==
    [c \in Columns |-> SetToBag({IF c \in DOMAIN source THEN <<"src", source[c]>> ELSE <<"base", c>>})]
Scattering(by, source) == Leaving(Ts, <<CopyRow, Overwrite(by, source)>>, Scattered(source))

(***************************************************************************)
(* Thread 0 goes through the entries in order, a round to each here: no      *)
(* other thread has anything to do.  The last entry for a column stays.     *)
(***************************************************************************)
Entry_fault(index, i) == Len(index) + 1 - i     \* the entries from the last to the first
Entry(index, i) == i
PutEntry(index, i) ==
    LET source == [c \in Columns \cap {index[i]} |-> i] IN Overwrite([c \in DOMAIN source |-> 0], source)
LastFor(index, c) == CHOOSE i \in DOMAIN index : index[i] = c /\ \A j \in DOMAIN index : index[j] = c => j <= i

index_put2d_v1(index) ==
    Leaving(Ts, <<CopyRow>> \o [i \in DOMAIN index |-> PutEntry(index, Entry(index, i))],
            Scattered([c \in Addressed(index) |-> LastFor(index, c)]))

\* Every thread writes for itself; the index row names no column twice.
scatter2d_dim1_v1(index) ==
    LET source == [c \in Addressed(index) |-> CHOOSE i \in DOMAIN index : index[i] = c] IN
    Scattering([c \in DOMAIN source |-> (source[c] - 1) % Width], source)

select_scatter2d_dim1_v1(col) == Scattering([c \in {col} |-> 0], [c \in {col} |-> 1])

slice_scatter2d_dim1_v1(start, step, length) ==
    LET at == {start + j * step : j \in 0 .. length - 1} IN
    Scattering([c \in at |-> ((c - start) \div step) % Width], [c \in at |-> (c - start) \div step])
================================================================================
