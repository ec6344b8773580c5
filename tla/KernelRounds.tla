----------------------------- MODULE KernelRounds -----------------------------
(***************************************************************************)
(* The rounds that the emitted kernels are built from.  A round says which  *)
(* cells of shared memory each thread reads, which cells each writes, and   *)
(* what: the bag of what it read from the cells from[c] and of its own      *)
(* contribution fresh[c], or the least or the greatest of these.            *)
(*                                                                         *)
(* Values are kept as what they are made of: a cell of a sum, a maximum or  *)
(* a tile holds the bag of the contributions that went into it, so a lost,  *)
(* a doubled or a foreign contribution shows; a cell of a sort or an argmin *)
(* holds the item itself, a pair of value and index.                        *)
(***************************************************************************)
EXTENDS Integers, Sequences, FiniteSets, Bags, Folds, TLC

\* What a cell holds before the kernel has written it.
Unwritten(c) == SetToBag({<<"unwritten", c>>})

Leq(x, y) == x[1] < y[1] \/ (x[1] = y[1] /\ x[2] <= y[2])
Least(S) == CHOOSE x \in S : \A y \in S : Leq(x, y)
Greatest(S) == CHOOSE x \in S : \A y \in S : Leq(y, x)
\* The greatest value at its smallest index.
Top(S) == CHOOSE x \in S : \A y \in S : x[1] > y[1] \/ (x[1] = y[1] /\ x[2] <= y[2])

BagOfCells(S, held) == MapThenFoldSet(LAMBDA x, y : x (+) y, EmptyBag,
                                      LAMBDA c : held[c], LAMBDA T : CHOOSE c \in T : TRUE, S)

\* What a thread with the registers held writes to cell c in round r.
Value(r, held, c) ==
    CASE r.pick[c] = "sum" -> BagOfCells(r.from[c], held) (+) SetToBag(r.fresh[c])
      [] r.pick[c] = "min" -> Least(r.fresh[c] \cup {held[d] : d \in r.from[c]})
      [] r.pick[c] = "max" -> Greatest(r.fresh[c] \cup {held[d] : d \in r.from[c]})
      [] r.pick[c] = "top" -> Top(r.fresh[c] \cup {held[d] : d \in r.from[c]})

Nothing == [c \in {} |-> {}]

\* Thread t of Ts reads reads[t]; cell c of DOMAIN by is written by thread by[c].
RoundOf(Ts, reads, by, fresh, from) ==
    [load |-> reads,
     store |-> [t \in Ts |-> {c \in DOMAIN by : by[c] = t}],
     fresh |-> [c \in DOMAIN by |-> IF c \in DOMAIN fresh THEN fresh[c] ELSE {}],
     from |-> [c \in DOMAIN by |-> IF c \in DOMAIN from THEN from[c] ELSE {}],
     pick |-> [c \in DOMAIN by |-> "sum"],
     want |-> Nothing]

All(S, x) == [i \in S |-> x]
NoReads(Ts) == All(Ts, {})
OnlyBy(Ts, who, cells) == [t \in Ts |-> IF t \in who THEN cells ELSE {}]

Picking(r, pick) == [r EXCEPT !.pick = [c \in DOMAIN @ |-> pick]]
Wanting(r, want) == [r EXCEPT !.want = want]

\* A round of Ts in which each cell of by gets the contribution fresh[c].
Put(Ts, by, fresh) == RoundOf(Ts, NoReads(Ts), by, fresh, Nothing)

\* A round in which the threads in who read the cells of want, and write nothing.
TakeBy(Ts, who, want) ==
    Wanting(RoundOf(Ts, OnlyBy(Ts, who, DOMAIN want), Nothing, Nothing, Nothing), want)

(***************************************************************************)
(* Two rounds of the source, r before s, with no gpu.barrier between them:  *)
(* s reads nothing that its own thread writes in r, so that the threads'    *)
(* reads may come first.                                                   *)
(***************************************************************************)
Fused(r, s) ==
    [load |-> [t \in DOMAIN r.load |-> r.load[t] \cup s.load[t]],
     store |-> [t \in DOMAIN r.store |-> r.store[t] \cup s.store[t]],
     fresh |-> s.fresh @@ r.fresh,
     from |-> s.from @@ r.from,
     pick |-> s.pick @@ r.pick,
     want |-> s.want @@ r.want]

CellsOf(rounds) ==
    UNION {UNION {rounds[i].load[t] \cup rounds[i].store[t] : t \in DOMAIN rounds[i].load}
           : i \in DOMAIN rounds}

\* A kernel whose threads Ts all run the rounds; output names what its cells hold at the end.
Leaving(Ts, rounds, output) ==
    [threads |-> Ts, idle |-> {}, rounds |-> rounds, cells |-> CellsOf(rounds), output |-> output]
KernelOf(Ts, rounds) == Leaving(Ts, rounds, Nothing)
================================================================================
