------------------------- MODULE MCCoverageBatches -------------------------
(* CoverageBatches with two families, f1 of two ops and f2 of one; f1 runs *)
(* in one chunk or in two.                                                 *)
EXTENDS CoverageBatches

MCFamilyOrder == <<"f1", "f2">>
MCSemanticOps == [f1 |-> {"a", "b"}, f2 |-> {"c"}]

Split == [f1 |-> <<{"a"}, {"b"}>>, f2 |-> <<{"c"}>>]
Joint == [f1 |-> <<{"a", "b"}>>, f2 |-> <<{"c"}>>]

CommandLines(families, resume, dual, plans) ==
    [families : families, resume : resume, require_dual_pass : dual, chunks : plans]

(* Any command line over the whole scope or a part of it; the default one  *)
(* over any scope; and over a family of a single chunk.                    *)
MCFull   == CommandLines({<<"f1", "f2">>, <<"f2", "f1">>, <<"f1">>}, BOOLEAN, BOOLEAN, {Split, Joint})
MCAny    == CommandLines({<<"f1", "f2">>, <<"f2">>}, {TRUE}, {TRUE}, {Split})
MCSingle == CommandLines({<<"f2">>}, {TRUE}, {TRUE}, {Split})
=============================================================================
