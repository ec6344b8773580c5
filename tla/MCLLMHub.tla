------------------------------ MODULE MCLLMHub ------------------------------
(* LLMHub with two models and two prompts.                                 *)
EXTENDS LLMHub

CONSTANTS m1, m2, p1, p2

MCModels     == {m1, m2}
MCCandidates == <<m1, m2>>
MCPrompts    == {p1, p2}
=============================================================================
