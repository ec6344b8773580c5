---------------------------- MODULE MCLLMClient ----------------------------
(* LLMClient with three candidates, one of them without a key, called with *)
(* the hub's limits and with degenerate ones, and Retry-After values below,*)
(* at and beyond the cap and the budget.                                   *)
EXTENDS LLMClient

CONSTANTS m1, m2, m3

MCCandidates  == <<m1, m2, m3>>
MCHasKey      == {m1, m3}
MCRetryAfters == {0, 7, 15, 60, 120}

Limit(retries, wait) == [max_retries |-> retries, max_total_wait_s |-> wait]

MCLimits == {Limit(4, 180), Limit(0, 20), Limit(2, -1)}
=============================================================================
