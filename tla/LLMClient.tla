----------------------------- MODULE LLMClient -----------------------------
(***************************************************************************)
(* chat_completion (intent_ir/llm/llm_client.py): one call to the chat     *)
(* endpoint.  It answers from the response cache if it can; otherwise it   *)
(* asks the candidate models in turn, retrying each on transient errors    *)
(* within a bound on the attempts and on the time slept.                   *)
(*                                                                         *)
(* Times are counted in half seconds (a first timeout waits 1.5 s).        *)
(***************************************************************************)
EXTENDS Integers, Sequences, FiniteSets

CONSTANTS
    Candidates,      \* the models to try, in order
    HasKey,          \* those an api_key is configured for
    Limits,          \* what callers pass: [max_retries, max_total_wait_s]
    retry_after_cap, \* INTENTIR_LLM_RETRY_AFTER_CAP_S
    RetryAfters,     \* the Retry-After values a provider may send, in seconds
    use_cache

ASSUME CandidatesAssumption == /\ Candidates # << >>
                               /\ \A i, j \in 1..Len(Candidates) :
                                     Candidates[i] = Candidates[j] => i = j
ASSUME NumbersAssumption == /\ Limits \subseteq [max_retries : Int, max_total_wait_s : Int]
                            /\ retry_after_cap \in Int /\ RetryAfters \subseteq Int
                            /\ use_cache \in BOOLEAN

Min2(a, b) == IF a <= b THEN a ELSE b
Max2(a, b) == IF a >= b THEN a ELSE b

Transient == {"timeout", "request", "throttled", "server"}

(* How long a transient error of the given kind is slept on; h holds the   *)
(* Retry-After of a 429, if it came with one (15 if it is no number).      *)
Wait(kind, a, h) ==
    CASE kind = "timeout"   -> IF a < 3 THEN <<3, 6, 12>>[a + 1] ELSE 20
      [] kind = "request"   -> Min2(10, 2 * (a + 1))
      [] kind = "server"    -> Min2(20, 2 * (a + 1) * (a + 1))
      [] kind = "throttled" ->
            2 * Max2(1, Min2(IF h = << >> THEN 15 * (a + 1) ELSE h[1], Max2(1, retry_after_cap)))

VARIABLES
    pc,          \* "lookup", "request", or how the call ended
    i,           \* index of the candidate being tried
    attempt, total_wait,
    cached,      \* the response file: "none", "torn" or "whole"
    requests,    \* history: the requests this call sent to each candidate
    limits       \* the arguments of this call

vars == <<pc, i, attempt, total_wait, cached, requests, limits>>

(* X_fault is a faulty form of the definition X it precedes; nothing uses  *)
(* it.                                                                     *)
Attempts_exact == limits.max_retries
Attempts == Max2(1, limits.max_retries)
Budget == 2 * limits.max_total_wait_s

Index == 1..Len(Candidates)
Ended == {"answered", "crashed", "raised", "killed"}

TypeOK ==
    /\ pc \in {"lookup", "request"} \cup Ended
    /\ i \in Index \cup {Len(Candidates) + 1}
    /\ attempt \in Nat /\ total_wait \in Nat
    /\ cached \in {"none", "torn", "whole"}
    /\ requests \in [Index -> Nat]
    /\ limits \in Limits

Init ==
    /\ pc = "lookup" /\ cached \in {"none", "torn", "whole"}
    /\ i = 1 /\ attempt = 0 /\ total_wait = 0 /\ limits \in Limits
    /\ requests = [j \in Index |-> 0]

(* The same messages are asked about again, in this process or the next.   *)
AskAgain ==
    /\ pc \in Ended /\ pc' = "lookup"
    /\ i' = 1 /\ attempt' = 0 /\ total_wait' = 0 /\ limits' \in Limits
    /\ requests' = [j \in Index |-> 0]
    /\ UNCHANGED cached

(* A file that does not hold a JSON object counts as no file: it is torn.  *)
Lookup_rereads ==
    /\ pc = "lookup"
    /\ pc' = IF ~use_cache \/ cached = "none" THEN "request"
             ELSE IF cached = "whole" THEN "answered" ELSE "lookup"
    /\ UNCHANGED <<i, attempt, total_wait, cached, requests, limits>>
Lookup ==
    /\ pc = "lookup"
    /\ pc' = IF use_cache /\ cached = "whole" THEN "answered" ELSE "request"
    /\ UNCHANGED <<i, attempt, total_wait, cached, requests, limits>>

GiveUp_skips == i' = i + 2 /\ attempt' = 0 /\ total_wait' = 0
GiveUp == i' = i + 1 /\ attempt' = 0 /\ total_wait' = 0

SkipKeyless ==
    /\ pc = "request" /\ i \in Index /\ Candidates[i] \notin HasKey
    /\ GiveUp
    /\ UNCHANGED <<pc, cached, requests, limits>>

MayAsk_again == pc = "request" /\ i \in Index /\ Candidates[i] \in HasKey /\ attempt <= Attempts
MayAsk == pc = "request" /\ i \in Index /\ Candidates[i] \in HasKey /\ attempt < Attempts

Ask == MayAsk /\ requests' = [requests EXCEPT ![i] = @ + 1]

(* A transient error: sleep and try again, unless that would exceed the    *)
(* budget.  It sleeps after the last attempt too.                          *)
Exhausted_late(wait) == total_wait > Budget
Exhausted(wait) == total_wait + wait > Budget

Retry(kind, h) ==
    /\ Ask
    /\ LET wait == Wait(kind, attempt, h)
       IN  IF Exhausted(wait) THEN GiveUp
           ELSE /\ total_wait' = total_wait + wait
                /\ attempt' = attempt + 1
                /\ UNCHANGED i
    /\ UNCHANGED <<pc, cached, limits>>

OutOfAttempts ==
    /\ pc = "request" /\ i \in Index /\ Candidates[i] \in HasKey /\ attempt >= Attempts
    /\ GiveUp
    /\ UNCHANGED <<pc, cached, requests, limits>>

(* Another status, or a body that is not JSON.                             *)
Refused == Ask /\ GiveUp /\ UNCHANGED <<pc, cached, limits>>

(* The response is written over the file; an error of the write is         *)
(* swallowed and may leave it torn.  One that is no JSON object is written *)
(* too, and then makes the call crash.                                     *)
Answered ==
    /\ Ask
    /\ \/ /\ pc' = "answered"
          /\ cached' \in IF use_cache THEN {"whole", "torn", cached} ELSE {cached}
       \/ /\ pc' = "crashed"
          /\ cached' \in IF use_cache THEN {"torn", cached} ELSE {cached}
    /\ UNCHANGED <<i, attempt, total_wait, limits>>

NoCandidateLeft ==
    /\ pc = "request" /\ i \notin Index
    /\ pc' = "raised"
    /\ UNCHANGED <<i, attempt, total_wait, cached, requests, limits>>

(* The process dies, in the middle of a write perhaps.                     *)
Kill ==
    /\ pc \notin Ended
    /\ pc' = "killed"
    /\ cached' \in IF use_cache /\ pc = "request" THEN {"torn", cached} ELSE {cached}
    /\ UNCHANGED <<i, attempt, total_wait, requests, limits>>

Step ==
    \/ Lookup \/ SkipKeyless \/ OutOfAttempts \/ Refused \/ Answered \/ NoCandidateLeft
    \/ \E kind \in Transient : Retry(kind, << >>)
    \/ \E r \in RetryAfters : Retry("throttled", <<r>>)

Next == Step \/ AskAgain \/ Kill

Spec == Init /\ [][Next]_vars

(* The call is one thread, whose sleeps end; a request is answered, fails  *)
(* or times out, for no provider trickles bytes for ever.                  *)
FairSpec == Spec /\ WF_vars(Step)

-----------------------------------------------------------------------------
(* Whatever a provider answers, and whatever Retry-After it sends, a       *)
(* candidate is not slept on for longer than the budget, which may be zero *)
(* or negative.                                                            *)
SleepWithinBudget == total_wait <= Max2(0, Budget)

(* No candidate is sent more requests than the retries allow, and a call   *)
(* that raises has asked every candidate it has a key for at least once,   *)
(* even with max_retries set to zero.                                      *)
RequestsBounded == \A j \in Index : requests[j] <= Attempts
AllTriedBeforeRaise ==
    pc = "raised" => \A j \in Index : Candidates[j] \in HasKey => requests[j] >= 1

(* Every call ends, however the providers behave.                          *)
CallEnds == pc = "lookup" ~> pc \in Ended
=============================================================================
