------------------------------- MODULE LLMHub -------------------------------
(***************************************************************************)
(* LLMIntentHub (intent_ir/llm/llm_hub.py): the lifts of one process, each *)
(* asking the candidate models in order, twice over, for a proposal that   *)
(* parses.  The hub remembers the health of each model; the responses are  *)
(* kept on disk and outlive the process.  A call of chat_completion is one *)
(* step here; LLMClient is its inside.                                     *)
(***************************************************************************)
EXTENDS Naturals, Sequences, FiniteSets

CONSTANTS
    Models,       \* the configured models
    Candidates,   \* those a lift tries, in order
    Prompts,      \* the messages a lift may send
    max_attempts, server_error_disable_after,
    allow_model_fallback, use_cache,
    MaxStreak     \* bound: longer streaks of server errors are not explored

ASSUME HubAssumption ==
    /\ Candidates \in Seq(Models) /\ Candidates # << >>
    /\ \A i, j \in 1..Len(Candidates) : Candidates[i] = Candidates[j] => i = j
    /\ max_attempts \in Nat /\ server_error_disable_after \in Nat
    /\ MaxStreak \in Nat
    /\ allow_model_fallback \in BOOLEAN /\ use_cache \in BOOLEAN

(* A response: one whose shape raises where nothing is caught, text without *)
(* a JSON block, JSON that is no valid intent, or a proposal.              *)
Reply == {"malformed", "notjson", "invalid", "good"}

(* How a call without response fails, as _maybe_disable_model reads it.    *)
Failure == {"quota", "server", "other"}

VARIABLES
    disabled,    \* disabled_models: "no", "cooling", "expired" or "hard" (until = inf)
    streak,      \* model_fail_streak
    disk,        \* the response files: "none", "torn" or what they hold
    pc, prompt, attempt, i,
    hit,         \* the response in hand came from disk
    paid         \* history: the requests of this attempt, per model

health == <<disabled, streak>>
vars == <<disabled, streak, disk, pc, prompt, attempt, i, hit, paid>>

Idle == {"idle", "returned", "raised"}
m   == Candidates[i]
key == <<prompt, m>>

TypeOK ==
    /\ disabled \in [Models -> {"no", "cooling", "expired", "hard"}]
    /\ streak \in [Models -> Nat]
    /\ disk \in [Prompts \X Models -> {"none", "torn"} \cup Reply]
    /\ pc \in Idle \cup {"candidate", "call", "invalid", "bust", "unwrap"}
    /\ prompt \in Prompts
    /\ attempt \in Nat /\ i \in 1..Len(Candidates) + 1
    /\ pc \in {"call", "invalid", "bust", "unwrap"} => i \in 1..Len(Candidates)
    /\ hit \in BOOLEAN
    /\ paid \in [Models -> Nat]

Init ==
    /\ disabled = [x \in Models |-> "no"]
    /\ streak = [x \in Models |-> 0]
    /\ disk = [k \in Prompts \X Models |-> "none"]
    /\ pc = "idle" /\ prompt \in Prompts /\ attempt = 0 /\ i = 1 /\ hit = FALSE
    /\ paid = [x \in Models |-> 0]

Unpaid == paid' = [x \in Models |-> 0]

Lift(p) ==
    /\ pc \in Idle
    /\ pc' = "candidate" /\ prompt' = p /\ attempt' = 0 /\ i' = 1 /\ hit' = FALSE
    /\ Unpaid
    /\ UNCHANGED <<health, disk>>

(* X_fault is a faulty form of the definition X it precedes; nothing uses  *)
(* it.                                                                     *)
NextCandidate_unchecked == pc' = "call" /\ i' = i + 1 /\ hit' = FALSE
NextCandidate == pc' = "candidate" /\ i' = i + 1 /\ hit' = FALSE

(* _is_model_disabled, which forgets a cooldown that has passed.           *)
IsModelDisabled_cooling(x) == disabled[x] = "cooling"
IsModelDisabled(x) == disabled[x] \in {"cooling", "hard"}

Skip_waits == UNCHANGED <<pc, i, hit>>
Skip == NextCandidate

Candidate ==
    /\ pc = "candidate" /\ i <= Len(Candidates)
    /\ IF IsModelDisabled(m)
       THEN Skip /\ UNCHANGED disabled
       ELSE /\ pc' = "call"
            /\ disabled' = IF disabled[m] = "expired" THEN [disabled EXCEPT ![m] = "no"]
                           ELSE disabled
            /\ UNCHANGED <<i, hit>>
    /\ UNCHANGED <<streak, disk, prompt, attempt, paid>>

(* What the caller does with a response: only a proposal is used; one that *)
(* is JSON but no intent is looked at again if it came from disk.          *)
Parsed == [malformed |-> "raised", invalid |-> "invalid", good |-> "unwrap"]

Take(reply, fromDisk) ==
    \/ reply = "notjson" /\ NextCandidate
    \/ reply # "notjson" /\ pc' = Parsed[reply] /\ hit' = fromDisk /\ i' = i

ReadDisk ==
    /\ pc = "call" /\ use_cache /\ disk[key] \in Reply
    /\ Take(disk[key], TRUE)
    /\ UNCHANGED <<health, disk, prompt, attempt, paid>>

Missing == ~use_cache \/ disk[key] \notin Reply

Request == paid' = [paid EXCEPT ![m] = @ + 1]

(* The response is written to its file; a failing write is swallowed.      *)
Written(reply) ==
    IF use_cache THEN {[disk EXCEPT ![key] = x] : x \in {reply, "torn", disk[key]}}
    ELSE {disk}

Receive ==
    /\ pc = "call" /\ Missing
    /\ Request
    /\ \E reply \in Reply : Take(reply, FALSE) /\ disk' \in Written(reply)
    /\ UNCHANGED <<health, prompt, attempt>>

(* _maybe_disable_model: quota exhaustion disables for good; a streak of   *)
(* server errors cools the model down, unless it is the only candidate.    *)
CoolsDown(n) == allow_model_fallback /\ n >= server_error_disable_after

MaybeDisable(err) ==
    /\ streak' = IF err = "server" THEN [streak EXCEPT ![m] = @ + 1] ELSE streak
    /\ disabled' = IF err = "quota" THEN [disabled EXCEPT ![m] = "hard"]
                   ELSE IF err = "server" /\ CoolsDown(streak[m] + 1)
                   THEN [disabled EXCEPT ![m] = "cooling"] ELSE disabled

CallFails ==
    /\ pc = "call" /\ Missing
    /\ Request
    /\ \E err \in Failure :
          /\ err = "server" => streak[m] < MaxStreak
          /\ MaybeDisable(err)
    /\ NextCandidate
    /\ UNCHANGED <<disk, prompt, attempt>>

(* An invalid completion from disk is deleted, once, if that is possible.  *)
Busts_always == TRUE
Busts == hit

Invalid ==
    /\ pc = "invalid"
    /\ \/ /\ Busts /\ pc' = "bust"
          /\ disk' = [disk EXCEPT ![key] = "none"]
          /\ UNCHANGED <<i, hit>>
       \/ NextCandidate /\ UNCHANGED disk
    /\ UNCHANGED <<health, prompt, attempt, paid>>

(* The model is asked again; whatever goes wrong is swallowed, and the     *)
(* health of the model is left as it was.                                  *)
Refetch ==
    /\ pc = "bust"
    /\ Request
    /\ \/ NextCandidate /\ UNCHANGED disk
       \/ \E reply \in Reply :
             /\ disk' \in Written(reply)
             /\ \/ /\ reply = "good" /\ pc' = "returned"
                   /\ UNCHANGED <<i, hit>>
                \/ NextCandidate
    /\ UNCHANGED <<disabled, streak, prompt, attempt>>

(* A proposal resets the streak, from disk or not; repairing it against    *)
(* the descriptor may raise.                                               *)
Unwrap ==
    /\ pc = "unwrap"
    /\ streak' = [streak EXCEPT ![m] = 0]
    /\ pc' \in {"returned", "raised"}
    /\ UNCHANGED <<disabled, disk, prompt, attempt, i, hit, paid>>

(* All candidates failed: once more, with the errors as feedback, which    *)
(* makes it another prompt.                                                *)
NextAttempt ==
    /\ pc = "candidate" /\ i > Len(Candidates)
    /\ attempt' = attempt + 1
    /\ IF attempt' < IF max_attempts = 0 THEN 1 ELSE max_attempts
       THEN /\ i' = 1 /\ prompt' \in Prompts \ {prompt} /\ Unpaid /\ UNCHANGED pc
       ELSE pc' = "raised" /\ UNCHANGED <<i, prompt, paid>>
    /\ UNCHANGED <<health, disk, hit>>

-----------------------------------------------------------------------------
(* Time passes; the process may end, be killed or be started again.        *)

CooldownPasses(x) ==
    /\ disabled[x] = "cooling"
    /\ disabled' = [disabled EXCEPT ![x] = "expired"]
    /\ UNCHANGED <<streak, disk, pc, prompt, attempt, i, hit, paid>>

Restart ==
    /\ pc' = "idle" /\ attempt' = 0 /\ i' = 1 /\ hit' = FALSE
    /\ disabled' = [x \in Models |-> "no"]
    /\ streak' = [x \in Models |-> 0]
    /\ disk' \in {disk} \cup
          IF pc \in {"call", "bust"} /\ use_cache THEN {[disk EXCEPT ![key] = "torn"]} ELSE {}
    /\ Unpaid
    /\ UNCHANGED prompt

Step ==
    \/ Candidate \/ ReadDisk \/ Receive \/ CallFails
    \/ Invalid \/ Refetch \/ Unwrap \/ NextAttempt

Next ==
    \/ \E p \in Prompts : Lift(p)
    \/ Step
    \/ \E x \in Models : CooldownPasses(x)
    \/ Restart

Spec == Init /\ [][Next]_vars

(* A lift is one thread, and every call of it ends.                        *)
FairSpec == Spec /\ WF_vars(Step)

-----------------------------------------------------------------------------
(* A model whose quota is exhausted, or that is cooling down, is sent no   *)
(* request, not even to replace a bad response.                            *)
DisabledNotAsked ==
    [][\A x \in Models : disabled[x] \in {"cooling", "hard"} => paid'[x] <= paid[x]]_vars

(* An attempt pays for at most one request per model: a response that is   *)
(* replaced was not paid for by the same attempt.                          *)
OneRequestPerModel == \A x \in Models : paid[x] <= 1

(* Every lift ends, with all models disabled too.                          *)
LiftEnds == pc = "candidate" ~> pc \in Idle
=============================================================================
