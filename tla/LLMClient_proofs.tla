-------------------------- MODULE LLMClient_proofs --------------------------
(***************************************************************************)
(* Proofs about LLMClient, for every list of candidates, limits, cap and   *)
(* Retry-After.                                                            *)
(***************************************************************************)
EXTENDS LLMClient, TLAPS

(* The candidates before the current one were asked, those with a key at   *)
(* least once; the current one once per attempt; those after it not yet.   *)
Counted ==
    /\ \A j \in Index : requests[j] <= Attempts
    /\ \A j \in Index : j < i /\ Candidates[j] \in HasKey => requests[j] >= 1
    /\ \A j \in Index : j > i => requests[j] = 0
    /\ pc = "lookup" => i = 1 /\ attempt = 0 /\ \A j \in Index : requests[j] = 0
    /\ pc = "request" /\ i \in Index => requests[i] = attempt
    /\ pc = "raised" => i \notin Index

IInv == TypeOK /\ SleepWithinBudget /\ Counted

-----------------------------------------------------------------------------
LEMMA LenPositive == Len(Candidates) \in Nat /\ 1 \in Index
BY CandidatesAssumption DEF Index

(* A limit of any integer allows at least one attempt.                     *)
LEMMA LimitsType ==
    ASSUME limits \in Limits
    PROVE  Attempts \in Nat /\ Attempts >= 1 /\ Budget \in Int
BY NumbersAssumption DEF Attempts, Budget, Max2

(* No wait is negative, whatever Retry-After holds.                        *)
LEMMA WaitType ==
    ASSUME NEW kind \in Transient, NEW a \in Nat, NEW h \in {<< >>} \cup {<<r>> : r \in RetryAfters}
    PROVE  Wait(kind, a, h) \in Nat
<1>1. CASE kind = "timeout"
  BY <1>1 DEF Wait
<1>2. CASE kind = "request"
  BY <1>2 DEF Wait, Min2
<1>3. CASE kind = "server"
  <2>1. (a + 1) * (a + 1) \in Nat
    OBVIOUS
  <2>2. QED
    BY <1>3, <2>1 DEF Wait, Min2
<1>4. CASE kind = "throttled"
  <2>1. PICK x \in Int : Wait(kind, a, h) = 2 * Max2(1, Min2(x, Max2(1, retry_after_cap)))
    <3>1. (IF h = << >> THEN 15 * (a + 1) ELSE h[1]) \in Int
      BY NumbersAssumption
    <3>2. QED
      BY <1>4, <3>1 DEF Wait
  <2>2. QED
    BY <2>1, NumbersAssumption DEF Min2, Max2
<1>5. QED
  BY <1>1, <1>2, <1>3, <1>4 DEF Transient

LEMMA InitInv == Init => IInv
BY LenPositive, LimitsType DEF Init, IInv, TypeOK, SleepWithinBudget, Counted, Max2, Ended, Index

(* What a candidate is left with when the call goes on to the next.        *)
LEMMA GoOn ==
    ASSUME IInv, pc = "request", i \in Index, UNCHANGED <<pc, limits>>, GiveUp,
           requests' \in [Index -> Nat], \A j \in Index : j # i => requests'[j] = requests[j],
           requests'[i] <= Attempts, Candidates[i] \in HasKey => requests'[i] >= 1,
           cached' \in {"none", "torn", "whole"}
    PROVE  IInv'
<1> USE LenPositive DEF Index
<1>1. TypeOK'
  BY DEF IInv, TypeOK, GiveUp
<1>2. SleepWithinBudget'
  BY LimitsType DEF IInv, TypeOK, SleepWithinBudget, Budget, GiveUp, Max2
<1>3. Attempts' = Attempts
  BY DEF Attempts
<1>4. i' = i + 1 /\ attempt' = 0 /\ i \in Nat
  BY DEF GiveUp
<1>5. Counted'
  BY <1>3, <1>4 DEF IInv, Counted
<1>6. QED
  BY <1>1, <1>2, <1>5 DEF IInv

(* Every action keeps the counts, the limits and the types.                *)
LEMMA StepInv == IInv /\ [Next]_vars => IInv'
<1> SUFFICES ASSUME IInv, [Next]_vars PROVE IInv'
  OBVIOUS
<1>0. /\ TypeOK /\ SleepWithinBudget /\ Counted
      /\ Attempts \in Nat /\ Attempts >= 1 /\ Budget \in Int
      /\ limits' = limits => Attempts' = Attempts /\ Budget' = Budget
  BY LimitsType DEF IInv, TypeOK, Attempts, Budget
<1>1. CASE AskAgain
  <2>1. limits' \in Limits
    BY <1>1 DEF AskAgain
  <2>2. Attempts' \in Nat /\ Attempts' >= 1 /\ Budget' \in Int
    BY <2>1, NumbersAssumption DEF Attempts, Budget, Max2
  <2>3. QED
    BY <1>0, <1>1, <2>1, <2>2, LenPositive
       DEF AskAgain, IInv, TypeOK, SleepWithinBudget, Counted, Max2, Index
<1>2. CASE Lookup
  BY <1>0, <1>2, LenPositive DEF Lookup, IInv, TypeOK, SleepWithinBudget, Counted, Ended, Index
<1>3. CASE SkipKeyless
  BY <1>0, <1>3, GoOn DEF SkipKeyless, TypeOK, Counted
<1>4. CASE OutOfAttempts
  BY <1>0, <1>4, GoOn DEF OutOfAttempts, TypeOK, Counted
<1>5. ASSUME Ask
      PROVE  /\ pc = "request" /\ i \in Index /\ attempt < Attempts /\ requests[i] = attempt
             /\ requests' \in [Index -> Nat] /\ requests'[i] = requests[i] + 1
             /\ \A j \in Index : j # i => requests'[j] = requests[j]
             /\ attempt \in Nat /\ requests[i] \in Nat
  BY <1>0, <1>5 DEF Ask, MayAsk, TypeOK, Counted
<1>6. CASE Refused
  BY <1>0, <1>5, <1>6, GoOn DEF Refused, TypeOK
<1>7. ASSUME NEW kind \in Transient, NEW h \in {<< >>} \cup {<<r>> : r \in RetryAfters},
             Retry(kind, h)
      PROVE  IInv'
  <2> DEFINE w == Wait(kind, attempt, h)
  <2>1. w \in Nat
    BY <1>0, <1>7, WaitType DEF TypeOK
  <2>2. UNCHANGED <<pc, cached, limits>> /\ Ask
    BY <1>7 DEF Retry
  <2>3. CASE Exhausted(w)
    BY <1>0, <1>5, <1>7, <2>2, <2>3, GoOn DEF Retry, TypeOK
  <2>4. CASE ~Exhausted(w)
    <3>1. /\ total_wait' = total_wait + w /\ attempt' = attempt + 1 /\ i' = i
          /\ total_wait + w <= Budget
      BY <1>0, <1>7, <2>1, <2>4 DEF Retry, Exhausted, TypeOK
    <3>2. TypeOK'
      BY <1>0, <1>5, <2>1, <2>2, <3>1 DEF TypeOK
    <3>3. SleepWithinBudget'
      BY <1>0, <2>1, <2>2, <3>1 DEF SleepWithinBudget, Max2, TypeOK
    <3>4. Counted'
      <4>1. /\ Attempts' = Attempts /\ pc' = "request" /\ i' = i /\ i \in Index
            /\ attempt' = attempt + 1 /\ attempt + 1 <= Attempts
            /\ requests'[i] = attempt + 1 /\ Index' = Index
            /\ \A j \in Index : j # i => requests'[j] = requests[j]
        BY <1>0, <1>5, <2>2, <3>1 DEF Index
      <4>2. \A j \in Index : requests'[j] <= Attempts
        BY <1>0, <4>1 DEF Counted
      <4>3. /\ \A j \in Index : j < i /\ Candidates[j] \in HasKey => requests'[j] >= 1
            /\ \A j \in Index : j > i => requests'[j] = 0
        BY <1>0, <4>1, LenPositive DEF Counted, Index
      <4>4. QED
        BY <4>1, <4>2, <4>3 DEF Counted
    <3>5. QED
      BY <3>2, <3>3, <3>4 DEF IInv
  <2>5. QED
    BY <2>3, <2>4
<1>8. CASE Answered
  <2>1. Ask /\ UNCHANGED <<i, attempt, total_wait, limits>> /\ pc' \in {"answered", "crashed"}
    BY <1>8 DEF Answered
  <2>2. TypeOK'
    BY <1>0, <1>5, <1>8, <2>1 DEF Answered, TypeOK, Ended
  <2>3. SleepWithinBudget'
    BY <1>0, <2>1 DEF SleepWithinBudget
  <2>4. Counted'
    BY <1>0, <1>5, <2>1, LenPositive DEF Counted, TypeOK, Index
  <2>5. QED
    BY <2>2, <2>3, <2>4 DEF IInv
<1>9. CASE NoCandidateLeft
  BY <1>0, <1>9 DEF NoCandidateLeft, IInv, TypeOK, SleepWithinBudget, Counted, Ended
<1>10. CASE Kill
  BY <1>0, <1>10 DEF Kill, IInv, TypeOK, SleepWithinBudget, Counted, Ended
<1>11. CASE UNCHANGED vars
  BY <1>0, <1>11 DEF vars, IInv, TypeOK, SleepWithinBudget, Counted
<1>12. QED
  BY <1>1, <1>2, <1>3, <1>4, <1>6, <1>7, <1>8, <1>9, <1>10, <1>11 DEF Next, Step, Transient

-----------------------------------------------------------------------------
(* Each candidate behind the current one was asked, none too often, and    *)
(* the call slept within its budget: the inductive invariant behind the    *)
(* results below.                                                          *)
THEOREM Inductive == Spec => []IInv
BY InitInv, StepInv, PTL DEF Spec

(* Every reachable state of a call is well typed.                          *)
THEOREM TypeCorrect == Spec => []TypeOK
<1>1. IInv => TypeOK
  BY DEF IInv
<1>2. QED
  BY <1>1, Inductive, PTL

(* No candidate is slept on beyond the budget, whatever Retry-After it     *)
(* sends and whatever integer the budget is.                               *)
THEOREM SleepBounded == Spec => []SleepWithinBudget
<1>1. IInv => SleepWithinBudget
  BY DEF IInv
<1>2. QED
  BY <1>1, Inductive, PTL

(* No candidate is sent more requests than the caller's retries allow.     *)
THEOREM RequestsLimited == Spec => []RequestsBounded
<1>1. IInv => RequestsBounded
  BY DEF IInv, Counted, RequestsBounded
<1>2. QED
  BY <1>1, Inductive, PTL

(* A call raises only after it asked every candidate it has a key for,     *)
(* also when max_retries is zero or negative.                              *)
THEOREM NobodySkipped == Spec => []AllTriedBeforeRaise
<1>1. IInv => AllTriedBeforeRaise
  BY LenPositive DEF IInv, TypeOK, Counted, AllTriedBeforeRaise, Index
<1>2. QED
  BY <1>1, Inductive, PTL
=============================================================================
