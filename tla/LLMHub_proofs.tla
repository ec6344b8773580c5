--------------------------- MODULE LLMHub_proofs ---------------------------
(***************************************************************************)
(* Proofs about LLMHub, for every list of candidates, set of prompts,      *)
(* number of attempts and threshold.                                       *)
(***************************************************************************)
EXTENDS LLMHub, TLAPS

Index == 1..Len(Candidates)

Off == {"cooling", "hard"}

(* The candidate in hand was not disabled when it was taken, and neither   *)
(* it nor a later one has been paid for, up to the response received.      *)
Ahead == IF pc \in {"candidate", "call", "bust"} \/ (pc = "invalid" /\ hit) THEN i ELSE i + 1

IInv ==
    /\ TypeOK
    /\ pc \in {"call", "invalid", "bust"} => disabled[m] \notin Off
    /\ pc \notin Idle => \A j \in Index : j >= Ahead => paid[Candidates[j]] = 0
    /\ OneRequestPerModel

-----------------------------------------------------------------------------
LEMMA CandidateIsModel == ASSUME NEW j \in Index PROVE Candidates[j] \in Models
BY HubAssumption DEF Index

LEMMA LenNat == Len(Candidates) \in Nat
BY HubAssumption

(* The responses a write can leave are well typed.                         *)
LEMMA WrittenType ==
    ASSUME TypeOK, i \in Index, NEW reply \in Reply, NEW d \in Written(reply)
    PROVE  d \in [Prompts \X Models -> {"none", "torn"} \cup Reply]
BY CandidateIsModel DEF Written, TypeOK, m, key

(* A response in hand belongs to a candidate.                              *)
InRange == pc \in {"call", "invalid", "bust", "unwrap"} => i \in Index

Control ==
    /\ pc \in Idle \cup {"candidate", "call", "invalid", "bust", "unwrap"}
    /\ prompt \in Prompts
    /\ attempt \in Nat /\ i \in 1..Len(Candidates) + 1

Health ==
    /\ disabled \in [Models -> {"no", "cooling", "expired", "hard"}]
    /\ streak \in [Models -> Nat]
    /\ paid \in [Models -> Nat]

Disk == disk \in [Prompts \X Models -> {"none", "torn"} \cup Reply]

LEMMA TypeParts == TypeOK <=> Control /\ InRange /\ Health /\ Disk /\ hit \in BOOLEAN
BY Zenon DEF TypeOK, Control, InRange, Index, Health, Disk

LEMMA ControlStep == TypeOK /\ InRange /\ [Next]_vars => Control' /\ InRange'
<1> SUFFICES ASSUME Control, InRange, [Next]_vars PROVE Control' /\ InRange'
  BY TypeParts
<1> USE LenNat DEF Index, Control, InRange
<1>1. ASSUME NEW p \in Prompts, Lift(p) PROVE Control' /\ InRange'
  BY <1>1 DEF Lift
<1>2. CASE Candidate
  <2>1. CASE IsModelDisabled(m)
    BY <1>2, <2>1 DEF Candidate, Skip, NextCandidate
  <2>2. CASE ~IsModelDisabled(m)
    <3>1. pc' = "call" /\ i' = i /\ prompt' = prompt /\ attempt' = attempt /\ i <= Len(Candidates)
      BY <1>2, <2>2, Zenon DEF Candidate
    <3>2. QED
      BY <3>1
  <2>3. QED
    BY <2>1, <2>2
<1>3. ASSUME NEW reply \in Reply, NEW fromDisk, pc = "call", Take(reply, fromDisk),
             prompt' = prompt, attempt' = attempt
      PROVE  Control' /\ InRange'
  <2>1. CASE reply = "notjson"
    <3>1. pc' = "candidate" /\ i' = i + 1
      BY <1>3, <2>1, Zenon DEF Take, NextCandidate
    <3>2. QED
      BY <1>3, <3>1
  <2>2. CASE reply # "notjson"
    <3>1. pc' \in {"unwrap", "invalid", "raised"} /\ i' = i
      BY <1>3, <2>2 DEF Take, Parsed, Reply, NextCandidate
    <3>2. QED
      BY <1>3, <3>1 DEF Idle
  <2>3. QED
    BY <2>1, <2>2
<1>4. CASE ReadDisk
  BY <1>3, <1>4 DEF ReadDisk
<1>5. CASE Receive
  BY <1>3, <1>5 DEF Receive
<1>6. CASE CallFails
  BY <1>6 DEF CallFails, NextCandidate
<1>7. CASE Invalid
  BY <1>7 DEF Invalid, NextCandidate
<1>8. CASE Refetch
  BY <1>8 DEF Refetch, NextCandidate, Idle
<1>9. CASE Unwrap
  BY <1>9 DEF Unwrap, Idle
<1>10. CASE NextAttempt
  <2>1. attempt' = attempt + 1
    BY <1>10, Zenon DEF NextAttempt
  <2>2. CASE pc' = pc /\ i' = 1 /\ prompt' \in Prompts \ {prompt}
    BY <1>10, <2>1, <2>2 DEF NextAttempt
  <2>3. CASE pc' = "raised" /\ i' = i /\ prompt' = prompt
    BY <2>1, <2>3 DEF Idle
  <2>4. QED
    BY <1>10, <2>2, <2>3, Zenon DEF NextAttempt
<1>11. ASSUME NEW x \in Models, CooldownPasses(x) PROVE Control' /\ InRange'
  BY <1>11 DEF CooldownPasses
<1>12. CASE Restart
  BY <1>12 DEF Restart, Idle
<1>13. CASE UNCHANGED vars
  BY <1>13 DEF vars
<1>14. QED
  BY <1>1, <1>2, <1>4, <1>5, <1>6, <1>7, <1>8, <1>9, <1>10, <1>11, <1>12, <1>13 DEF Next, Step

LEMMA DiskStep == TypeOK /\ InRange /\ [Next]_vars => Disk'
<1> SUFFICES ASSUME TypeOK, InRange, [Next]_vars PROVE Disk'
  OBVIOUS
<1>1. disk' = disk => Disk'
  BY DEF TypeOK, Disk
<1>2. ASSUME pc \in {"call", "bust"}, NEW reply \in Reply, disk' \in Written(reply)
      PROVE  Disk'
  BY <1>2, WrittenType DEF InRange, Disk
<1>3. CASE \E p \in Prompts : Lift(p)
  BY <1>1, <1>3 DEF Lift
<1>4. CASE Candidate \/ ReadDisk \/ CallFails \/ Unwrap \/ NextAttempt
  BY <1>1, <1>4, Zenon DEF Candidate, ReadDisk, CallFails, Unwrap, NextAttempt
<1>5. CASE Receive
  BY <1>2, <1>5 DEF Receive
<1>6. CASE Invalid
  <2>1. disk' = disk \/ disk' = [disk EXCEPT ![key] = "none"]
    BY <1>6, Zenon DEF Invalid
  <2>2. QED
    BY <1>1, <2>1 DEF TypeOK, Disk
<1>7. CASE Refetch
  BY <1>1, <1>2, <1>7 DEF Refetch
<1>8. CASE \E x \in Models : CooldownPasses(x)
  BY <1>1, <1>8 DEF CooldownPasses
<1>9. CASE Restart
  <2>1. disk' = disk \/ disk' = [disk EXCEPT ![key] = "torn"]
    BY <1>9 DEF Restart
  <2>2. QED
    BY <1>1, <2>1 DEF TypeOK, Disk
<1>10. CASE UNCHANGED vars
  BY <1>1, <1>10 DEF vars
<1>11. QED
  BY <1>3, <1>4, <1>5, <1>6, <1>7, <1>8, <1>9, <1>10 DEF Next, Step

(* Adding one to the count of a model leaves a count.                      *)
LEMMA Counted ==
    ASSUME NEW f \in [Models -> Nat], NEW x \in Models
    PROVE  /\ [f EXCEPT ![x] = @ + 1] \in [Models -> Nat]
           /\ [f EXCEPT ![x] = 0] \in [Models -> Nat]
OBVIOUS

LEMMA ZeroCount == [x \in Models |-> 0] \in [Models -> Nat]
OBVIOUS

LEMMA HealthStep == TypeOK /\ InRange /\ [Next]_vars => Health'
<1> SUFFICES ASSUME TypeOK, InRange, [Next]_vars PROVE Health'
  OBVIOUS
<1>0. Health
  BY TypeParts
<1>1. pc \in {"call", "invalid", "bust", "unwrap"} => m \in Models
  BY CandidateIsModel DEF InRange, m
<1>2. CASE \E p \in Prompts : Lift(p)
  BY <1>0, <1>2, ZeroCount DEF Lift, health, Unpaid, Health
<1>3. CASE Candidate
  <2>1. i \in Index
    BY <1>3, LenNat DEF Candidate, TypeOK, Index
  <2>2. m \in Models
    BY <2>1, CandidateIsModel DEF m
  <2>3. disabled' = disabled \/ disabled' = [disabled EXCEPT ![m] = "no"]
    BY <1>3, Zenon DEF Candidate
  <2>4. UNCHANGED <<streak, paid>>
    BY <1>3, Zenon DEF Candidate
  <2>5. QED
    BY <1>0, <2>2, <2>3, <2>4 DEF Health
<1>4. CASE ReadDisk \/ Invalid
  BY <1>0, <1>4, Zenon DEF ReadDisk, Invalid, health, Health
<1>5. CASE Receive
  BY <1>0, <1>1, <1>5, Counted DEF Receive, Request, health, Health
<1>6. CASE CallFails
  <2>1. m \in Models /\ paid' = [paid EXCEPT ![m] = @ + 1]
    BY <1>1, <1>6 DEF CallFails, Request
  <2>2. PICK err \in Failure : MaybeDisable(err)
    BY <1>6, Zenon DEF CallFails
  <2>3. streak' = streak \/ streak' = [streak EXCEPT ![m] = @ + 1]
    BY <2>2, Zenon DEF MaybeDisable
  <2>4. \/ disabled' = disabled
        \/ disabled' = [disabled EXCEPT ![m] = "hard"]
        \/ disabled' = [disabled EXCEPT ![m] = "cooling"]
    BY <2>2, Zenon DEF MaybeDisable
  <2>5. disabled' \in [Models -> {"no", "cooling", "expired", "hard"}]
    BY <1>0, <2>1, <2>4 DEF Health
  <2>6. paid' \in [Models -> Nat]
    BY <1>0, <2>1, Counted DEF Health
  <2>7. streak' \in [Models -> Nat]
    BY <1>0, <2>1, <2>3, Counted DEF Health
  <2>8. QED
    BY <2>5, <2>6, <2>7 DEF Health
<1>7. CASE Refetch
  <2>1. m \in Models /\ paid' = [paid EXCEPT ![m] = @ + 1] /\ UNCHANGED <<disabled, streak>>
    BY <1>1, <1>7 DEF Refetch, Request
  <2>2. QED
    BY <1>0, <2>1, Counted DEF Health
<1>8. CASE Unwrap
  BY <1>0, <1>1, <1>8, Counted DEF Unwrap, Health
<1>9. CASE NextAttempt
  <2>1. paid' = paid \/ Unpaid
    BY <1>9, Zenon DEF NextAttempt
  <2>2. QED
    BY <1>0, <1>9, <2>1, ZeroCount DEF NextAttempt, health, Unpaid, Health
<1>10. ASSUME NEW x \in Models, CooldownPasses(x) PROVE Health'
  BY <1>0, <1>10 DEF CooldownPasses, Health
<1>11. CASE Restart
  <2>1. disabled' = [x \in Models |-> "no"]
    BY <1>11 DEF Restart
  <2>2. QED
    BY <1>11, <2>1, ZeroCount DEF Restart, Unpaid, Health
<1>12. CASE UNCHANGED vars
  BY <1>0, <1>12 DEF vars, Health
<1>13. QED
  BY <1>2, <1>3, <1>4, <1>5, <1>6, <1>7, <1>8, <1>9, <1>10, <1>11, <1>12 DEF Next, Step

LEMMA HitStep == TypeOK /\ [Next]_vars => hit' \in BOOLEAN
<1> SUFFICES ASSUME hit \in BOOLEAN, [Next]_vars PROVE hit' \in BOOLEAN
  BY DEF TypeOK
<1>1. ASSUME NEW reply, NEW fromDisk \in BOOLEAN, Take(reply, fromDisk) PROVE hit' \in BOOLEAN
  BY <1>1, Zenon DEF Take, NextCandidate
<1>2. CASE \E p \in Prompts : Lift(p)
  BY <1>2, Zenon DEF Lift
<1>3. CASE Candidate
  BY <1>3, Zenon DEF Candidate, Skip, NextCandidate
<1>4. CASE ReadDisk \/ Receive
  BY <1>1, <1>4, Zenon DEF ReadDisk, Receive
<1>5. CASE CallFails \/ Invalid \/ Refetch
  BY <1>5, Zenon DEF CallFails, Invalid, Refetch, NextCandidate
<1>6. CASE Unwrap \/ NextAttempt \/ Restart
  BY <1>6, Zenon DEF Unwrap, NextAttempt, Restart
<1>7. CASE \E x \in Models : CooldownPasses(x)
  BY <1>7, Zenon DEF CooldownPasses
<1>8. CASE UNCHANGED vars
  BY <1>8 DEF vars
<1>9. QED
  BY <1>2, <1>3, <1>4, <1>5, <1>6, <1>7, <1>8 DEF Next, Step

LEMMA TypeStep == TypeOK /\ InRange /\ [Next]_vars => TypeOK' /\ InRange'
<1> SUFFICES ASSUME TypeOK, InRange, [Next]_vars PROVE TypeOK' /\ InRange'
  OBVIOUS
<1>1. Control' /\ InRange' /\ Health' /\ Disk' /\ hit' \in BOOLEAN
  BY ControlStep, HealthStep, DiskStep, HitStep
<1>2. QED
  BY <1>1, Zenon DEF TypeOK, Control, InRange, Index, Health, Disk

-----------------------------------------------------------------------------
(* What is disabled is not in hand, and what is ahead is not paid for.     *)
OffPart  == pc \in {"call", "invalid", "bust"} => disabled[m] \notin Off
PaidPart == pc \notin Idle => \A j \in Index : j >= Ahead => paid[Candidates[j]] = 0

LEMMA InvParts == IInv <=> TypeOK /\ InRange /\ OffPart /\ PaidPart /\ OneRequestPerModel
BY TypeParts, Zenon DEF IInv, OffPart, PaidPart

LEMMA OffStep == IInv /\ [Next]_vars => OffPart'
<1> SUFFICES ASSUME TypeOK, InRange, OffPart, [Next]_vars PROVE OffPart'
  BY InvParts
<1>1. CASE \E p \in Prompts : Lift(p)
  BY <1>1 DEF Lift, OffPart
<1>2. CASE Candidate
  <2>1. i \in Index
    BY <1>2, LenNat DEF Candidate, TypeOK, Index
  <2>2. m \in Models
    BY <2>1, CandidateIsModel DEF m
  <2>3. CASE pc' = "candidate"
    BY <2>3 DEF OffPart
  <2>4. CASE disabled' = [disabled EXCEPT ![m] = "no"] /\ i' = i
    BY <2>2, <2>4 DEF OffPart, m, Off, TypeOK
  <2>5. CASE disabled' = disabled /\ ~IsModelDisabled(m) /\ i' = i
    BY <2>2, <2>5 DEF OffPart, m, Off, IsModelDisabled
  <2>6. QED
    BY <1>2, <2>3, <2>4, <2>5, Zenon DEF Candidate, Skip, NextCandidate
<1>3. CASE ReadDisk \/ Receive
  <2>1. PICK reply, fromDisk : Take(reply, fromDisk) /\ pc = "call" /\ disabled' = disabled
    BY <1>3, Zenon DEF ReadDisk, Receive, health
  <2>2. CASE reply = "notjson"
    <3>1. pc' = "candidate"
      BY <2>1, <2>2, Zenon DEF Take, NextCandidate
    <3>2. QED
      BY <3>1 DEF OffPart
  <2>3. CASE reply # "notjson"
    <3>1. i' = i
      BY <2>1, <2>3, Zenon DEF Take
    <3>2. QED
      BY <2>1, <3>1, Zenon DEF OffPart, m
  <2>4. QED
    BY <2>2, <2>3
<1>4. CASE CallFails
  BY <1>4 DEF CallFails, NextCandidate, OffPart
<1>5. CASE Invalid
  <2>1. pc = "invalid" /\ disabled' = disabled /\ (pc' = "candidate" \/ i' = i)
    BY <1>5, Zenon DEF Invalid, NextCandidate, health
  <2>2. QED
    BY <2>1 DEF OffPart, m
<1>6. CASE Refetch
  BY <1>6 DEF Refetch, NextCandidate, OffPart
<1>7. CASE Unwrap
  BY <1>7 DEF Unwrap, OffPart
<1>8. CASE NextAttempt
  <2>1. pc' \in {"candidate", "raised"}
    BY <1>8, Zenon DEF NextAttempt
  <2>2. QED
    BY <2>1 DEF OffPart
<1>9. ASSUME NEW x \in Models, CooldownPasses(x) PROVE OffPart'
  BY <1>9 DEF CooldownPasses, OffPart, m, Off, TypeOK
<1>10. CASE Restart
  BY <1>10 DEF Restart, OffPart
<1>11. CASE UNCHANGED vars
  BY <1>11 DEF vars, OffPart, m
<1>12. QED
  BY <1>1, <1>2, <1>3, <1>4, <1>5, <1>6, <1>7, <1>8, <1>9, <1>10, <1>11 DEF Next, Step

(* Where nothing is paid, and what lies ahead shrinks, the parts about     *)
(* payment stay true.                                                      *)
LEMMA NothingPaid ==
    ASSUME TypeOK, PaidPart, OneRequestPerModel, paid' = paid,
           pc' \notin Idle => /\ pc \notin Idle
                              /\ Ahead' \in Nat /\ Ahead \in Nat /\ Ahead' >= Ahead
    PROVE  PaidPart' /\ OneRequestPerModel'
<1>1. OneRequestPerModel'
  BY DEF OneRequestPerModel
<1>2. ASSUME pc' \notin Idle, NEW j \in Index, j >= Ahead' PROVE paid'[Candidates[j]] = 0
  <2>1. j >= Ahead
    BY <1>2, LenNat DEF Index
  <2>2. QED
    BY <1>2, <2>1 DEF PaidPart
<1>3. QED
  BY <1>1, <1>2 DEF PaidPart, Index

(* A request for the candidate in hand, after which it lies behind.        *)
LEMMA OnePaid ==
    ASSUME TypeOK, InRange, PaidPart, OneRequestPerModel, pc \in {"call", "bust"}, Request,
           pc' \in Idle \/ Ahead' = i + 1
    PROVE  PaidPart' /\ OneRequestPerModel'
<1>1. i \in Index /\ m \in Models
  BY CandidateIsModel DEF InRange, m
<1>2. Ahead = i /\ pc \notin Idle
  BY DEF Ahead, Idle
<1>3. i \in Nat /\ \A j \in Index : j \in Nat
  BY <1>1, LenNat DEF Index
<1>4. paid[m] = 0
  BY <1>1, <1>2, <1>3 DEF PaidPart, m
<1>5. paid \in [Models -> Nat] /\ paid' = [paid EXCEPT ![m] = @ + 1]
  BY DEF TypeOK, Request
<1>6. OneRequestPerModel'
  BY <1>1, <1>4, <1>5 DEF OneRequestPerModel
<1>7. ASSUME NEW j \in Index, j >= i + 1 PROVE paid'[Candidates[j]] = 0
  <2>1. j # i /\ j >= i
    BY <1>3, <1>7
  <2>2. Candidates[j] # m /\ Candidates[j] \in Models
    BY <1>1, <2>1, CandidateIsModel, HubAssumption DEF m, Index
  <2>3. paid[Candidates[j]] = 0
    BY <1>2, <2>1 DEF PaidPart
  <2>4. QED
    BY <1>5, <2>2, <2>3
<1>8. QED
  BY <1>6, <1>7 DEF PaidPart, Index

LEMMA PaidStep == IInv /\ [Next]_vars => PaidPart' /\ OneRequestPerModel'
<1> SUFFICES ASSUME TypeOK, InRange, PaidPart, OneRequestPerModel, [Next]_vars
             PROVE  PaidPart' /\ OneRequestPerModel'
  BY InvParts
<1>1. i \in Nat
  BY LenNat DEF TypeOK
<1>2. ASSUME paid' = [x \in Models |-> 0] PROVE PaidPart' /\ OneRequestPerModel'
  BY <1>2, CandidateIsModel DEF PaidPart, OneRequestPerModel, Index
<1>3. CASE \E p \in Prompts : Lift(p)
  BY <1>2, <1>3 DEF Lift, Unpaid
<1>4. CASE Candidate
  <2>1. Ahead = i /\ pc \notin Idle /\ paid' = paid
    BY <1>4 DEF Candidate, Ahead, Idle
  <2>2. Ahead' \in {i, i + 1}
    BY <1>4, Zenon DEF Candidate, Skip, NextCandidate, Ahead
  <2>3. QED
    BY <1>1, <2>1, <2>2, NothingPaid
<1>5. CASE ReadDisk
  <2>1. Ahead = i /\ pc \notin Idle /\ paid' = paid
    BY <1>5 DEF ReadDisk, Ahead, Idle
  <2>2. i' \in {i, i + 1}
    BY <1>5, Zenon DEF ReadDisk, Take, NextCandidate
  <2>3. Ahead' \in {i', i' + 1}
    BY Zenon DEF Ahead
  <2>4. Ahead' \in {i, i + 1, i + 1 + 1}
    BY <2>2, <2>3, Zenon
  <2>5. QED
    BY <1>1, <2>1, <2>4, NothingPaid
<1>6. CASE Receive
  <2>1. PICK reply \in Reply : Take(reply, FALSE) /\ pc = "call" /\ Request
    BY <1>6, Zenon DEF Receive
  <2>2. CASE reply = "notjson"
    <3>1. pc' = "candidate" /\ i' = i + 1
      BY <2>1, <2>2, Zenon DEF Take, NextCandidate
    <3>2. QED
      BY <2>1, <3>1, OnePaid DEF Ahead
  <2>3. CASE reply # "notjson"
    <3>1. pc' \in {"unwrap", "invalid", "raised"} /\ i' = i /\ ~hit'
      BY <2>1, <2>3 DEF Take, Parsed, Reply, NextCandidate
    <3>2. pc' \in Idle \/ Ahead' = i + 1
      BY <3>1 DEF Ahead, Idle
    <3>3. QED
      BY <2>1, <3>2, OnePaid
  <2>4. QED
    BY <2>2, <2>3
<1>7. CASE CallFails
  <2>1. pc = "call" /\ Request /\ Ahead' = i + 1
    BY <1>7, Zenon DEF CallFails, NextCandidate, Ahead
  <2>2. QED
    BY <2>1, OnePaid
<1>8. CASE Invalid
  <2>1. pc = "invalid" /\ paid' = paid
    BY <1>8 DEF Invalid
  <2>2. CASE hit /\ pc' = "bust" /\ i' = i
    <3>1. Ahead = i /\ Ahead' = i
      BY <2>1, <2>2 DEF Ahead
    <3>2. QED
      BY <1>1, <2>1, <3>1, NothingPaid DEF Idle
  <2>3. CASE pc' = "candidate" /\ i' = i + 1
    <3>1. Ahead \in {i, i + 1} /\ Ahead' = i + 1
      BY <2>1, <2>3 DEF Ahead
    <3>2. QED
      BY <1>1, <2>1, <3>1, NothingPaid DEF Idle
  <2>4. QED
    BY <1>8, <2>2, <2>3, Zenon DEF Invalid, Busts, NextCandidate
<1>9. CASE Refetch
  <2>1. pc = "bust" /\ Request
    BY <1>9, Zenon DEF Refetch
  <2>2. pc' = "returned" \/ Ahead' = i + 1
    BY <1>9, Zenon DEF Refetch, NextCandidate, Ahead
  <2>3. QED
    BY <2>1, <2>2, OnePaid DEF Idle
<1>10. CASE Unwrap
  BY <1>10, NothingPaid DEF Unwrap, Idle
<1>11. CASE NextAttempt
  <2>1. CASE Unpaid
    BY <1>2, <2>1 DEF Unpaid
  <2>2. CASE pc' = "raised" /\ paid' = paid
    BY <2>2, NothingPaid DEF Idle
  <2>3. QED
    BY <1>11, <2>1, <2>2, Zenon DEF NextAttempt
<1>12. CASE (\E x \in Models : CooldownPasses(x)) \/ UNCHANGED vars
  <2>1. paid' = paid /\ pc' = pc /\ i' = i /\ hit' = hit
    BY <1>12 DEF CooldownPasses, vars
  <2>2. Ahead' = Ahead
    BY <2>1 DEF Ahead
  <2>3. Ahead \in Nat
    BY <1>1 DEF Ahead
  <2>4. QED
    BY <2>1, <2>2, <2>3, NothingPaid
<1>13. CASE Restart
  BY <1>2, <1>13 DEF Restart, Unpaid
<1>14. QED
  BY <1>3, <1>4, <1>5, <1>6, <1>7, <1>8, <1>9, <1>10, <1>11, <1>12, <1>13 DEF Next, Step

LEMMA InitInv == Init => IInv
<1> SUFFICES ASSUME Init PROVE IInv
  OBVIOUS
<1>1. TypeOK
  <2>1. Control
    BY LenNat DEF Init, Control, Idle
  <2>2. Health
    BY ZeroCount DEF Init, Health
  <2>3. Disk /\ hit \in BOOLEAN
    BY DEF Init, Disk
  <2>4. InRange
    BY DEF Init, InRange, Idle
  <2>5. QED
    BY <2>1, <2>2, <2>3, <2>4, TypeParts
<1>2. OffPart /\ PaidPart
  BY DEF Init, OffPart, PaidPart, Idle
<1>3. OneRequestPerModel
  BY DEF Init, OneRequestPerModel
<1>4. QED
  BY <1>1, <1>2, <1>3, TypeParts, InvParts

-----------------------------------------------------------------------------
(* At every point of every lift, the candidate in hand is not disabled and *)
(* the ones ahead have not been paid for: the inductive invariant behind   *)
(* the results below.                                                      *)
THEOREM Inductive == Spec => []IInv
<1>1. IInv /\ [Next]_vars => IInv'
  <2> SUFFICES ASSUME IInv, [Next]_vars PROVE IInv'
    OBVIOUS
  <2>1. TypeOK' /\ InRange'
    BY TypeStep, InvParts
  <2>2. OffPart' /\ PaidPart' /\ OneRequestPerModel'
    BY OffStep, PaidStep
  <2>3. QED
    BY <2>1, <2>2, Zenon DEF IInv, InRange, OffPart, PaidPart
<1>2. QED
  BY InitInv, <1>1, PTL DEF Spec

(* Every reachable state of the hub is well typed.                         *)
THEOREM TypeCorrect == Spec => []TypeOK
<1>1. IInv => TypeOK
  BY DEF IInv
<1>2. QED
  BY Inductive, <1>1, PTL

(* However an attempt interleaves responses from disk, failures and        *)
(* refetches, no model gets two requests in it.                            *)
THEOREM PaidOnce == Spec => []OneRequestPerModel
<1>1. IInv => OneRequestPerModel
  BY DEF IInv
<1>2. QED
  BY Inductive, <1>1, PTL

(* A request is only ever sent to a model that is neither out of quota nor *)
(* cooling down.                                                           *)
LEMMA AskedStep ==
    IInv /\ [Next]_vars
      => \A x \in Models : disabled[x] \in {"cooling", "hard"} => paid'[x] <= paid[x]
<1> SUFFICES ASSUME IInv, [Next]_vars, NEW x \in Models, disabled[x] \in Off
             PROVE  paid'[x] <= paid[x]
  BY DEF Off
<1>1. TypeOK /\ InRange /\ OffPart
  BY InvParts
<1>2. paid[x] \in Nat
  BY <1>1 DEF TypeOK
<1>3. CASE paid' = paid
  BY <1>2, <1>3
<1>4. CASE Unpaid
  BY <1>2, <1>4 DEF Unpaid
<1>5. CASE pc \in {"call", "bust"} /\ Request
  <2>1. m \in Models /\ disabled[m] \notin Off
    BY <1>1, <1>5, CandidateIsModel DEF InRange, OffPart, m
  <2>2. x # m
    BY <2>1
  <2>3. paid'[x] = paid[x]
    BY <1>1, <1>5, <2>2 DEF Request, TypeOK
  <2>4. QED
    BY <1>2, <2>3
<1>6. CASE (\E p \in Prompts : Lift(p)) \/ Restart
  BY <1>4, <1>6 DEF Lift, Restart
<1>7. CASE Candidate \/ ReadDisk \/ Invalid \/ Unwrap
  BY <1>3, <1>7, Zenon DEF Candidate, ReadDisk, Invalid, Unwrap
<1>8. CASE Receive \/ CallFails \/ Refetch
  BY <1>5, <1>8, Zenon DEF Receive, CallFails, Refetch
<1>9. CASE NextAttempt
  BY <1>3, <1>4, <1>9, Zenon DEF NextAttempt
<1>10. CASE (\E y \in Models : CooldownPasses(y)) \/ UNCHANGED vars
  BY <1>3, <1>10 DEF CooldownPasses, vars
<1>11. QED
  BY <1>6, <1>7, <1>8, <1>9, <1>10 DEF Next, Step

(* No request goes to a disabled model: neither the call of a candidate    *)
(* nor the refetch of a bad response.                                      *)
THEOREM DisabledUnasked == Spec => DisabledNotAsked
<1>1. IInv /\ [Next]_vars
        => [\A x \in Models : disabled[x] \in {"cooling", "hard"} => paid'[x] <= paid[x]]_vars
  BY AskedStep
<1>2. QED
  BY Inductive, <1>1, PTL DEF Spec, DisabledNotAsked
=============================================================================
