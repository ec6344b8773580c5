--------------------------- MODULE CertifiedStore ---------------------------
(***************************************************************************)
(* What lifting promises about the seeds it keeps.  An intent is lifted by *)
(* agreeing with source execution; only the intent that agrees now may be  *)
(* recorded, at a place, as certified; from there records are only copied  *)
(* or lost.                                                                *)
(***************************************************************************)
CONSTANTS Place, Artifact, None, Junk

VARIABLES
    agreed,   \* the intent that agrees with source execution, or None
    store     \* the certified intent recorded at each place, None or Junk

vars == <<agreed, store>>

TypeOK == agreed \in Artifact \cup {None} /\ store \in [Place -> Artifact \cup {None, Junk}]

Init == agreed = None /\ store \in [Place -> {None, Junk}]

(* An intent is found to agree, or the run that found it ends.             *)
Agree(a) == agreed' = a /\ UNCHANGED store

Certify(p) ==
    /\ agreed # None
    /\ store' = [store EXCEPT ![p] = agreed]
    /\ UNCHANGED agreed

Copy(p, q) ==
    /\ store[p] # None
    /\ store' = [store EXCEPT ![q] = store[p]]
    /\ UNCHANGED agreed

(* A write that does not finish; the run that made it may end with it.     *)
Damage(p) ==
    /\ store' = [store EXCEPT ![p] = Junk]
    /\ agreed' \in {agreed, None}

Next ==
    \/ \E a \in Artifact \cup {None} : Agree(a)
    \/ \E p \in Place : Certify(p) \/ Damage(p)
    \/ \E p, q \in Place : Copy(p, q)

Spec == Init /\ [][Next]_vars
==============================================================================
