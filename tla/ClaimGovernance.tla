-------------------------- MODULE ClaimGovernance --------------------------
(***************************************************************************)
(* What the claim ledger promises, without claims: at most one belief per   *)
(* key; a belief is open, and its value may be revised, until it is closed  *)
(* by a verdict on the value it then has; a closed belief stays as it is    *)
(* until it is forgotten.  Abstracts src/claims.rs and                      *)
(* docs/claim-governance-contract.md.                                       *)
(***************************************************************************)
CONSTANTS
    Key,      \* what a belief is about
    Values,   \* what can be believed
    Nothing   \* no belief

Verdicts == {"accepted", "rejected", "superseded"}

VARIABLE belief  \* the belief under each key, or Nothing

Belief == [phase : {"open"} \cup Verdicts, value : Values]

TypeOK == belief \in [Key -> Belief \cup {Nothing}]

Init == belief = [k \in Key |-> Nothing]

Open(k, value) ==
    /\ belief[k] = Nothing
    /\ belief' = [belief EXCEPT ![k] = [phase |-> "open", value |-> value]]

Revise(k, value) ==
    /\ belief[k] # Nothing
    /\ belief[k].phase = "open"
    /\ belief' = [belief EXCEPT ![k].value = value]

Close(k, verdict) ==
    /\ belief[k] # Nothing
    /\ belief[k].phase = "open"
    /\ belief' = [belief EXCEPT ![k].phase = verdict]

Forget(k) ==
    /\ belief[k] # Nothing
    /\ belief' = [belief EXCEPT ![k] = Nothing]

Next ==
    \E k \in Key :
        \/ \E value \in Values : Open(k, value) \/ Revise(k, value)
        \/ \E verdict \in Verdicts : Close(k, verdict)
        \/ Forget(k)

Spec == Init /\ [][Next]_belief
=============================================================================
