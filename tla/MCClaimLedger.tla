--------------------------- MODULE MCClaimLedger ---------------------------
(***************************************************************************)
(* Model checking of ClaimLedger on small instances.                        *)
(***************************************************************************)
EXTENDS ClaimLedger

T == INSTANCE TLC

\* Interchangeable tenants, values, agents and reasons.  Sound for the invariants and
\* action properties: none of them names a particular one.
Interchangeable ==
    T!Permutations(Tenants) \cup T!Permutations(Values)
        \cup T!Permutations(Agents) \cup T!Permutations(Reasons)
=============================================================================
