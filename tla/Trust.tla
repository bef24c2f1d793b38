------------------------------- MODULE Trust -------------------------------
(***************************************************************************)
(* The trust of a memory, in hundredths: Provenance::base_trust             *)
(* (src/domain.rs) and trust_from (src/memory.rs).  create_memory calls it  *)
(* for a memory without a trust_score of its own, before any support.       *)
(***************************************************************************)
EXTENDS Integers

\* "none" stands for no derivation, or one that base_trust does not know.
Decided == {"resolved_claim", "validated_procedure", "human"}
Claimed == {"claim", "procedure"}
Raw == {"observation", "import"}
Derivations == Decided \cup Claimed \cup Raw \cup {"none"}

BaseTrust(derivation) ==
    CASE derivation \in Decided -> 90
      [] derivation \in Claimed -> 60
      [] derivation \in Raw -> 40
      [] OTHER -> 50

AtMost(bound, n) == IF n > bound THEN bound ELSE n

Unit(n) == IF n < 0 THEN 0 ELSE AtMost(100, n)

TrustFrom(derivation, supporters, contests) ==
    Unit(BaseTrust(derivation) + AtMost(25, 8 * supporters) - AtMost(60, 15 * contests))

=============================================================================
