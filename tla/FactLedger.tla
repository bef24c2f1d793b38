----------------------------- MODULE FactLedger -----------------------------
(***************************************************************************)
(* What the durable fact store promises (src/durable/store.rs, and          *)
(* ARCHITECTURE.md on memory_claims), without transactions: facts are only  *)
(* ever added; an open fact is closed exactly when another takes its place, *)
(* in one step; and of one digest a tenant has at most one open fact.       *)
(***************************************************************************)
EXTENDS Naturals, Sequences

CONSTANTS Tenants, Digests

VARIABLE facts  \* the facts in the order they were added; an id is a place

Fact == [tenant : Tenants, digest : Digests, open : BOOLEAN]

Init == facts = <<>>

OpenTwin(f, g) == f.open /\ g.open /\ f.tenant = g.tenant /\ f.digest = g.digest

\* f is added when no open fact, `closed` excepted, has its digest.
Admissible(f, closed) == \A i \in DOMAIN facts \ closed : ~OpenTwin(f, facts[i])

Add(f) ==
    /\ Admissible(f, {})
    /\ facts' = Append(facts, f)

Replace(i, f) ==
    /\ facts[i].open
    /\ facts[i].tenant = f.tenant
    /\ Admissible(f, {i})
    /\ facts' = Append([facts EXCEPT ![i].open = FALSE], f)

Next == \E f \in Fact : Add(f) \/ \E i \in DOMAIN facts : Replace(i, f)

Spec == Init /\ [][Next]_facts
=============================================================================
