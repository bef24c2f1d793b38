------------------------------ MODULE MCRecall ------------------------------
(***************************************************************************)
(* Model checking of Recall on small instances.                             *)
(***************************************************************************)
EXTENDS Recall

\* src/recall.rs, the defaults of RecallWeights and RecallDiversity.
DefaultWeights == [lexical |-> 25, semantic |-> 35, trust |-> 25, freshness |-> 15]
DefaultPenalties == [agent |-> 50, workflow |-> 20, derivation |-> 10, type |-> 5]
NoPenalties == [agent |-> 0, workflow |-> 0, derivation |-> 0, type |-> 0]

\* Contents: "Alpha" is "alpha" in another case and with blanks around.
NormalForm == [alpha |-> "alpha", Alpha |-> "alpha", beta |-> "beta", gamma |-> "gamma",
               delta |-> "delta"]
Estimates == [alpha |-> 2, Alpha |-> 3, beta |-> 2, gamma |-> 1, delta |-> 4]

Memory(id, content, agent, score) ==
    [id |-> id, tenant |-> "mine", namespace |-> "default", type |-> "semantic",
     content |-> content, permission |-> NoPermission, from |-> 8, until |-> 0,
     superseded |-> FALSE, contradicted |-> FALSE, agent |-> agent, workflow |-> agent,
     derivation |-> "claim", trust |-> 50, lexical |-> score, semantic |-> score]

\* Two agents, one of which floods; an old memory and a new one; a stronger
\* twin of the first content; a contradicted memory; and memories that each of
\* the filters keeps out.
Pool ==
    {Memory(1, "alpha", "noisy", 90),
     Memory(2, "beta", "noisy", 80),
     Memory(3, "gamma", "noisy", 80),
     Memory(4, "delta", "quiet", 60),
     [Memory(5, "Alpha", "quiet", 95) EXCEPT !.from = 1],
     [Memory(6, "gamma", "quiet", 99) EXCEPT !.contradicted = TRUE, !.type = "episodic"],
     [Memory(7, "beta", "quiet", 99) EXCEPT !.tenant = "theirs"],
     [Memory(8, "delta", "quiet", 99) EXCEPT !.from = 11],
     [Memory(9, "beta", "quiet", 99) EXCEPT !.permission = "secret", !.until = 12]}

Asked(budget, permissions, preferRecent, now) ==
    [tenant |-> "mine", namespace |-> AnyNamespace, types |-> {}, permissions |-> permissions,
     maxTokens |-> budget, preferRecent |-> preferRecent, now |-> now,
     penalties |-> DefaultPenalties]

SomeQueries ==
    {Asked(20, {}, FALSE, 10), Asked(5, {}, FALSE, 10), Asked(4, {"secret"}, TRUE, 10),
     Asked(20, {"secret"}, FALSE, 12),
     [Asked(5, {}, TRUE, 10) EXCEPT !.types = {"semantic"}, !.namespace = "default"],
     [Asked(20, {}, FALSE, 10) EXCEPT !.penalties = NoPenalties],
     [Asked(20, {}, FALSE, 10) EXCEPT !.namespace = "other"]}
=============================================================================
