--------------------------- MODULE MCFusedRecall ---------------------------
(***************************************************************************)
(* Model checking of FusedRecall on a small instance.                       *)
(***************************************************************************)
EXTENDS FusedRecall

CONSTANTS t1, plain, other

Itself == [content \in Contents |-> content]

\* Facts that begin later, or end: two of one content can be live at once.
SomeWindows == {<<Null, Null>>, <<2, Null>>, <<Null, 2>>}

Estimates == [content \in Contents |-> 2]

\* src/recall.rs, the defaults of RecallWeights and RecallDiversity.
DefaultWeights == [lexical |-> 25, semantic |-> 35, trust |-> 25, freshness |-> 15]
DefaultPenalties == [agent |-> 50, workflow |-> 20, derivation |-> 10, type |-> 5]

\* `other` has the better words, `plain` the better meaning.
SomeFacets ==
    [content \in Contents |->
        IF content = other
        THEN [confidence |-> 90, lexical |-> 130, semantic |-> -5, derivation |-> "claim"]
        ELSE [confidence |-> 60, lexical |-> 20, semantic |-> 80, derivation |-> "human"]]

Asked(limit, weight, types, budget) ==
    [tenant |-> t1, limit |-> limit, semanticWeight |-> weight, namespace |-> AnyNamespace,
     types |-> types, maxTokens |-> budget, preferRecent |-> FALSE]

SomeRequests ==
    {Asked(1, 70, {"semantic"}, 20), Asked(20, 40, {}, 3)}

\* As time passes between the two readings, -1 has them agree as well.
Differences == {-1, 1}
=============================================================================
