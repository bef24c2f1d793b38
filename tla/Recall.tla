------------------------------- MODULE Recall -------------------------------
(***************************************************************************)
(* The recall fusion: recall_with_policy of src/recall.rs, which turns      *)
(* candidates into a context pack.  Hard filters decide what may be in it,  *)
(* scores and repetition penalties only in which order its budget of tokens *)
(* is spent.                                                                *)
(*                                                                         *)
(* Signals, weights and penalties are in hundredths, and two scores are     *)
(* compared as fractions, where the code computes in f32.  Times are days,  *)
(* and the freshness of an age is rounded down to hundredths.               *)
(***************************************************************************)
EXTENDS Naturals, SequencesExt

CONSTANTS
    Candidates,     \* the candidates a caller may hand over, each with its own id
    Queries,        \* the requests, each with the RecallPolicy.diversity it meets
    Normal,         \* the normal form of each content: trimmed, lower case
    TokensOf,       \* what estimate_tokens gives for each content
    Weights,        \* RecallPolicy.weights, in hundredths
    AnyNamespace,   \* a query's namespace: None
    NoPermission,   \* a memory without a permission tag
    MaxCandidates   \* bound: candidates of one recall

ASSUME CandidatesAssumption ==
    /\ \A c, d \in Candidates : c.id = d.id => c = d
    /\ \A c \in Candidates :
          /\ c.id \in Nat /\ c.from \in Nat /\ TokensOf[c.content] \in Nat
          /\ {c.lexical, c.semantic, c.trust} \subseteq 0..100

ASSUME QueriesAssumption == \A q \in Queries : q.now \in Nat /\ q.maxTokens \in Nat

\* sanitized_diversity: none is negative.
ASSUME PenaltiesAssumption ==
    \A q \in Queries : q.penalties \in [{"agent", "workflow", "derivation", "type"} -> Nat]

ASSUME WeightsAssumption ==
    /\ DOMAIN Weights = {"lexical", "semantic", "trust", "freshness"}
    /\ \A axis \in DOMAIN Weights : Weights[axis] \in Nat
    /\ \E axis \in DOMAIN Weights : Weights[axis] > 0

ASSUME BoundAssumption == MaxCandidates \in Nat

VARIABLES
    query,
    given,      \* the candidates, in the order they came
    phase,      \* "given", "packing" or "packed"
    pool,       \* the ranked candidates that are neither packed nor dropped: their
                \* order is read by nobody, since ids break every tie
    pack,       \* the memories of the context pack
    total,      \* their tokens
    truncated   \* whether a candidate was dropped for its tokens

vars == <<query, given, phase, pool, pack, total, truncated>>

-----------------------------------------------------------------------------
(* The hard filters. *)

\* Mutant: a memory is live before its window begins.
LiveBefore(m, now) == ~m.superseded /\ (m.until = 0 \/ m.until > now)

\* Memory::is_live; until = 0 is None.
Live(m, now) == ~m.superseded /\ m.from <= now /\ (m.until = 0 \/ m.until > now)

AuthorizedAndValid(q, m) ==
    /\ m.tenant = q.tenant
    /\ Live(m, q.now)
    /\ q.namespace \in {AnyNamespace, m.namespace}
    /\ q.types = {} \/ m.type \in q.types
    /\ m.permission \in q.permissions \cup {NoPermission}

-----------------------------------------------------------------------------
(* The scores. *)

\* normalized_weights: prefer_recent moves weight from semantic to freshness.
WeightsOf(q) ==
    IF q.preferRecent
    THEN [Weights EXCEPT !.freshness = @ + 20,
                         !.semantic = IF @ > 25 THEN @ - 20 ELSE 5]
    ELSE Weights

\* In hundredths, of an age in days.
Freshness(m, now) == 700 \div (7 + (now - m.from))

\* The combined score, times four times the sum of the weights.
Combined(q, m) ==
    LET w == WeightsOf(q) IN
    (w.lexical * m.lexical + w.semantic * m.semantic + w.trust * m.trust
        + w.freshness * Freshness(m, q.now))
    * (IF m.contradicted THEN 1 ELSE 4)

RanksBefore(q, c, d) ==
    \/ Combined(q, c) > Combined(q, d)
    \/ Combined(q, c) = Combined(q, d) /\ c.id < d.id

\* How often `packed` has c's agent, workflow, derivation or type, at its price.
Repetition(q, packed, c) ==
    LET Repeats(axis) == Cardinality({i \in DOMAIN packed : packed[i][axis] = c[axis]}) IN
    q.penalties.agent * Repeats("agent") + q.penalties.workflow * Repeats("workflow")
        + q.penalties.derivation * Repeats("derivation") + q.penalties.type * Repeats("type")

\* Mutant: ties go to the higher id, as max_by alone would have it.
BeatsByHigherId(q, packed, c, d) ==
    LET ofC == Combined(q, c) * (100 + Repetition(q, packed, d))
        ofD == Combined(q, d) * (100 + Repetition(q, packed, c))
    IN ofC > ofD \/ (ofC = ofD /\ c.id > d.id)

\* diversity_adjusted_score: c's is above d's, the ties broken as max_by does.
Beats(q, packed, c, d) ==
    LET ofC == Combined(q, c) * (100 + Repetition(q, packed, d))
        ofD == Combined(q, d) * (100 + Repetition(q, packed, c))
    IN ofC > ofD \/ (ofC = ofD /\ RanksBefore(q, c, d))

Tokens(m) == TokensOf[m.content]

-----------------------------------------------------------------------------
(* The pipeline. *)

Init ==
    /\ query \in Queries
    /\ given \in {s \in UNION {[1..n -> Candidates] : n \in 0..MaxCandidates} : IsInjective(s)}
    /\ phase = "given"
    /\ pool = {} /\ pack = <<>> /\ total = 0 /\ truncated = FALSE

Admitted == {m \in Range(given) : AuthorizedAndValid(query, m)}

\* The admitted candidates in base order; ids are unique, so there is one.
Sorted ==
    {s \in SetToSeqs(Admitted) : \A i, j \in DOMAIN s : i < j => RanksBefore(query, s[i], s[j])}

\* The first candidate of each content.
FirstOfContent(s) ==
    {s[k] : k \in {i \in DOMAIN s :
                      \A j \in 1..(i - 1) : Normal[s[j].content] # Normal[s[i].content]}}

Rank ==
    /\ phase = "given"
    /\ phase' = "packing"
    /\ \E s \in Sorted : pool' = FirstOfContent(s)
    /\ UNCHANGED <<query, given, pack, total, truncated>>

\* Of the pool m has the best score, given what is packed so far.
IsBest(m) == \A n \in pool \ {m} : Beats(query, pack, m, n)

Fits(m) == total + Tokens(m) <= query.maxTokens

Take ==
    \E m \in pool :
        /\ phase = "packing" /\ IsBest(m) /\ Fits(m)
        /\ pool' = pool \ {m}
        /\ pack' = Append(pack, m)
        /\ total' = total + Tokens(m)
        /\ UNCHANGED <<query, given, phase, truncated>>

\* Mutant: a dropped candidate is not told.
SkipSilently ==
    \E m \in pool :
        /\ phase = "packing" /\ IsBest(m) /\ ~Fits(m)
        /\ pool' = pool \ {m}
        /\ UNCHANGED <<query, given, phase, pack, total, truncated>>

\* Mutant: a candidate that does not fit is tried again.
SkipForNow ==
    \E m \in pool :
        /\ phase = "packing" /\ IsBest(m) /\ ~Fits(m)
        /\ truncated' = TRUE
        /\ UNCHANGED <<query, given, phase, pool, pack, total>>

Skip ==
    \E m \in pool :
        /\ phase = "packing" /\ IsBest(m) /\ ~Fits(m)
        /\ pool' = pool \ {m}
        /\ truncated' = TRUE
        /\ UNCHANGED <<query, given, phase, pack, total>>

Finish ==
    /\ phase = "packing" /\ pool = {}
    /\ phase' = "packed"
    /\ UNCHANGED <<query, given, pool, pack, total, truncated>>

Next == Rank \/ Take \/ Skip \/ Finish

Spec == Init /\ [][Next]_vars

\* The pipeline is a function without an await: it goes on until it returns.
FairSpec == Spec /\ WF_vars(Next)

-----------------------------------------------------------------------------
(* Properties. *)

\* What may be in the pack, without any order: of the admitted candidates with
\* one content, the one that ranks first.
Eligible ==
    {m \in Admitted :
        \A n \in Admitted \ {m} :
            Normal[n.content] = Normal[m.content] => RanksBefore(query, m, n)}

TokensIn(memories) == FoldSet(LAMBDA m, n : Tokens(m) + n, 0, memories)

\* The eligible memories that are not in `packed` and would still fit.
Open(packed) ==
    {m \in Eligible \ Range(packed) :
        TokensIn(Range(packed)) + Tokens(m) <= query.maxTokens}

\* After `before`, m is worth more than n: its score over what its repetitions
\* cost; or as much, and it has the better base score; or both are equal and its
\* id is lower.
WorthMore(before, m, n) ==
    LET worth == [mine |-> Combined(query, m) * (100 + Repetition(query, before, n)),
                  other |-> Combined(query, n) * (100 + Repetition(query, before, m))]
    IN \/ worth.mine > worth.other
       \/ worth.mine = worth.other /\ Combined(query, m) > Combined(query, n)
       \/ worth.mine = worth.other /\ Combined(query, m) = Combined(query, n) /\ m.id < n.id

\* The pack is the one that the candidates determine as a set: at each place
\* the best of the memories that still fit, given those before it, and at the
\* end none that fits is left out.  So it does not depend on the order in which
\* the candidates came, a dropped candidate leaves no penalty behind, and with
\* penalties of 0 the pack is in base order (docs/provenance-diverse-recall.md).
PackIsTheRanking ==
    phase = "packed" =>
        /\ \A i \in DOMAIN pack :
              LET before == SubSeq(pack, 1, i - 1) IN
              /\ pack[i] \in Open(before)
              /\ \A m \in Open(before) \ {pack[i]} : ~WorthMore(before, m, pack[i])
        /\ Open(pack) = {}

\* The pack tells the truth about itself: its tokens are within the budget, and
\* it is marked as truncated exactly when an eligible memory is missing.
AccountsAreTrue ==
    phase = "packed" =>
        /\ total = TokensIn(Range(pack)) /\ total <= query.maxTokens
        /\ truncated <=> Range(pack) # Eligible

\* Ranking is no authority (docs/provenance-diverse-recall.md): no score or
\* penalty brings in a memory that another tenant, an expired, superseded or
\* future window, or a missing permission keeps out, and none keeps out a
\* memory when there is room for all.
RankingIsNoAuthority ==
    /\ \A m \in Range(pack) :
          /\ m.tenant = query.tenant
          /\ m.permission # NoPermission => m.permission \in query.permissions
          /\ ~m.superseded /\ m.from <= query.now /\ (m.until > 0 => query.now < m.until)
    /\ phase = "packed" /\ TokensIn(Eligible) <= query.maxTokens => Range(pack) = Eligible

\* Every recall returns a pack: the loop takes or drops a candidate in each
\* round, whatever fits.
EveryRecallEnds == <>(phase = "packed")
=============================================================================
