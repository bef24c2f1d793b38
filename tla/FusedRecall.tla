---------------------------- MODULE FusedRecall ----------------------------
(***************************************************************************)
(* The fused recall, fused_recall of src/service.rs: the durable store      *)
(* generates candidates (sql/recall.sql), src/fusion.rs turns them into     *)
(* memories, and the recall fusion packs them, while other requests append  *)
(* and supersede facts.                                                     *)
(*                                                                         *)
(* Two clocks decide what is live: Postgres' when the transaction began,    *)
(* and the process' when the rows have come back.  They differ by `ahead`,  *)
(* and time passes between the two.                                         *)
(***************************************************************************)
EXTENDS FactStore, Integers, SequencesExt

CONSTANTS
    Requests,       \* what clients may ask for
    Facets,         \* of each content: what the client stored with it, and how
                    \* Postgres scores it for the request's query and embedding
    Normal, TokensOf, Weights, Penalties,   \* see Recall
    AnyNamespace, NoPermission,
    Skews           \* by how much the process' clock may be ahead of Postgres'

ASSUME FusedAssumption ==
    /\ Skews \subseteq Int
    /\ \A c \in Contents :
          /\ Facets[c].confidence \in 0..100
          /\ Facets[c].lexical \in Nat      \* ts_rank_cd has no upper bound
          /\ Facets[c].semantic \in -100..100

VARIABLES
    ahead,      \* how much the process' clock is ahead, of either sign
    query,      \* the request: what was asked, and the clocks it has met
    given, phase, pool, pack, total, truncated  \* see Recall

fusionVars == <<query, given, phase, pool, pack, total, truncated>>
fusedVars == <<vars, ahead, fusionVars>>

\* The pipeline of src/recall.rs, on the candidates in `given`.  Candidates,
\* Queries and MaxCandidates bound only that module's own initial states.
Fusion == INSTANCE Recall WITH Candidates <- {}, Queries <- {}, MaxCandidates <- 0

NoQuery == [start |-> Null]

FusedInit ==
    /\ Init
    /\ ahead \in Skews
    /\ query = NoQuery /\ given = <<>> /\ phase = "idle"
    /\ pool = {} /\ pack = <<>> /\ total = 0 /\ truncated = FALSE

-----------------------------------------------------------------------------
(* The candidates. *)

Clamped(score) == IF score < 0 THEN 0 ELSE IF score > 100 THEN 100 ELSE score

\* candidate_from_hit: a fact as a memory, with the defaults of what facts lack.
\* Ids are ordered as the facts were committed; they only break ties.
Candidate(id) ==
    LET row == rows[id]
        facets == Facets[row.content]
    IN [id |-> id, tenant |-> row.tenant, namespace |-> "default", type |-> "semantic",
        content |-> row.content, permission |-> NoPermission,
        from |-> row.from, until |-> row.until, superseded |-> FALSE, contradicted |-> FALSE,
        agent |-> "none", workflow |-> "none", derivation |-> facets.derivation,
        trust |-> facets.confidence,
        lexical |-> Clamped(facets.lexical), semantic |-> Clamped(facets.semantic)]

\* The score of sql/recall.sql, of unclamped parts.
Score(content) ==
    query.semanticWeight * Facets[content].semantic
        + (100 - query.semanticWeight) * Facets[content].lexical

\* Mutant: the order of the fusion's base score, without the request's weight.
OutranksByConfidence(i, j) ==
    Facets[rows[i].content].confidence > Facets[rows[j].content].confidence

\* `order by score desc, confidence desc, created_at desc`.
Outranks(i, j) ==
    LET c == rows[i].content
        d == rows[j].content
    IN \/ Score(c) > Score(d)
       \/ Score(c) = Score(d) /\ Facets[c].confidence > Facets[d].confidence
       \/ /\ Score(c) = Score(d) /\ Facets[c].confidence = Facets[d].confidence
          /\ rows[i].created > rows[j].created

Found == {id \in Ids : Visible(id, query.tenant, query.start)}

\* What Postgres may return: ties of all three columns come in any order.
Rankings ==
    {s \in SetToSeqs(Found) : \A m, n \in DOMAIN s : m < n => ~Outranks(s[n], s[m])}

-----------------------------------------------------------------------------
(* The request. *)

\* RecallRequest::validate, of what is modelled.
ValidRequest(r) == r.limit \in 1..100 /\ r.semanticWeight \in 0..100

\* The facts that are live now, by Postgres' clock.
LiveNow(tenant) ==
    {id \in Ids : rows[id].tenant = tenant /\ rows[id].from <= clock /\ rows[id].until \notin 1..clock}

\* The handler begins its transaction.  `live` and `stored` are history: the
\* facts that were live then, and how many there were.
Ask ==
    /\ phase = "idle" /\ phase' = "asked"
    /\ \E r \in Requests :
          /\ ValidRequest(r)
          /\ query' = [tenant |-> r.tenant, limit |-> r.limit, semanticWeight |-> r.semanticWeight,
                       namespace |-> r.namespace, types |-> r.types, permissions |-> {},
                       maxTokens |-> r.maxTokens, preferRecent |-> r.preferRecent,
                       penalties |-> Penalties, start |-> clock, now |-> Null,
                       live |-> LiveNow(r.tenant), stored |-> Len(rows)]
    /\ UNCHANGED <<given, pool, pack, total, truncated>>

\* The statement runs, and its transaction commits.
Search ==
    /\ phase = "asked" /\ phase' = "found"
    /\ \E s \in Rankings :
          given' = [n \in 1..Min({Len(s), query.limit}) |-> Candidate(s[n])]
    /\ UNCHANGED <<query, pool, pack, total, truncated>>

Forgotten ==
    /\ phase' = "idle" /\ query' = NoQuery
    /\ given' = <<>> /\ pool' = {} /\ pack' = <<>> /\ total' = 0 /\ truncated' = FALSE

\* A database error, 503, or the timeout, 408.
SearchFails == phase = "asked" /\ Forgotten

\* Utc::now() is read when the hits are there.
ReadClock ==
    /\ phase = "found" /\ phase' = "given"
    /\ query' = [query EXCEPT !.now = clock + ahead]
    /\ UNCHANGED <<given, pool, pack, total, truncated>>

Pack == Fusion!Rank \/ Fusion!Take \/ Fusion!Skip \/ Fusion!Finish

Respond == phase = "packed" /\ Forgotten

Write(w) == AppendClaim(w) \/ SupersedeClaim(w) \/ Advance(w) \/ GiveUp(w)

FusedNext ==
    \/ (Ask \/ Search \/ SearchFails \/ ReadClock \/ Pack \/ Respond) /\ UNCHANGED <<vars, ahead>>
    \/ ((\E w \in Workers : Write(w)) \/ Tick) /\ UNCHANGED <<ahead, fusionVars>>

FusedSpec == FusedInit /\ [][FusedNext]_fusedVars

-----------------------------------------------------------------------------
(* Properties. *)

\* An answer is never older than its request: a fact of the pack was live when
\* the request began, or has been stored since.  So a fact whose replacement a
\* client has seen does not come back, however far behind the process' clock is
\* and whatever commits between the query and the answer.
AnswersAreCurrent ==
    phase = "packed" =>
        \A m \in Range(pack) :
            m.tenant = query.tenant /\ (m.id \in query.live \/ m.id > query.stored)

\* What the request asks for, when both clocks have it live to the end.
LiveThroughout(id) ==
    /\ rows[id].from <= query.now
    /\ rows[id].until = Null \/ (rows[id].until > query.start /\ rows[id].until > query.now)
    /\ query.namespace \in {AnyNamespace, "default"}
    /\ query.types = {} \/ "semantic" \in query.types

\* Nothing is lost without a reason between the query and the fusion: a fact
\* that was live when the request began, and is so to its end by both clocks, is
\* in the pack, perhaps as another copy of its content; or the budget was
\* spent; or LIMIT cut it off behind as many facts that score no less.
NothingIsLost ==
    phase = "packed" =>
        \A id \in query.live :
            LiveThroughout(id) =>
                \/ \E m \in Range(pack) : Normal[m.content] = Normal[rows[id].content]
                \/ truncated
                \/ Len(given) = query.limit
                   /\ \A m \in Range(given) : Score(m.content) >= Score(rows[id].content)
=============================================================================
