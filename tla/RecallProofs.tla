---------------------------- MODULE RecallProofs ----------------------------
(***************************************************************************)
(* Proofs about Recall, for any candidates, requests, weights, penalties    *)
(* and budgets.                                                             *)
(*                                                                         *)
(* The argument: after the filters, the sort and the deduplication the pool *)
(* is what the candidates determine as a set (Eligible).  From then on an   *)
(* eligible memory is in the pool, in the pack, or was dropped when it did  *)
(* not fit, and since the pack only grows it will never fit again.  So what *)
(* the loop takes in a round is the best of all that are left and fit.      *)
(***************************************************************************)
EXTENDS Recall, FiniteSetTheorems, SequenceTheorems, WellFoundedInduction, TLAPS

TypeOK ==
    /\ query \in Queries
    /\ given \in Seq(Candidates)
    /\ phase \in {"given", "packing", "packed"}
    /\ pool \subseteq Candidates
    /\ pack \in Seq(Candidates)
    /\ total \in Nat
    /\ truncated \in BOOLEAN

\* The eligible memories that the loop has dropped.
Dropped == Eligible \ (pool \cup Range(pack))

\* Every memory is in one place.
Placed ==
    /\ pool \cup Range(pack) \subseteq Eligible
    /\ pool \cap Range(pack) = {}
    /\ phase = "given" => pool = {} /\ pack = <<>> /\ ~truncated
    /\ phase = "packed" => pool = {}

Budget == total = TokensIn(Range(pack)) /\ total <= query.maxTokens

\* What was dropped will not fit again, and is told of.
DroppedForGood ==
    phase # "given" =>
        /\ \A m \in Dropped : total + Tokens(m) > query.maxTokens
        /\ truncated <=> Dropped # {}

\* At each place of the pack is the best of those that fit there.
BestFirst ==
    \A i \in DOMAIN pack :
        LET before == SubSeq(pack, 1, i - 1) IN
        /\ pack[i] \in Open(before)
        /\ \A m \in Open(before) \ {pack[i]} : ~WorthMore(before, m, pack[i])

\* The inductive invariant.
IInv == TypeOK /\ Placed /\ Budget /\ DroppedForGood /\ BestFirst

-----------------------------------------------------------------------------
(* The sum of the tokens of a finite set. *)

Pick(S) == CHOOSE m \in S : TRUE
Rest(S) == S \ {Pick(S)}

\* g gives the sum of every subset of S, one memory at a time.
Sums(g, S) == g = [s \in SUBSET S |-> IF s = {} THEN 0 ELSE Tokens(Pick(s)) + g[Rest(s)]]

\* A non-empty set of finite sets has one that contains no other.
LEMMA SmallestSet ==
    ASSUME NEW S, IsFiniteSet(S), NEW F, F \subseteq SUBSET S, F # {}
    PROVE  \E s \in F : \A t \in F : t \subseteq s => t = s
<1> DEFINE below == StrictSubsetOrdering(S)
           finite == FiniteSubsetsOf(S)
<1>1. F \subseteq finite
  BY FS_Subset DEF FiniteSubsetsOf
<1>2. IsWellFoundedOn(below, finite)
  BY FS_StrictSubsetOrderingWellFounded
<1>3. \A s, t \in F : t \subseteq s /\ t # s => <<t, s>> \in below
  BY DEF StrictSubsetOrdering
<1> HIDE DEF below, finite
<1>4. \E s \in F : \A t \in F : ~(<<t, s>> \in below)
  BY <1>1, <1>2, WFMin, Zenon
<1> QED
  BY <1>3, <1>4

\* The fold of the community module as such a function, at S.
LEMMA TokensInDef ==
    ASSUME NEW S
    PROVE  TokensIn(S) = (CHOOSE g : Sums(g, S))[S]
  BY Zenon DEF TokensIn, FoldSet, MapThenFoldSet, Sums, Pick, Rest

\* Two such functions agree where both are defined.
LEMMA SumsAgree ==
    ASSUME NEW S, IsFiniteSet(S), NEW T, NEW g, NEW h, Sums(g, S), Sums(h, T),
           NEW s, s \subseteq S, s \subseteq T
    PROVE  g[s] = h[s]
<1> DEFINE F == {r \in SUBSET S : r \subseteq T /\ g[r] # h[r]}
<1>1. SUFFICES ASSUME F # {} PROVE FALSE
  OBVIOUS
<1>2. PICK r \in F : \A t \in F : t \subseteq r => t = r
  <2>1. F \subseteq SUBSET S
    OBVIOUS
  <2> HIDE DEF F
  <2> QED
    BY <1>1, <2>1, SmallestSet
<1>3. /\ g[r] = IF r = {} THEN 0 ELSE Tokens(Pick(r)) + g[Rest(r)]
      /\ h[r] = IF r = {} THEN 0 ELSE Tokens(Pick(r)) + h[Rest(r)]
  BY DEF Sums
<1>4. r # {} => Rest(r) \subseteq r /\ Rest(r) # r
  BY DEF Rest, Pick
<1>5. r # {} => g[Rest(r)] = h[Rest(r)]
  BY <1>2, <1>4
<1> QED
  BY <1>3, <1>5

\* The sums of a set are the sums of its subsets.
LEMMA SumOfSubset ==
    ASSUME NEW S, IsFiniteSet(S), NEW g, Sums(g, S), NEW s, s \subseteq S
    PROVE  TokensIn(s) = g[s]
<1> DEFINE f == [r \in SUBSET s |-> g[r]]
<1>1. Sums(f, s)
  <2>1. \A r \in SUBSET s : r # {} => Rest(r) \in SUBSET s
    BY DEF Rest
  <2>2. \A r \in SUBSET s : f[r] = IF r = {} THEN 0 ELSE Tokens(Pick(r)) + f[Rest(r)]
    <3> TAKE r \in SUBSET s
    <3>1. g[r] = IF r = {} THEN 0 ELSE Tokens(Pick(r)) + g[Rest(r)]
      BY DEF Sums
    <3> QED
      BY <2>1, <3>1
  <2> HIDE DEF f
  <2>3. f = [r \in SUBSET s |-> f[r]]
    BY DEF f
  <2> QED
    BY <2>2, <2>3 DEF Sums
<1> HIDE DEF f
<1>2. Sums(CHOOSE h : Sums(h, s), s)
  BY <1>1, Zenon
<1>3. IsFiniteSet(s)
  BY FS_Subset
<1>4. TokensIn(s) = g[s]
  BY <1>2, <1>3, TokensInDef, SumsAgree
<1> QED
  BY <1>4

\* A smallest set without its sums would get them from those of its rest.
LEMMA SumsExist ==
    ASSUME NEW S, IsFiniteSet(S)
    PROVE  \E g : Sums(g, S)
<1> DEFINE F == {s \in SUBSET S : ~\E g : Sums(g, s)}
<1>1. SUFFICES ASSUME F # {} PROVE FALSE
  OBVIOUS
<1>2. PICK s \in F : \A t \in F : t \subseteq s => t = s
  <2>1. F \subseteq SUBSET S
    OBVIOUS
  <2> HIDE DEF F
  <2> QED
    BY <1>1, <2>1, SmallestSet
<1>3. ASSUME NEW t, t \subseteq s, t # s, t # {}
      PROVE  TokensIn(t) = Tokens(Pick(t)) + TokensIn(Rest(t))
  <2>1. PICK g : Sums(g, t)
    BY <1>2, <1>3
  <2>2. IsFiniteSet(t) /\ Rest(t) \subseteq t
    BY <1>3, FS_Subset DEF Rest
  <2>3. TokensIn(t) = g[t] /\ TokensIn(Rest(t)) = g[Rest(t)]
    BY <2>1, <2>2, SumOfSubset
  <2>4. g[t] = Tokens(Pick(t)) + g[Rest(t)]
    BY <1>3, <2>1 DEF Sums
  <2> QED
    BY <2>3, <2>4
<1> DEFINE empty == [r \in SUBSET {} |-> 0]
<1>4. Sums(empty, {})
  BY DEF Sums
<1> HIDE DEF empty
<1>5. s # {}
  BY <1>4
<1>6. TokensIn({}) = 0
  <2>1. IsFiniteSet({})
    BY FS_EmptySet
  <2>2. TokensIn({}) = empty[{}]
    BY <1>4, <2>1, SumOfSubset
  <2> QED
    BY <2>2 DEF empty
<1> DEFINE h == [r \in SUBSET s |-> IF r = s THEN Tokens(Pick(s)) + TokensIn(Rest(s)) ELSE TokensIn(r)]
<1>7. \A r \in SUBSET s : r # {} => Rest(r) \in SUBSET s /\ Rest(r) # s
  BY DEF Rest, Pick
<1>8. \A r \in SUBSET s : h[r] = IF r = {} THEN 0 ELSE Tokens(Pick(r)) + h[Rest(r)]
  <2> TAKE r \in SUBSET s
  <2>1. CASE r = {}
    BY <1>5, <1>6, <2>1
  <2>2. CASE r = s
    BY <1>5, <1>7, <2>2
  <2>3. CASE r # {} /\ r # s
    BY <1>3, <1>7, <2>3
  <2> QED
    BY <2>1, <2>2, <2>3
<1>9. h = [r \in SUBSET s |-> h[r]]
  OBVIOUS
<1> HIDE DEF h
<1>10. Sums(h, s)
  BY <1>8, <1>9 DEF Sums
<1> QED
  BY <1>10

\* What TokensIn is: nothing for the empty set, and a memory more than the rest.
LEMMA TokensInRest ==
    ASSUME NEW S, IsFiniteSet(S)
    PROVE  TokensIn(S) = IF S = {} THEN 0 ELSE Tokens(Pick(S)) + TokensIn(Rest(S))
<1>1. PICK g : Sums(g, S)
  BY SumsExist
<1>2. TokensIn(S) = g[S] /\ TokensIn(Rest(S)) = g[Rest(S)]
  BY <1>1, SumOfSubset DEF Rest
<1>3. g[S] = IF S = {} THEN 0 ELSE Tokens(Pick(S)) + g[Rest(S)]
  BY <1>1 DEF Sums
<1> QED
  BY <1>2, <1>3

\* A sum of tokens is a number.
LEMMA TokensInType ==
    ASSUME NEW S, IsFiniteSet(S), \A m \in S : Tokens(m) \in Nat
    PROVE  TokensIn(S) \in Nat
<1> DEFINE F == {s \in SUBSET S : TokensIn(s) \notin Nat}
<1>1. SUFFICES ASSUME F # {} PROVE FALSE
  OBVIOUS
<1>2. PICK s \in F : \A t \in F : t \subseteq s => t = s
  <2>1. F \subseteq SUBSET S
    OBVIOUS
  <2> HIDE DEF F
  <2> QED
    BY <1>1, <2>1, SmallestSet
<1>3. TokensIn(s) = IF s = {} THEN 0 ELSE Tokens(Pick(s)) + TokensIn(Rest(s))
  BY <1>2, FS_Subset, TokensInRest
<1>4. s # {} => Pick(s) \in s /\ Rest(s) \subseteq s /\ Rest(s) # s
  BY DEF Pick, Rest
<1>5. s # {} => TokensIn(Rest(s)) \in Nat /\ Tokens(Pick(s)) \in Nat
  BY <1>2, <1>4
<1> QED
  BY <1>2, <1>3, <1>5

\* The sum does not depend on the order in which it is taken.
LEMMA TokensInAdd ==
    ASSUME NEW T, IsFiniteSet(T), \A n \in T : Tokens(n) \in Nat,
           NEW S, S \subseteq T, NEW m \in T \ S
    PROVE  TokensIn(S \cup {m}) = Tokens(m) + TokensIn(S)
<1> DEFINE F == {s \in SUBSET T : \E n \in T \ s : TokensIn(s \cup {n}) # Tokens(n) + TokensIn(s)}
<1>1. SUFFICES ASSUME F # {} PROVE FALSE
  OBVIOUS
<1>2. PICK s \in F : \A t \in F : t \subseteq s => t = s
  <2>1. F \subseteq SUBSET T
    OBVIOUS
  <2> HIDE DEF F
  <2> QED
    BY <1>1, <2>1, SmallestSet
<1>3. PICK n \in T \ s : TokensIn(s \cup {n}) # Tokens(n) + TokensIn(s)
  BY <1>2
<1> DEFINE u == s \cup {n}
           x == Pick(u)
           r == s \ {x}
<1>4. x \in u
  BY DEF Pick
<1>5. TokensIn(u) = Tokens(x) + TokensIn(u \ {x})
  <2>1. IsFiniteSet(u) /\ u # {}
    BY <1>2, <1>3, FS_Subset
  <2> QED
    BY <2>1, TokensInRest DEF Rest
<1>6. CASE x = n
  BY <1>3, <1>5, <1>6
<1>7. CASE x # n
  <2>1. x \in s /\ r \subseteq s /\ r # s
    BY <1>4, <1>7
  <2>2. r \in SUBSET T /\ n \in T \ r /\ x \in T \ r
    BY <1>2, <1>3, <2>1
  <2>3. \A k \in T \ r : TokensIn(r \cup {k}) = Tokens(k) + TokensIn(r)
    BY <1>2, <2>1, <2>2
  <2>4. u \ {x} = r \cup {n} /\ s = r \cup {x}
    BY <1>3, <1>7, <2>1
  <2>5. TokensIn(u \ {x}) = Tokens(n) + TokensIn(r) /\ TokensIn(s) = Tokens(x) + TokensIn(r)
    BY <2>2, <2>3, <2>4
  <2>6. TokensIn(r) \in Nat /\ Tokens(n) \in Nat /\ Tokens(x) \in Nat
    BY <2>2, FS_Subset, TokensInType
  <2> QED
    BY <1>3, <1>5, <2>5, <2>6
<1> QED
  BY <1>6, <1>7

\* More memories have no fewer tokens.
LEMMA TokensInMonotone ==
    ASSUME NEW T, IsFiniteSet(T), \A n \in T : Tokens(n) \in Nat, NEW S, S \subseteq T
    PROVE  TokensIn(S) <= TokensIn(T)
<1> DEFINE F == {s \in SUBSET T : S \subseteq s /\ ~(TokensIn(S) <= TokensIn(s))}
<1>1. SUFFICES ASSUME F # {} PROVE FALSE
  OBVIOUS
<1>2. PICK s \in F : \A t \in F : t \subseteq s => t = s
  <2>1. F \subseteq SUBSET T
    OBVIOUS
  <2> HIDE DEF F
  <2> QED
    BY <1>1, <2>1, SmallestSet
<1>3. TokensIn(S) \in Nat
  BY FS_Subset, TokensInType
<1>4. PICK m \in s : m \notin S
  <2>1. TokensIn(S) <= TokensIn(S)
    BY <1>3
  <2>2. S # s
    BY <1>2, <2>1, Zenon
  <2> QED
    BY <1>2, <2>2
<1> DEFINE r == s \ {m}
<1>5. r \in SUBSET T /\ S \subseteq r /\ r \subseteq s /\ r # s /\ m \in T \ r /\ s = r \cup {m}
  BY <1>2, <1>4
<1>6. TokensIn(S) <= TokensIn(r)
  BY <1>2, <1>5
<1>7. TokensIn(s) = Tokens(m) + TokensIn(r)
  BY <1>5, TokensInAdd
<1>8. TokensIn(r) \in Nat /\ Tokens(m) \in Nat
  BY <1>5, FS_Subset, TokensInType
<1> QED
  BY <1>2, <1>3, <1>6, <1>7, <1>8

-----------------------------------------------------------------------------
(* Sequences. *)

\* A sequence that lists a finite set has each of its elements in one place.
LEMMA ListingCovers ==
    ASSUME NEW S, IsFiniteSet(S), NEW s \in SetToSeqs(S)
    PROVE  /\ s \in Seq(S)
           /\ IsInjective(s)
           /\ Range(s) = S
<1> DEFINE n == Cardinality(S)
<1>1. n \in Nat
  BY FS_CardinalityType
<1>2. s \in [1..n -> S] /\ \A i, j \in 1..n : i # j => s[i] # s[j]
  BY DEF SetToSeqs
<1>3. Cardinality(1..n) = n
  BY <1>1, FS_Interval
<1>4. s \in Injection(1..n, S)
  BY <1>2 DEF Injection, IsInjective
<1>5. s \in Surjection(1..n, S)
  BY <1>3, <1>4, FS_Injection
<1> QED
  BY <1>1, <1>2, <1>5 DEF Surjection, Range, IsInjective

\* A pack and the memory that joins it.
LEMMA AppendAdds ==
    ASSUME NEW S, NEW s \in Seq(S), NEW x \in S
    PROVE  /\ Append(s, x) \in Seq(S)
           /\ DOMAIN Append(s, x) = 1..(Len(s) + 1) /\ DOMAIN s = 1..Len(s) /\ Len(s) \in Nat
           /\ Append(s, x)[Len(s) + 1] = x
           /\ \A i \in DOMAIN s : Append(s, x)[i] = s[i]
           /\ Range(Append(s, x)) = Range(s) \cup {x}
           /\ \A i \in 1..(Len(s) + 1) : SubSeq(Append(s, x), 1, i - 1) = SubSeq(s, 1, i - 1)
           /\ SubSeq(s, 1, Len(s)) = s
<1> DEFINE n == Len(s)
           t == Append(s, x)
<1>1. n \in Nat /\ DOMAIN s = 1..n /\ \A i \in 1..n : s[i] \in S
  BY LenProperties, ElementOfSeq
<1>2. /\ t \in Seq(S) /\ Len(t) = n + 1 /\ t[n + 1] = x
      /\ \A i \in 1..n : t[i] = s[i]
  BY AppendProperties
<1>3. DOMAIN t = 1..(n + 1)
  BY <1>2, LenProperties
<1>4. Range(t) = Range(s) \cup {x}
  <2>1. \A i \in 1..(n + 1) : i \in 1..n \/ i = n + 1
    BY <1>1
  <2>2. 1..n \subseteq 1..(n + 1) /\ n + 1 \in 1..(n + 1)
    BY <1>1
  <2> QED
    BY <1>1, <1>2, <1>3, <2>1, <2>2 DEF Range
<1>5. ASSUME NEW i \in 1..(n + 1) PROVE SubSeq(t, 1, i - 1) = SubSeq(s, 1, i - 1)
  BY <1>1, <1>2, <1>5
<1>6. SubSeq(s, 1, n) = s
  BY <1>1, LenProperties
<1> QED
  BY <1>1, <1>2, <1>3, <1>4, <1>5, <1>6

-----------------------------------------------------------------------------
(* The orders. *)

\* The scores of admitted candidates are numbers.
LEMMA CombinedType ==
    ASSUME NEW q \in Queries, NEW c \in Candidates, AuthorizedAndValid(q, c)
    PROVE  Combined(q, c) \in Int
<1>1. /\ c.from \in Nat /\ q.now \in Nat /\ c.from <= q.now
      /\ c.lexical \in Int /\ c.semantic \in Int /\ c.trust \in Int
  <2>1. c.lexical \in 0..100 /\ c.semantic \in 0..100 /\ c.trust \in 0..100
    BY CandidatesAssumption
  <2>2. c.from \in Nat /\ q.now \in Nat
    BY CandidatesAssumption, QueriesAssumption
  <2>3. c.from <= q.now
    BY DEF AuthorizedAndValid, Live
  <2> QED
    BY <2>1, <2>2, <2>3
<1>2. Freshness(c, q.now) \in Int
  <2>1. 7 + (q.now - c.from) \in Nat \ {0}
    BY <1>1
  <2> HIDE <1>1
  <2> QED
    BY <2>1 DEF Freshness
<1> DEFINE w == WeightsOf(q)
<1>3. /\ DOMAIN Weights = {"lexical", "semantic", "trust", "freshness"}
      /\ \A axis \in DOMAIN Weights : Weights[axis] \in Nat
  BY WeightsAssumption
<1>4. w.lexical \in Int /\ w.semantic \in Int /\ w.trust \in Int /\ w.freshness \in Int
  BY <1>3 DEF WeightsOf
<1> HIDE DEF w
<1>5. ASSUME NEW a \in Int, NEW b \in Int PROVE a * b \in Int
  BY <1>5
<1> DEFINE sum == w.lexical * c.lexical + w.semantic * c.semantic + w.trust * c.trust
                      + w.freshness * Freshness(c, q.now)
<1>6. sum \in Int
  <2>1. /\ w.lexical * c.lexical \in Int /\ w.semantic * c.semantic \in Int
        /\ w.trust * c.trust \in Int /\ w.freshness * Freshness(c, q.now) \in Int
    BY <1>1, <1>2, <1>4, <1>5
  <2> QED
    BY <2>1
<1>7. Combined(q, c) = sum * (IF c.contradicted THEN 1 ELSE 4)
  BY DEF Combined, w
<1> HIDE DEF sum
<1> QED
  BY <1>6, <1>7

\* The price of a repetition is a number.
LEMMA RepetitionType ==
    ASSUME NEW q \in Queries, NEW S, NEW packed \in Seq(S), NEW c
    PROVE  Repetition(q, packed, c) \in Int
<1> DEFINE Repeats(axis) == Cardinality({i \in DOMAIN packed : packed[i][axis] = c[axis]})
<1>1. IsFiniteSet(DOMAIN packed)
  BY LenProperties, FS_Interval
<1>2. \A axis : Repeats(axis) \in Int
  <2> TAKE axis
  <2>1. IsFiniteSet({i \in DOMAIN packed : packed[i][axis] = c[axis]})
    BY <1>1, FS_Subset
  <2> QED
    BY <2>1, FS_CardinalityType
<1>3. Repetition(q, packed, c) =
        q.penalties.agent * Repeats("agent") + q.penalties.workflow * Repeats("workflow")
          + q.penalties.derivation * Repeats("derivation") + q.penalties.type * Repeats("type")
  BY DEF Repetition
<1>4. q.penalties \in [{"agent", "workflow", "derivation", "type"} -> Nat]
  BY PenaltiesAssumption
<1>5. /\ q.penalties.agent \in Int /\ q.penalties.workflow \in Int
      /\ q.penalties.derivation \in Int /\ q.penalties.type \in Int
  BY <1>4
<1> HIDE DEF Repeats
<1>6. ASSUME NEW a \in Int, NEW b \in Int PROVE a * b \in Int
  BY <1>6
<1>7. /\ q.penalties.agent * Repeats("agent") \in Int
      /\ q.penalties.workflow * Repeats("workflow") \in Int
      /\ q.penalties.derivation * Repeats("derivation") \in Int
      /\ q.penalties.type * Repeats("type") \in Int
  BY <1>2, <1>5, <1>6
<1> QED
  BY <1>3, <1>7

\* No two candidates rank before each other.
LEMMA RanksBeforeOrders ==
    ASSUME NEW q \in Queries, NEW c \in Candidates, NEW d \in Candidates,
           AuthorizedAndValid(q, c), AuthorizedAndValid(q, d), RanksBefore(q, c, d)
    PROVE  ~RanksBefore(q, d, c)
<1>1. Combined(q, c) \in Int /\ Combined(q, d) \in Int /\ c.id \in Nat /\ d.id \in Nat
  BY CombinedType, CandidatesAssumption
<1> QED
  BY <1>1 DEF RanksBefore

\* What beats another by the code's comparison is not worth less.
LEMMA BeatsIsWorthMore ==
    ASSUME TypeOK, NEW before \in Seq(Candidates), NEW c \in Candidates, NEW d \in Candidates,
           AuthorizedAndValid(query, c), AuthorizedAndValid(query, d), Beats(query, before, c, d)
    PROVE  ~WorthMore(before, d, c)
<1>1. /\ Combined(query, c) \in Int /\ Combined(query, d) \in Int
      /\ Repetition(query, before, c) \in Int /\ Repetition(query, before, d) \in Int
      /\ c.id \in Nat /\ d.id \in Nat
  BY CombinedType, RepetitionType, CandidatesAssumption DEF TypeOK
<1> DEFINE ofC == Combined(query, c) * (100 + Repetition(query, before, d))
           ofD == Combined(query, d) * (100 + Repetition(query, before, c))
<1>2. ofC \in Int /\ ofD \in Int
  <2>1. ASSUME NEW a \in Int, NEW b \in Int PROVE a * (100 + b) \in Int
    BY <2>1
  <2> QED
    BY <1>1, <2>1
<1>3. ofC > ofD \/ (ofC = ofD /\ RanksBefore(query, c, d))
  BY DEF Beats
<1>4. WorthMore(before, d, c) <=>
        \/ ofD > ofC
        \/ ofD = ofC /\ Combined(query, d) > Combined(query, c)
        \/ ofD = ofC /\ Combined(query, d) = Combined(query, c) /\ d.id < c.id
  BY DEF WorthMore
<1> HIDE DEF ofC, ofD
<1> QED
  BY <1>1, <1>2, <1>3, <1>4 DEF RanksBefore

-----------------------------------------------------------------------------
(* The steps. *)

\* What only the request and its candidates determine.
LEMMA SameRequest ==
    ASSUME UNCHANGED <<query, given>>
    PROVE  /\ Admitted' = Admitted
           /\ Eligible' = Eligible
  BY DEF Admitted, Eligible

\* There are finitely many eligible memories, each an admitted candidate.
LEMMA EligibleType ==
    ASSUME TypeOK
    PROVE  /\ IsFiniteSet(Admitted) /\ IsFiniteSet(Eligible)
           /\ Eligible \subseteq Admitted /\ Admitted \subseteq Candidates
           /\ \A m \in Admitted : AuthorizedAndValid(query, m) /\ Tokens(m) \in Nat
<1>1. DOMAIN given = 1..Len(given) /\ Len(given) \in Nat /\ \A i \in 1..Len(given) : given[i] \in Candidates
  BY LenProperties, ElementOfSeq DEF TypeOK
<1>2. Range(given) \subseteq Candidates
  BY <1>1 DEF Range
<1>3. IsFiniteSet(Range(given))
  <2>1. given = [i \in 1..Len(given) |-> given[i]]
    BY LenProperties DEF TypeOK
  <2>2. given \in [1..Len(given) -> Range(given)]
    BY <1>1, <2>1 DEF Range
  <2>3. given \in Surjection(1..Len(given), Range(given))
    BY <1>1, <2>2 DEF Surjection, Range
  <2> QED
    BY <1>1, <2>3, FS_Interval, FS_Surjection
<1>4. Admitted \subseteq Range(given) /\ Eligible \subseteq Admitted
  BY DEF Admitted, Eligible
<1>5. \A m \in Admitted : AuthorizedAndValid(query, m)
  BY DEF Admitted
<1>6. \A m \in Candidates : Tokens(m) \in Nat
  BY CandidatesAssumption DEF Tokens
<1> QED
  BY <1>2, <1>3, <1>4, <1>5, <1>6, FS_Subset

\* Sorting and deduplicating what the filters admit leaves what is eligible.
LEMMA RankedAreEligible ==
    ASSUME TypeOK, Rank
    PROVE  pool' = Eligible
<1>1. PICK s \in SetToSeqs(Admitted) :
        /\ \A i, j \in DOMAIN s : i < j => RanksBefore(query, s[i], s[j])
        /\ pool' = FirstOfContent(s)
  BY DEF Rank, Sorted
<1>2. s \in Seq(Admitted) /\ IsInjective(s) /\ Range(s) = Admitted
  BY EligibleType, ListingCovers
<1>3. DOMAIN s = 1..Len(s) /\ Len(s) \in Nat
  BY <1>2, LenProperties
<1> DEFINE First(i) == \A j \in 1..(i - 1) : Normal[s[j].content] # Normal[s[i].content]
<1>4. FirstOfContent(s) = {s[i] : i \in {k \in DOMAIN s : First(k)}}
  BY DEF FirstOfContent
<1>5. ASSUME NEW i \in DOMAIN s, First(i) PROVE s[i] \in Eligible
  <2>1. s[i] \in Admitted
    BY <1>2 DEF Range
  <2>2. ASSUME NEW n \in Admitted \ {s[i]}, Normal[n.content] = Normal[s[i].content]
        PROVE  RanksBefore(query, s[i], n)
    <3>1. PICK j \in DOMAIN s : n = s[j]
      BY <1>2 DEF Range
    <3>2. ~(j < i)
      BY <1>3, <1>5, <2>2, <3>1
    <3>3. i < j
      BY <1>3, <2>2, <3>1, <3>2
    <3> QED
      BY <1>1, <3>1, <3>3
  <2> QED
    BY <2>1, <2>2 DEF Eligible
<1>6. ASSUME NEW m \in Eligible PROVE \E i \in DOMAIN s : m = s[i] /\ First(i)
  <2>1. m \in Admitted
    BY EligibleType
  <2>2. PICK i \in DOMAIN s : m = s[i]
    BY <1>2, <2>1 DEF Range
  <2>3. ASSUME NEW j \in 1..(i - 1), Normal[s[j].content] = Normal[s[i].content]
        PROVE  FALSE
    <3>1. j \in DOMAIN s /\ j < i
      BY <1>3, <2>3
    <3>2. s[j] \in Admitted /\ s[j] # m /\ RanksBefore(query, s[j], m)
      BY <1>1, <1>2, <2>2, <3>1 DEF Range, IsInjective
    <3>3. RanksBefore(query, m, s[j])
      BY <2>2, <2>3, <3>2 DEF Eligible
    <3> QED
      BY <2>1, <3>2, <3>3, EligibleType, RanksBeforeOrders DEF TypeOK
  <2> QED
    BY <2>2, <2>3
<1> HIDE DEF First
<1> QED
  BY <1>1, <1>4, <1>5, <1>6

\* What is open after `before`, and which of it is best, the request determines.
LEMMA SameOpen ==
    ASSUME UNCHANGED <<query, given>>
    PROVE  \A before :
             /\ Open(before)' = Open(before)
             /\ \A m, n : WorthMore(before, m, n)' <=> WorthMore(before, m, n)
  BY SameRequest DEF Open, WorthMore

\* Whatever fits after the pack is in the pool.
LEMMA OpenIsInPool ==
    ASSUME IInv, phase # "given"
    PROVE  Open(pack) \subseteq pool
<1> SUFFICES ASSUME NEW m \in Open(pack), m \notin pool PROVE FALSE
  OBVIOUS
<1>1. m \in Dropped /\ total + Tokens(m) <= query.maxTokens
  BY DEF Open, Dropped, IInv, Budget
<1>2. total + Tokens(m) > query.maxTokens
  BY <1>1 DEF IInv, DroppedForGood
<1>3. total \in Nat /\ Tokens(m) \in Nat /\ query.maxTokens \in Nat
  BY <1>1, EligibleType, QueriesAssumption DEF Dropped, IInv, TypeOK
<1> QED
  BY <1>1, <1>2, <1>3

\* The invariant's steps: one lemma per action of the pipeline.
LEMMA StartIsSound == Init => IInv
<1> SUFFICES ASSUME Init PROVE IInv
  OBVIOUS
<1>1. /\ query \in Queries /\ phase = "given"
      /\ pool = {} /\ pack = <<>> /\ total = 0 /\ truncated = FALSE
  BY DEF Init
<1>2. TypeOK
  <2>1. PICK n \in 0..MaxCandidates : given \in [1..n -> Candidates]
    BY DEF Init
  <2>2. n \in Nat
    BY BoundAssumption
  <2>3. given \in Seq(Candidates)
    BY <2>1, <2>2
  <2> QED
    BY <1>1, <2>3, EmptySeq DEF TypeOK
<1>3. Range(pack) = {}
  BY <1>1 DEF Range
<1>4. Placed
  BY <1>1, <1>3 DEF Placed
<1>5. Budget
  <2>1. TokensIn({}) = 0
    BY FS_EmptySet, TokensInRest
  <2>2. query.maxTokens \in Nat
    BY <1>2, QueriesAssumption DEF TypeOK
  <2>3. total = 0
    BY <1>1
  <2>4. TokensIn(Range(pack)) = 0
    BY <1>3, <2>1
  <2>5. total <= query.maxTokens
    BY <2>2, <2>3
  <2> QED
    BY <2>3, <2>4, <2>5 DEF Budget
<1>6. DroppedForGood /\ BestFirst
  BY <1>1 DEF DroppedForGood, BestFirst
<1> QED
  BY <1>2, <1>4, <1>5, <1>6 DEF IInv

\* What was ranked is in the pool, all of it.
LEMMA RankKeeps ==
    ASSUME IInv, Rank
    PROVE  IInv'
<1>1. /\ phase = "given" /\ phase' = "packing" /\ pack = <<>> /\ ~truncated
      /\ UNCHANGED <<query, given, pack, total, truncated>>
  BY DEF Rank, IInv, Placed
<1>2. pool' = Eligible
  BY RankedAreEligible DEF IInv
<1>3. Eligible' = Eligible
  BY <1>1, SameRequest
<1>4. Range(pack) = {} /\ pack' = pack
  BY <1>1 DEF Range
<1>5. TypeOK'
  BY <1>1, <1>2, EligibleType DEF IInv, TypeOK
<1>6. Placed'
  BY <1>1, <1>2, <1>3, <1>4 DEF Placed
<1>7. Budget'
  BY <1>1 DEF IInv, Budget
<1>8. DroppedForGood'
  BY <1>1, <1>2, <1>3 DEF DroppedForGood, Dropped
<1>9. BestFirst'
  BY <1>1 DEF BestFirst
<1> QED
  BY <1>5, <1>6, <1>7, <1>8, <1>9 DEF IInv

\* What both outcomes of a round have in common: the best of the pool leaves it.
LEMMA RoundTakesBest ==
    ASSUME IInv, phase = "packing", NEW x \in pool, IsBest(x)
    PROVE  /\ x \in Eligible /\ x \in Candidates /\ x \notin Range(pack)
           /\ \A m \in Open(pack) \ {x} : ~WorthMore(pack, m, x)
<1>1. x \in Eligible /\ x \in Candidates /\ x \notin Range(pack)
  BY EligibleType DEF IInv, Placed
<1>2. ASSUME NEW m \in Open(pack) \ {x}
      PROVE  ~WorthMore(pack, m, x)
  <2>1. m \in pool /\ Beats(query, pack, x, m)
    BY OpenIsInPool DEF IsBest
  <2>2. m \in Eligible
    BY <2>1 DEF IInv, Placed
  <2> QED
    BY <1>1, <2>1, <2>2, EligibleType, BeatsIsWorthMore DEF IInv, TypeOK
<1> QED
  BY <1>1, <1>2

\* What is taken was the best of all that fitted, those dropped before included.
LEMMA TakeKeeps ==
    ASSUME IInv, Take
    PROVE  IInv'
<1>1. PICK x \in pool :
        /\ phase = "packing" /\ IsBest(x) /\ Fits(x)
        /\ pool' = pool \ {x}
        /\ pack' = Append(pack, x)
        /\ total' = total + Tokens(x)
        /\ UNCHANGED <<query, given, phase, truncated>>
  BY DEF Take
<1> DEFINE n == Len(pack)
<1>2. /\ x \in Eligible /\ x \in Candidates /\ x \notin Range(pack)
      /\ \A m \in Open(pack) \ {x} : ~WorthMore(pack, m, x)
  BY <1>1, RoundTakesBest
<1>3. /\ pack' \in Seq(Candidates) /\ n \in Nat
      /\ DOMAIN pack' = 1..(n + 1) /\ DOMAIN pack = 1..n
      /\ pack'[n + 1] = x /\ \A j \in DOMAIN pack : pack'[j] = pack[j]
      /\ Range(pack') = Range(pack) \cup {x}
      /\ \A j \in 1..(n + 1) : SubSeq(pack', 1, j - 1) = SubSeq(pack, 1, j - 1)
      /\ SubSeq(pack, 1, n) = pack
  BY <1>1, <1>2, AppendAdds DEF IInv, TypeOK
<1>4. Eligible' = Eligible
  BY <1>1, SameRequest
<1>5. total \in Nat /\ query.maxTokens \in Nat /\ Tokens(x) \in Nat
  BY <1>2, EligibleType, QueriesAssumption DEF IInv, TypeOK
<1>6. total = TokensIn(Range(pack)) /\ total + Tokens(x) <= query.maxTokens
  BY <1>1 DEF IInv, Budget, Fits
<1> HIDE DEF n
<1>7. TypeOK'
  BY <1>1, <1>2, <1>3, <1>5 DEF IInv, TypeOK
<1>8. Placed'
  <2>1. pool \cup Range(pack) \subseteq Eligible /\ pool \cap Range(pack) = {}
    BY DEF IInv, Placed
  <2> QED
    BY <1>1, <1>2, <1>3, <1>4, <2>1 DEF Placed
<1>9. TokensIn(Range(pack')) = Tokens(x) + TokensIn(Range(pack))
  <2>1. /\ Range(pack) \subseteq Eligible /\ IsFiniteSet(Eligible)
        /\ \A m \in Eligible : Tokens(m) \in Nat
    BY EligibleType DEF IInv, Placed
  <2> QED
    BY <1>2, <1>3, <2>1, TokensInAdd
<1>10. Budget'
  <2>1. total' = TokensIn(Range(pack')) /\ total' <= query'.maxTokens
    BY <1>1, <1>5, <1>6, <1>9
  <2> QED
    BY <2>1 DEF Budget
<1>11. DroppedForGood'
  <2>1. Dropped' = Dropped
    BY <1>1, <1>2, <1>3, <1>4 DEF Dropped
  <2>2. \A m \in Dropped : total + Tokens(m) > query.maxTokens /\ Tokens(m) \in Nat
    BY <1>1, EligibleType DEF IInv, DroppedForGood, Dropped
  <2>3. \A m \in Dropped : total' + Tokens(m) > query.maxTokens
    BY <1>1, <1>5, <2>2
  <2> QED
    BY <1>1, <2>1, <2>3 DEF IInv, DroppedForGood
<1>12. BestFirst'
  <2> SUFFICES ASSUME NEW j \in 1..(n + 1)
               PROVE  LET before == SubSeq(pack', 1, j - 1) IN
                      /\ pack'[j] \in Open(before)
                      /\ \A m \in Open(before) \ {pack'[j]} : ~WorthMore(before, m, pack'[j])
    BY <1>1, <1>3, SameOpen DEF BestFirst
  <2>1. CASE j = n + 1
    <3>1. SubSeq(pack', 1, j - 1) = pack
      BY <1>3, <2>1
    <3>2. x \in Open(pack)
      BY <1>2, <1>6 DEF Open
    <3> QED
      BY <1>2, <1>3, <2>1, <3>1, <3>2
  <2>2. CASE j # n + 1
    <3>1. j \in DOMAIN pack
      BY <1>3, <2>2
    <3> QED
      BY <1>3, <3>1 DEF IInv, BestFirst
  <2> QED
    BY <2>1, <2>2
<1> QED
  BY <1>7, <1>8, <1>10, <1>11, <1>12 DEF IInv

\* What is skipped is dropped for good: the total only grows.
LEMMA SkipKeeps ==
    ASSUME IInv, Skip
    PROVE  IInv'
<1>1. PICK x \in pool :
        /\ phase = "packing" /\ IsBest(x) /\ ~Fits(x)
        /\ pool' = pool \ {x}
        /\ truncated' = TRUE
        /\ UNCHANGED <<query, given, phase, pack, total>>
  BY DEF Skip
<1>2. x \in Eligible /\ x \notin Range(pack)
  BY <1>1, RoundTakesBest
<1>3. Eligible' = Eligible
  BY <1>1, SameRequest
<1>4. total \in Nat /\ query.maxTokens \in Nat /\ Tokens(x) \in Nat
  BY <1>2, EligibleType, QueriesAssumption DEF IInv, TypeOK
<1>5. total + Tokens(x) > query.maxTokens
  BY <1>1, <1>4 DEF Fits
<1>6. TypeOK'
  BY <1>1, <1>2 DEF IInv, TypeOK
<1>7. Placed'
  <2>1. pool \cup Range(pack) \subseteq Eligible /\ pool \cap Range(pack) = {}
    BY DEF IInv, Placed
  <2> QED
    BY <1>1, <1>2, <1>3, <2>1 DEF Placed
<1>8. Budget'
  BY <1>1 DEF IInv, Budget
<1>9. DroppedForGood'
  <2>1. Dropped' \subseteq Dropped \cup {x} /\ x \in Dropped'
    BY <1>1, <1>2, <1>3 DEF Dropped
  <2>2. \A m \in Dropped : total + Tokens(m) > query.maxTokens
    BY <1>1 DEF IInv, DroppedForGood
  <2> QED
    BY <1>1, <1>5, <2>1, <2>2 DEF DroppedForGood
<1>10. BestFirst'
  BY <1>1, SameOpen DEF IInv, BestFirst
<1> QED
  BY <1>6, <1>7, <1>8, <1>9, <1>10 DEF IInv

\* The loop ends with nothing left to take.
LEMMA FinishKeeps ==
    ASSUME IInv, Finish
    PROVE  IInv'
<1>1. /\ phase = "packing" /\ phase' = "packed" /\ pool = {}
      /\ UNCHANGED <<query, given, pool, pack, total, truncated>>
  BY DEF Finish
<1>2. Eligible' = Eligible
  BY <1>1, SameRequest
<1>3. TypeOK' /\ Placed' /\ Budget'
  BY <1>1, <1>2 DEF IInv, TypeOK, Placed, Budget
<1>4. DroppedForGood'
  BY <1>1, <1>2 DEF IInv, DroppedForGood, Dropped
<1>5. BestFirst'
  BY <1>1, SameOpen DEF IInv, BestFirst
<1> QED
  BY <1>3, <1>4, <1>5 DEF IInv

\* A step that changes nothing keeps the invariant.
LEMMA StutterKeeps ==
    ASSUME IInv, UNCHANGED vars
    PROVE  IInv'
<1>1. Eligible' = Eligible
  BY SameRequest DEF vars
<1>2. TypeOK' /\ Placed' /\ Budget'
  BY <1>1 DEF IInv, TypeOK, Placed, Budget, vars
<1>3. DroppedForGood'
  BY <1>1 DEF IInv, DroppedForGood, Dropped, vars
<1>4. BestFirst'
  BY SameOpen DEF IInv, BestFirst, vars
<1> QED
  BY <1>2, <1>3, <1>4 DEF IInv

\* The inductive invariant, of any recall.
THEOREM Invariant == Spec => []IInv
<1>1. IInv /\ [Next]_vars => IInv'
  BY RankKeeps, TakeKeeps, SkipKeeps, FinishKeeps, StutterKeeps DEF Next
<1> QED
  BY StartIsSound, <1>1, PTL DEF Spec

-----------------------------------------------------------------------------
(* The properties of Recall. *)

\* The pack is the one the candidates determine as a set, place by place, for
\* any candidates, scores, penalties and budget.
THEOREM PackIsRanked == Spec => []PackIsTheRanking
<1>1. IInv => PackIsTheRanking
  <2> SUFFICES ASSUME IInv, phase = "packed" PROVE BestFirst /\ Open(pack) = {}
    BY DEF PackIsTheRanking, BestFirst
  <2>1. pool = {}
    BY DEF IInv, Placed, Range
  <2> QED
    BY <2>1, OpenIsInPool DEF IInv
<1> QED
  BY <1>1, Invariant, PTL

\* The pack is within its budget, and says whether something is missing.
THEOREM PackIsHonest == Spec => []AccountsAreTrue
<1>1. IInv => AccountsAreTrue
  <2> SUFFICES ASSUME IInv, phase = "packed" PROVE truncated <=> Range(pack) # Eligible
    BY DEF AccountsAreTrue, IInv, Budget
  <2>1. pool = {} /\ Range(pack) \subseteq Eligible
    BY DEF IInv, Placed, Range
  <2>2. Dropped = {} <=> Range(pack) = Eligible
    BY <2>1 DEF Dropped
  <2> QED
    BY <2>2 DEF IInv, DroppedForGood
<1> QED
  BY <1>1, Invariant, PTL

\* No score or penalty brings in what the filters keep out, nor keeps out what
\* there is room for.
THEOREM RankingHasNoAuthority == Spec => []RankingIsNoAuthority
<1>1. IInv => RankingIsNoAuthority
  <2> SUFFICES ASSUME IInv PROVE RankingIsNoAuthority
    OBVIOUS
  <2>1. /\ Range(pack) \subseteq Eligible /\ IsFiniteSet(Eligible)
        /\ \A m \in Eligible : AuthorizedAndValid(query, m) /\ Tokens(m) \in Nat
    BY EligibleType DEF IInv, Placed
  <2>2. ASSUME NEW m \in Range(pack)
        PROVE  /\ m.tenant = query.tenant
               /\ m.permission # NoPermission => m.permission \in query.permissions
               /\ ~m.superseded /\ m.from <= query.now /\ (m.until > 0 => query.now < m.until)
    BY <2>1 DEF AuthorizedAndValid, Live
  <2>3. ASSUME phase = "packed", TokensIn(Eligible) <= query.maxTokens
        PROVE  Range(pack) = Eligible
    <3> SUFFICES ASSUME NEW m \in Eligible \ Range(pack) PROVE FALSE
      BY <2>1
    <3>1. m \in Dropped
      BY <2>3 DEF Dropped, IInv, Placed, Range
    <3>2. total + Tokens(m) > query.maxTokens /\ total = TokensIn(Range(pack))
      BY <2>3, <3>1 DEF IInv, DroppedForGood, Budget
    <3>3. TokensIn(Range(pack) \cup {m}) = Tokens(m) + TokensIn(Range(pack))
      BY <2>1, TokensInAdd
    <3>4. TokensIn(Range(pack) \cup {m}) <= TokensIn(Eligible)
      BY <2>1, TokensInMonotone
    <3>5. /\ TokensIn(Range(pack)) \in Nat /\ Tokens(m) \in Nat /\ TokensIn(Eligible) \in Nat
          /\ query.maxTokens \in Nat
      BY <2>1, FS_Subset, TokensInType, QueriesAssumption DEF IInv, TypeOK
    <3> QED
      BY <2>3, <3>2, <3>3, <3>4, <3>5
  <2> QED
    BY <2>2, <2>3 DEF RankingIsNoAuthority
<1> QED
  BY <1>1, Invariant, PTL

-----------------------------------------------------------------------------
(* There is one ranking: what PackIsTheRanking says leaves the loop no choice. *)

\* A pack that is best at each place, and leaves out none that fits.
IsRanking(s) ==
    /\ s \in Seq(Candidates)
    /\ \A i \in DOMAIN s :
          LET before == SubSeq(s, 1, i - 1) IN
          /\ s[i] \in Open(before)
          /\ \A m \in Open(before) \ {s[i]} : ~WorthMore(before, m, s[i])
    /\ Open(s) = {}

\* Of two candidates one is worth more: ids break every tie.
LEMMA WorthIsTotal ==
    ASSUME TypeOK, NEW before \in Seq(Candidates), NEW c \in Eligible, NEW d \in Eligible, c # d
    PROVE  WorthMore(before, c, d) \/ WorthMore(before, d, c)
<1>1. /\ c \in Candidates /\ d \in Candidates
      /\ AuthorizedAndValid(query, c) /\ AuthorizedAndValid(query, d)
  BY EligibleType
<1>2. /\ Combined(query, c) \in Int /\ Combined(query, d) \in Int
      /\ Repetition(query, before, c) \in Int /\ Repetition(query, before, d) \in Int
  BY <1>1, CombinedType, RepetitionType DEF TypeOK
<1>3. c.id \in Nat /\ d.id \in Nat /\ c.id # d.id
  BY <1>1, CandidatesAssumption
<1> DEFINE ofC == Combined(query, c) * (100 + Repetition(query, before, d))
           ofD == Combined(query, d) * (100 + Repetition(query, before, c))
<1>4. ofC \in Int /\ ofD \in Int
  <2>1. ASSUME NEW a \in Int, NEW b \in Int PROVE a * (100 + b) \in Int
    BY <2>1
  <2> QED
    BY <1>2, <2>1
<1>5. WorthMore(before, c, d) <=>
        \/ ofC > ofD
        \/ ofC = ofD /\ Combined(query, c) > Combined(query, d)
        \/ ofC = ofD /\ Combined(query, c) = Combined(query, d) /\ c.id < d.id
  BY DEF WorthMore
<1>6. WorthMore(before, d, c) <=>
        \/ ofD > ofC
        \/ ofD = ofC /\ Combined(query, d) > Combined(query, c)
        \/ ofD = ofC /\ Combined(query, d) = Combined(query, c) /\ d.id < c.id
  BY DEF WorthMore
<1> HIDE DEF ofC, ofD
<1> QED
  BY <1>2, <1>3, <1>4, <1>5, <1>6

\* A set of places has a first one.
LEMMA FirstPlace ==
    ASSUME NEW n \in Nat, NEW S, S \subseteq 1..n, S # {}
    PROVE  \E i \in S : \A j \in S : i <= j
<1> DEFINE F == {1..i : i \in S}
           all == 1..n
<1>1. PICK s \in F : \A t \in F : t \subseteq s => t = s
  <2>1. IsFiniteSet(all)
    BY FS_Interval
  <2>2. \A i \in all : 1..i \subseteq all
    OBVIOUS
  <2>3. S \subseteq all
    OBVIOUS
  <2> HIDE DEF all
  <2>4. F \subseteq SUBSET all /\ F # {}
    BY <2>2, <2>3
  <2> HIDE DEF F
  <2> QED
    BY <2>1, <2>4, SmallestSet
<1>2. PICK i \in S : s = 1..i
  OBVIOUS
<1>3. ASSUME NEW j \in S, ~(i <= j) PROVE FALSE
  <2>1. i \in Nat /\ j \in Nat /\ j < i /\ i \in 1..i
    BY <1>3
  <2>2. 1..j \in F /\ 1..j \subseteq 1..i /\ i \notin 1..j
    BY <2>1
  <2> QED
    BY <1>1, <1>2, <2>1, <2>2
<1> QED
  BY <1>3

\* After the same beginning, two rankings go on with the same memory.
LEMMA SameNext ==
    ASSUME TypeOK, NEW s, NEW t, IsRanking(s), IsRanking(t),
           NEW i \in DOMAIN s, i \in DOMAIN t, SubSeq(s, 1, i - 1) = SubSeq(t, 1, i - 1)
    PROVE  s[i] = t[i]
<1> DEFINE before == SubSeq(s, 1, i - 1)
<1>1. before \in Seq(Candidates)
  <2>1. s \in Seq(Candidates) /\ DOMAIN s = 1..Len(s) /\ Len(s) \in Nat
    BY LenProperties DEF IsRanking
  <2>2. \A j \in 1..Len(s) : s[j] \in Candidates
    BY <2>1, ElementOfSeq
  <2>3. i - 1 \in 0..Len(s)
    BY <2>1
  <2> QED
    BY <2>1, <2>2, <2>3, SubSeqProperties
<1>2. /\ s[i] \in Open(before) /\ \A m \in Open(before) \ {s[i]} : ~WorthMore(before, m, s[i])
      /\ t[i] \in Open(before) /\ \A m \in Open(before) \ {t[i]} : ~WorthMore(before, m, t[i])
  BY DEF IsRanking
<1>3. s[i] \in Eligible /\ t[i] \in Eligible
  BY <1>2 DEF Open
<1> HIDE DEF before
<1> QED
  BY <1>1, <1>2, <1>3, WorthIsTotal

\* Two sequences that agree on their first places begin the same.
LEMMA SameBeginning ==
    ASSUME NEW S, NEW s \in Seq(S), NEW t \in Seq(S), NEW n \in 0..Len(s), n <= Len(t),
           \A j \in 1..n : s[j] = t[j]
    PROVE  SubSeq(s, 1, n) = SubSeq(t, 1, n)
<1>1. Len(s) \in Nat /\ Len(t) \in Nat
  BY LenProperties
<1> QED
  BY <1>1

\* A ranking does not end before another one that begins the same.
LEMMA NoneIsLonger ==
    ASSUME TypeOK, NEW s, NEW t, IsRanking(s), IsRanking(t),
           \A j \in DOMAIN s \cap DOMAIN t : s[j] = t[j]
    PROVE  Len(t) <= Len(s)
<1> DEFINE n == Len(s)
<1>1. /\ s \in Seq(Candidates) /\ t \in Seq(Candidates)
      /\ n \in Nat /\ Len(t) \in Nat /\ DOMAIN s = 1..n /\ DOMAIN t = 1..Len(t)
  BY LenProperties DEF IsRanking
<1>2. SUFFICES ASSUME n < Len(t) PROVE FALSE
  BY <1>1
<1>3. SubSeq(t, 1, n) = s
  <2>1. \A j \in 1..n : s[j] = t[j]
    BY <1>1, <1>2
  <2>2. SubSeq(s, 1, n) = SubSeq(t, 1, n)
    BY <1>1, <1>2, <2>1, SameBeginning
  <2>3. SubSeq(s, 1, n) = s
    BY <1>1, LenProperties
  <2> QED
    BY <2>2, <2>3
<1>4. n + 1 \in DOMAIN t /\ (n + 1) - 1 = n
  BY <1>1, <1>2
<1>5. t[n + 1] \in Open(SubSeq(t, 1, (n + 1) - 1))
  BY <1>4 DEF IsRanking
<1>6. t[n + 1] \in Open(s)
  BY <1>3, <1>4, <1>5
<1> QED
  BY <1>6 DEF IsRanking

\* A request and a set of candidates have one ranking.
LEMMA OneRanking ==
    ASSUME TypeOK, NEW s, NEW t, IsRanking(s), IsRanking(t)
    PROVE  s = t
<1>1. /\ s \in Seq(Candidates) /\ t \in Seq(Candidates)
      /\ Len(s) \in Nat /\ Len(t) \in Nat /\ DOMAIN s = 1..Len(s) /\ DOMAIN t = 1..Len(t)
  BY LenProperties DEF IsRanking
<1> DEFINE apart == {j \in DOMAIN s \cap DOMAIN t : s[j] # t[j]}
<1>2. ASSUME apart # {} PROVE FALSE
  <2>1. apart \subseteq 1..Len(s)
    BY <1>1
  <2> HIDE DEF apart
  <2>2. PICK i \in apart : \A j \in apart : i <= j
    BY <1>1, <1>2, <2>1, FirstPlace
  <2> USE DEF apart
  <2>3. i \in 1..Len(s) /\ i \in 1..Len(t) /\ s[i] # t[i]
    BY <1>1
  <2>4. \A j \in 1..(i - 1) : s[j] = t[j]
    BY <1>1, <2>2, <2>3
  <2>5. i - 1 \in 0..Len(s) /\ i - 1 <= Len(t)
    BY <1>1, <2>3
  <2>6. SubSeq(s, 1, i - 1) = SubSeq(t, 1, i - 1)
    BY <1>1, <2>4, <2>5, SameBeginning
  <2> QED
    BY <1>1, <2>3, <2>6, SameNext
<1>3. \A j \in DOMAIN s \cap DOMAIN t : s[j] = t[j]
  BY <1>2
<1>4. Len(s) = Len(t)
  <2>1. Len(t) <= Len(s)
    BY <1>3, NoneIsLonger
  <2>2. \A j \in DOMAIN t \cap DOMAIN s : t[j] = s[j]
    BY <1>3
  <2>3. Len(s) <= Len(t)
    BY <2>2, NoneIsLonger
  <2>4. Len(s) \in Nat /\ Len(t) \in Nat
    BY <1>1
  <2> QED
    BY <2>1, <2>3, <2>4
<1>5. s = [j \in 1..Len(s) |-> s[j]] /\ t = [j \in 1..Len(t) |-> t[j]]
  BY <1>1, LenProperties
<1> QED
  BY <1>1, <1>3, <1>4, <1>5

\* A pack that is done is a ranking.
LEMMA PackRanks == IInv /\ phase = "packed" => IsRanking(pack)
<1> SUFFICES ASSUME IInv, phase = "packed" PROVE IsRanking(pack)
  OBVIOUS
<1>1. pool = {}
  BY DEF IInv, Placed
<1>2. Open(pack) = {}
  BY <1>1, OpenIsInPool
<1> QED
  BY <1>2 DEF IInv, TypeOK, BestFirst, IsRanking

\* Whatever a recall answers is the only ranking there is.
THEOREM PackIsTheOnlyRanking ==
    Spec => [](phase = "packed" => \A s : IsRanking(s) <=> s = pack)
<1>1. IInv => (phase = "packed" => \A s : IsRanking(s) <=> s = pack)
  BY PackRanks, OneRanking DEF IInv
<1> QED
  BY <1>1, Invariant, PTL

\* Two recalls of one request over one set of candidates answer the same pack
\* and flag, in whatever orders their candidates came (pack_context sorts them).
\* The primed variables are those of the second recall; no step relates the two.
THEOREM OrderOfCandidatesIsNoMatter ==
    ASSUME IInv, IInv', phase = "packed", phase' = "packed",
           query' = query, Range(given') = Range(given)
    PROVE  pack' = pack /\ total' = total /\ truncated' = truncated
<1>1. Admitted' = Admitted /\ Eligible' = Eligible
  BY DEF Admitted, Eligible
<1>2. \A before : /\ Open(before)' = Open(before)
                  /\ \A m, n : WorthMore(before, m, n)' <=> WorthMore(before, m, n)
  BY <1>1 DEF Open, WorthMore
<1>3. IsRanking(pack)
  BY PackRanks
<1>4. IsRanking(pack)'
  <2>1. (IInv /\ phase = "packed" => IsRanking(pack))'
    BY PackRanks, PTL
  <2> QED
    BY <2>1
<1>5. IsRanking(pack')
  BY <1>2, <1>4 DEF IsRanking
<1>6. pack' = pack
  BY <1>3, <1>5, OneRanking DEF IInv
<1>7. total' = total
  <2>1. total = TokensIn(Range(pack)) /\ total' = TokensIn(Range(pack'))
    BY DEF IInv, Budget
  <2> QED
    BY <1>6, <2>1
<1>8. truncated' = truncated
  <2>1. pool = {} /\ pool' = {}
    BY DEF IInv, Placed
  <2>2. Dropped' = Dropped
    BY <1>1, <1>6, <2>1 DEF Dropped
  <2>3. (truncated <=> Dropped # {}) /\ (truncated' <=> Dropped' # {})
    BY DEF IInv, DroppedForGood
  <2>4. truncated \in BOOLEAN /\ truncated' \in BOOLEAN
    BY DEF IInv, TypeOK
  <2> QED
    BY <2>2, <2>3, <2>4
<1> QED
  BY <1>6, <1>7, <1>8
=============================================================================
