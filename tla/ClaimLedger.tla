---------------------------- MODULE ClaimLedger ----------------------------
(***************************************************************************)
(* The in-process claim ledger, src/claims.rs: a map from keys to claims,   *)
(* changed by one call at a time (the service holds it behind a mutex).     *)
(* A call that finds no claim, or a terminal one, is refused and changes    *)
(* nothing.                                                                 *)
(***************************************************************************)
EXTENDS Claims

CONSTANTS
    MaxId,      \* bound: how many claim ids are handed out
    MaxVersion  \* bound: the highest version a claim reaches

ASSUME BoundsAssumption == MaxId \in Nat \ {0} /\ MaxVersion \in Nat \ {0}

VARIABLES
    claims,  \* ClaimLedger.claims: the claim under each key, or NoClaim
    nextId   \* the id the next Uuid::new_v4 yields

vars == <<claims, nextId>>

Ids == 1..MaxId

Present(k) == claims[k] # NoClaim

\* Mutant: the terminal check is missing.
LivePresent(k) == Present(k)

\* `live_mut` returns the claim only if it is present and not terminal.
Live(k) == Present(k) /\ ~IsTerminal(claims[k].status)

Init ==
    /\ claims = [k \in Key |-> NoClaim]
    /\ nextId = 1

-----------------------------------------------------------------------------
(* The calls. *)

AssertNew(k, value, confidence, author) ==
    /\ ~Present(k)
    /\ nextId <= MaxId
    /\ claims' = [claims EXCEPT ![k] = NewClaim(nextId, value, confidence, author)]
    /\ nextId' = nextId + 1

\* Mutant: assert overwrites a terminal claim too.
ReassertAny(k, value, confidence, author) ==
    /\ Present(k)
    /\ claims[k].version < MaxVersion
    /\ claims' = [claims EXCEPT ![k] = Reasserted(@, value, confidence, author)]
    /\ UNCHANGED nextId

Reassert(k, value, confidence, author) ==
    /\ Live(k)
    /\ claims[k].version < MaxVersion
    /\ claims' = [claims EXCEPT ![k] = Reasserted(@, value, confidence, author)]
    /\ UNCHANGED nextId

Assert(k, value, confidence, author) ==
    \/ AssertNew(k, value, confidence, author)
    \/ Reassert(k, value, confidence, author)

Support(k, agent) ==
    /\ Live(k)
    /\ claims' = [claims EXCEPT ![k] = Supported(@, agent)]
    /\ UNCHANGED nextId

Contest(k, agent, reason) ==
    /\ Live(k)
    /\ claims' = [claims EXCEPT ![k] = Contested(@, agent, reason)]
    /\ UNCHANGED nextId

Resolve(k, accepted, resolver) ==
    /\ Live(k)
    /\ claims' = [claims EXCEPT ![k] = Resolved(@, accepted, resolver)]
    /\ UNCHANGED nextId

\* The successor's id is the caller's: the ledger does not look it up.
Supersede(k, successor) ==
    /\ Live(k)
    /\ claims' = [claims EXCEPT ![k] = Superseded(@, successor)]
    /\ UNCHANGED nextId

\* `forget` removes whatever is there, terminal or not.
Forget(k) ==
    /\ Present(k)
    /\ claims' = [claims EXCEPT ![k] = NoClaim]
    /\ UNCHANGED nextId

\* ClaimError::Terminal, from every mutating call, and ClaimError::NotFound,
\* from every one but assert.
RefuseTerminal(k) == Present(k) /\ ~Live(k) /\ UNCHANGED vars
RefuseAbsent(k) == ~Present(k) /\ UNCHANGED vars

Next ==
    \E k \in Key :
        \/ \E value \in Values, confidence \in Confidences, author \in Agents :
              Assert(k, value, confidence, author)
        \/ \E agent \in Agents : Support(k, agent)
        \/ \E agent \in Agents, reason \in Reasons : Contest(k, agent, reason)
        \/ \E accepted \in BOOLEAN, resolver \in Agents :
              Resolve(k, accepted, resolver)
        \/ \E successor \in Ids : Supersede(k, successor)
        \/ Forget(k)
        \/ RefuseTerminal(k)
        \/ RefuseAbsent(k)

Spec == Init /\ [][Next]_vars

-----------------------------------------------------------------------------
(* The queries. *)

\* ClaimLedger::consensus, the values it can return: one or none.
Consensus(k) ==
    {value \in Values : /\ Present(k)
                        /\ IsAuthoritative(claims[k].status)
                        /\ claims[k].value = value}

\* Mutant: the tenant is not compared.
ConflictsOfAnyTenant(tenant, subject) ==
    {k \in Key : Present(k) /\ k.subject = subject /\ claims[k].status = "contested"}

\* ClaimLedger::conflicts: the keys of the contested claims about `subject`,
\* in every namespace of the tenant.
Conflicts(tenant, subject) ==
    {k \in Key : /\ Present(k)
                 /\ k.tenant = tenant
                 /\ k.subject = subject
                 /\ claims[k].status = "contested"}

-----------------------------------------------------------------------------
(* Properties. *)

TypeOK ==
    /\ claims \in [Key -> Claim \cup {NoClaim}]
    /\ nextId \in Nat \ {0}

\* An agent has at most one standing contest and one entry of support on a
\* claim, however often it repeats the call (claims.rs: the `any` test of
\* support, the `retain` of contest).
OneVotePerAgent == \A k \in Key : Present(k) => OneVote(claims[k])

\* The disputes that `conflicts` surfaces are exactly the live claims somebody
\* contests now, in every namespace and of no other tenant or subject: a
\* contest is never hidden by a later call, and no claim stays listed once its
\* value was replaced or it was decided.
DisputesAreSurfaced ==
    \A k \in Key, tenant \in Tenants, subject \in Subjects :
        k \in Conflicts(tenant, subject) <=>
            /\ k.tenant = tenant
            /\ k.subject = subject
            /\ Live(k)
            /\ HasContest(claims[k])

\* Every decided claim names who or what decided it, and no undecided claim
\* carries such a name: a verdict's attribution neither gets lost nor survives
\* from an earlier life of the key.
DecisionsAreAttributed == \A k \in Key : Present(k) => Attributed(claims[k])

\* A claim's content: what an assertion sets.
Content(c) == <<c.id, c.value, c.confidence, c.author>>

KeepsVerdicts ==
    \A k \in Key :
        Present(k) /\ IsTerminal(claims[k].status) => claims'[k] \in {claims[k], NoClaim}

\* A terminal claim never changes again while it is in the ledger: not its
\* verdict, not the value it is about, not its signals.  Only forget ends it.
TerminalIsFinal == [][KeepsVerdicts]_vars

NewContentNewVersion ==
    \A k \in Key :
        Present(k) /\ claims'[k] # NoClaim /\ claims'[k].id = claims[k].id =>
            /\ claims'[k].version >= claims[k].version
            /\ claims'[k].version = claims[k].version => Content(claims'[k]) = Content(claims[k])

\* Within one claim, a version names one content: content changes only with a
\* higher version, and a step that only signals keeps the version, so a reader
\* who saw (id, version) knows what was said.
VersionNamesContent == [][NewContentNewVersion]_vars

SameRevision(c, d) == c.id = d.id /\ c.version = d.version

NewRevisionNoSignals ==
    \A k \in Key :
        /\ claims'[k] # NoClaim
        /\ Present(k) => ~SameRevision(claims[k], claims'[k])
        => claims'[k].supporters = NoSupporters /\ ~HasContest(claims'[k])

\* Support and contests never outlive the content they were given for: a step
\* that leaves a key with another (id, version) leaves it without signals.
SignalsEndWithTheirValue == [][NewRevisionNoSignals]_vars

-----------------------------------------------------------------------------
(* Refinement. *)

\* What a caller may believe of a claim: nothing, an open value, or a verdict
\* on a value.  Confidence, authors and signals are left out.
Believed(c) ==
    IF c = NoClaim THEN NoClaim
    ELSE [phase |-> IF IsTerminal(c.status) THEN c.status ELSE "open",
          value |-> c.value]

Governance == INSTANCE ClaimGovernance
                  WITH belief <- [k \in Key |-> Believed(claims[k])],
                       Nothing <- NoClaim

\* No entry is no belief either.
ASSUME NoBeliefAssumption == NoClaim \notin Governance!Belief

\* The ledger keeps the promise of ClaimGovernance: a value becomes
\* authoritative only by a verdict on the very value that was open, never by an
\* assertion, by support or by a contest, and a verdict stands until forgotten.
GovernanceSpec == Governance!Spec
=============================================================================
