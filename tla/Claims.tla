------------------------------- MODULE Claims -------------------------------
(***************************************************************************)
(* A claim of the contestable ledger and what each call does to one claim: *)
(* src/domain.rs (ClaimStatus, Claim, ClaimContest) and the bodies of the   *)
(* methods of src/claims.rs.  Only data: the state machines that hold       *)
(* claims are ClaimLedger (the in-process ledger) and LedgerService (the    *)
(* ledger behind its HTTP handlers, mirrored in Postgres).                  *)
(***************************************************************************)
EXTENDS Naturals

CONSTANTS
    Tenants, Namespaces, Subjects, Predicates,  \* the parts of a claim's key
    Values,       \* a claim's value together with its evidence
    Confidences,  \* what a caller may send as confidence
    Agents,       \* authors, supporters, contesters and resolvers
    Reasons,      \* why a claim is contested
    Nobody,       \* resolved_by: None
    NoClaim       \* no entry under a key

ASSUME NobodyAssumption == Nobody \notin Agents

-----------------------------------------------------------------------------
(* Keys and records. *)

\* claims.rs, `type Key`: one claim per (tenant, namespace, subject, predicate).
Key == [tenant : Tenants, namespace : Namespaces,
        subject : Subjects, predicate : Predicates]

ClaimStatus == {"asserted", "contested", "accepted", "rejected", "superseded"}

IsTerminal(status) == status \in {"accepted", "rejected", "superseded"}

IsAuthoritative(status) == status = "accepted"

\* `supporters` and `contests` are vectors whose order nothing reads: they are
\* bags, the number of times each element occurs.  An id is a positive number
\* (Uuid::new_v4 never repeats one); 0 is superseded_by: None.  The ledger
\* never sets valid_until.
Claim ==
    [id : Nat \ {0}, value : Values, confidence : Confidences, author : Agents,
     status : ClaimStatus,
     supporters : [Agents -> Nat],
     contests : [Agents -> [Reasons -> Nat]],
     resolvedBy : Agents \cup {Nobody},
     supersededBy : Nat,
     version : Nat \ {0}]

ASSUME NoClaimAssumption == NoClaim \notin Claim

NoSupporters == [agent \in Agents |-> 0]
NoContests == [agent \in Agents |-> [reason \in Reasons |-> 0]]

HasContest(c) == \E agent \in Agents, reason \in Reasons :
                    c.contests[agent][reason] > 0

-----------------------------------------------------------------------------
(* What each call does to the claim it finds. *)

\* Mutant: the first version is 0.
NewClaimAtVersionZero(id, value, confidence, author) ==
    [id |-> id, value |-> value, confidence |-> confidence, author |-> author,
     status |-> "asserted", supporters |-> NoSupporters, contests |-> NoContests,
     resolvedBy |-> Nobody, supersededBy |-> 0, version |-> 0]

\* ClaimLedger::assert on a vacant key.
NewClaim(id, value, confidence, author) ==
    [id |-> id, value |-> value, confidence |-> confidence, author |-> author,
     status |-> "asserted", supporters |-> NoSupporters, contests |-> NoContests,
     resolvedBy |-> Nobody, supersededBy |-> 0, version |-> 1]

\* Mutant: the version is not raised.
ReassertedSameVersion(c, value, confidence, author) ==
    [c EXCEPT !.value = value, !.confidence = confidence, !.author = author,
              !.status = "asserted", !.supporters = NoSupporters,
              !.contests = NoContests]

\* Mutant: the supporters of the old value stay.
ReassertedKeepingSupport(c, value, confidence, author) ==
    [c EXCEPT !.value = value, !.confidence = confidence, !.author = author,
              !.status = "asserted", !.contests = NoContests, !.version = @ + 1]

\* ClaimLedger::assert on a live claim: new content, a new version, no signals.
Reasserted(c, value, confidence, author) ==
    [c EXCEPT !.value = value, !.confidence = confidence, !.author = author,
              !.status = "asserted", !.supporters = NoSupporters,
              !.contests = NoContests, !.version = @ + 1]

\* ClaimLedger::support: at most one entry per agent; the status stays.
Supported(c, agent) ==
    [c EXCEPT !.supporters[agent] = IF @ > 0 THEN @ ELSE @ + 1]

\* Mutant: `push` without `retain`.
ContestedByPush(c, agent, reason) ==
    [c EXCEPT !.contests[agent][reason] = @ + 1, !.status = "contested"]

\* ClaimLedger::contest: `retain` drops the agent's earlier contests, `push`
\* adds the new one.
Contested(c, agent, reason) ==
    LET retained == [c.contests EXCEPT ![agent] = NoContests[agent]]
    IN  [c EXCEPT !.contests = [retained EXCEPT ![agent][reason] = @ + 1],
                  !.status = "contested"]

\* Mutant: a rejection does not record its resolver.
ResolvedAnonymously(c, accepted, resolver) ==
    [c EXCEPT !.status = IF accepted THEN "accepted" ELSE "rejected",
              !.resolvedBy = IF accepted THEN resolver ELSE @]

\* ClaimLedger::resolve.
Resolved(c, accepted, resolver) ==
    [c EXCEPT !.status = IF accepted THEN "accepted" ELSE "rejected",
              !.resolvedBy = resolver]

\* ClaimLedger::supersede.
Superseded(c, successor) ==
    [c EXCEPT !.status = "superseded", !.supersededBy = successor]

-----------------------------------------------------------------------------
(* What a claim must be like, in the ledger and in the table. *)

OneVote(c) ==
    \A agent \in Agents :
        /\ c.supporters[agent] <= 1
        /\ \A r1, r2 \in Reasons :
              /\ c.contests[agent][r1] <= 1
              /\ r1 # r2 => c.contests[agent][r1] = 0 \/ c.contests[agent][r2] = 0

Attributed(c) ==
    /\ c.status \in {"accepted", "rejected"} <=> c.resolvedBy # Nobody
    /\ c.status = "superseded" <=> c.supersededBy # 0
=============================================================================
