--------------------------- MODULE LedgerService ---------------------------
(***************************************************************************)
(* The claim ledger behind its HTTP handlers (src/service.rs) and its       *)
(* mirror in the Postgres table `claims` (src/postgres.rs, upsert_claim).   *)
(*                                                                         *)
(* A handler changes the ledger under its mutex, clones the changed claim,  *)
(* releases the mutex and only then writes the clone to Postgres in a       *)
(* transaction of its own.  So several requests can be between their ledger *)
(* step and their upsert; a request can lose its upsert to a database       *)
(* error, to the 10 s timeout or to a crash, after the ledger has changed;  *)
(* and a restarted process begins with an empty ledger over a full table.   *)
(***************************************************************************)
EXTENDS Claims

CONSTANTS
    Workers,           \* requests in flight at once, each with a connection
    ValidConfidences,  \* what the table's confidence CHECK lets through
    UuidAgents,        \* author names that parse as a uuid
    NoRow,             \* no row under a key
    TimeoutsHappen,    \* whether a request may exceed the timeout
    Habits,            \* what clients may be like: whether they wait for an answer
                       \* before they send the next request about the same key
    MaxId, MaxVersion, \* bounds of ClaimLedger
    MaxCrashes,        \* bound: process crashes
    MaxFaults          \* bound: database errors

ASSUME ServiceAssumption ==
    /\ Key # {}
    /\ ValidConfidences \subseteq Confidences
    /\ UuidAgents \subseteq Agents
    /\ TimeoutsHappen \in BOOLEAN
    /\ Habits \subseteq BOOLEAN
    /\ MaxCrashes \in Nat
    /\ MaxFaults \in Nat

VARIABLES
    claims, nextId,  \* the ledger, AppState.ledger
    oneAtATime, \* the clients' habit, which never changes
    pc,        \* where each request is
    call,      \* the key and the cloned claim of each request, and the session
               \* (the run of the process) that served it
    mirror,    \* the table: the row under each key, or NoRow
    session,   \* how often the process has started, from 0
    faults,    \* database errors so far
    writtenIn, \* history: the session whose upsert wrote each row
    answered   \* history: the verdicts answered with 200 in this session, per key

ledgerVars == <<claims, nextId>>
vars == <<claims, nextId, oneAtATime, pc, call, mirror, session, faults, writtenIn, answered>>

Ledger == INSTANCE ClaimLedger

-----------------------------------------------------------------------------
(* The table. *)

\* A row has a claim's columns; its author is a uuid or null.
Row ==
    [id : Nat \ {0}, value : Values, confidence : Confidences,
     author : UuidAgents \cup {Nobody},
     status : ClaimStatus,
     supporters : [Agents -> Nat],
     contests : [Agents -> [Reasons -> Nat]],
     resolvedBy : Agents \cup {Nobody},
     supersededBy : Nat,
     version : Nat \ {0}]

ASSUME NoRowAssumption == NoRow \notin Row

\* Mutant: an author that is not a uuid is stored.
UpsertedRawAuthor(row, c) ==
    IF row = NoRow THEN c ELSE [c EXCEPT !.id = row.id, !.author = row.author]

\* Mutant: the update forgets the contests.
UpsertedWithoutContests(row, c) ==
    IF row = NoRow
    THEN [c EXCEPT !.author = IF @ \in UuidAgents THEN @ ELSE Nobody]
    ELSE [c EXCEPT !.id = row.id, !.author = row.author, !.contests = row.contests]

\* Mutant: `on conflict do nothing`.
UpsertedOnce(row, c) ==
    IF row = NoRow
    THEN [c EXCEPT !.author = IF @ \in UuidAgents THEN @ ELSE Nobody]
    ELSE row

\* `insert ... on conflict (key) do update set ...`: an insert stores every
\* column, an update every column but id and author_agent_id.
Upserted(row, c) ==
    IF row = NoRow
    THEN [c EXCEPT !.author = IF @ \in UuidAgents THEN @ ELSE Nobody]
    ELSE [c EXCEPT !.id = row.id, !.author = row.author]

\* PostgresMemory::accepted_claim_value, the values it can return.
DurableConsensus(k) ==
    {value \in Values : /\ mirror[k] # NoRow
                        /\ mirror[k].status = "accepted"
                        /\ mirror[k].value = value}

\* Mutants: no lock; a lock that ends with the request.
NeverLocked(k) == FALSE
LockedWhileServed(k) == \E w \in Workers : pc[w] = "executed" /\ call[w].key = k

\* The upsert holds the row's lock from its execution to the transaction's end,
\* whether or not the request still waits for it.
Locked(k) == \E w \in Workers : pc[w] \in {"executed", "abandoned"} /\ call[w].key = k

-----------------------------------------------------------------------------
(* Requests. *)

NoCall == [key |-> CHOOSE k \in Key : TRUE, claim |-> NoClaim, session |-> 0]

Init ==
    /\ Ledger!Init
    /\ oneAtATime \in Habits
    /\ pc = [w \in Workers |-> "idle"]
    /\ call = [w \in Workers |-> NoCall]
    /\ mirror = [k \in Key |-> NoRow]
    /\ session = 0
    /\ faults = 0
    /\ writtenIn = [k \in Key |-> 0]
    /\ answered = [k \in Key |-> {}]

Ends(w) ==
    /\ pc' = [pc EXCEPT ![w] = "idle"]
    /\ call' = [call EXCEPT ![w] = NoCall]

\* A request that a client may send now.
MaySend(w, k) ==
    /\ pc[w] = "idle"
    /\ oneAtATime => \A v \in Workers :
                        pc[v] \in {"mirroring", "executed"} => call[v].key # k

\* The handler's locked block: one ledger call, and a clone of what it left.
Serve(w, k, LedgerCall) ==
    /\ MaySend(w, k)
    /\ LedgerCall
    /\ pc' = [pc EXCEPT ![w] = "mirroring"]
    /\ call' = [call EXCEPT ![w] = [key |-> k, claim |-> claims'[k], session |-> session]]
    /\ UNCHANGED <<oneAtATime, mirror, session, faults, writtenIn, answered>>

AssertClaim(w, k) ==
    \E value \in Values, confidence \in Confidences, author \in Agents :
        Serve(w, k, Ledger!Assert(k, value, confidence, author))

SupportClaim(w, k) == \E agent \in Agents : Serve(w, k, Ledger!Support(k, agent))

ContestClaim(w, k) ==
    \E agent \in Agents, reason \in Reasons : Serve(w, k, Ledger!Contest(k, agent, reason))

ResolveClaim(w, k) ==
    \E accepted \in BOOLEAN, resolver \in Agents :
        Serve(w, k, Ledger!Resolve(k, accepted, resolver))

\* 404 or 409: the handler returns before it touches Postgres.
Refuse(w, k) ==
    /\ MaySend(w, k)
    /\ Ledger!RefuseAbsent(k) \/ Ledger!RefuseTerminal(k)
    /\ UNCHANGED vars

\* The transaction's upsert runs; it waits while another holds the row.
Execute(w) ==
    /\ pc[w] = "mirroring"
    /\ call[w].claim.confidence \in ValidConfidences
    /\ ~Locked(call[w].key)
    /\ pc' = [pc EXCEPT ![w] = "executed"]
    /\ UNCHANGED <<oneAtATime, ledgerVars, call, mirror, session, faults, writtenIn, answered>>

\* The CHECK on confidence fails before the upsert looks for the row: 500.
Reject(w) ==
    /\ pc[w] = "mirroring"
    /\ call[w].claim.confidence \notin ValidConfidences
    /\ Ends(w)
    /\ UNCHANGED <<oneAtATime, ledgerVars, mirror, session, faults, writtenIn, answered>>

Write(w) ==
    LET k == call[w].key IN
    /\ mirror' = [mirror EXCEPT ![k] = Upserted(@, call[w].claim)]
    /\ writtenIn' = [writtenIn EXCEPT ![k] = call[w].session]

Verdict(c) == [status |-> c.status, value |-> c.value]

\* The transaction commits and the request is answered with the claim: 200.
Commit(w) ==
    LET k == call[w].key
        c == call[w].claim
    IN
    /\ pc[w] = "executed"
    /\ Write(w)
    /\ Ends(w)
    /\ answered' = [answered EXCEPT ![k] = IF IsTerminal(c.status) THEN @ \cup {Verdict(c)} ELSE @]
    /\ UNCHANGED <<oneAtATime, ledgerVars, session, faults>>

\* A request that stops waiting for its transaction: one that has not executed
\* its upsert is rolled back, one that has may yet commit.
Drop(w) ==
    \/ pc[w] = "executed" /\ pc' = [pc EXCEPT ![w] = "abandoned"] /\ UNCHANGED call
    \/ pc[w] = "mirroring" /\ Ends(w)

\* Postgres or the connection fails: 500, and the ledger keeps its change.
DbError(w) ==
    /\ faults < MaxFaults
    /\ faults' = faults + 1
    /\ Drop(w)
    /\ UNCHANGED <<oneAtATime, ledgerVars, mirror, session, writtenIn, answered>>

\* TimeoutLayer drops the handler's future: 408.
TimeOut(w) ==
    /\ TimeoutsHappen
    /\ Drop(w)
    /\ UNCHANGED <<oneAtATime, ledgerVars, mirror, session, faults, writtenIn, answered>>

\* Postgres ends a transaction nobody waits for: its COMMIT had arrived or not.
Settle(w) ==
    /\ pc[w] = "abandoned"
    /\ Write(w) \/ UNCHANGED <<mirror, writtenIn>>
    /\ Ends(w)
    /\ UNCHANGED <<oneAtATime, ledgerVars, session, faults, answered>>

\* The process dies and starts again: the ledger is empty, the table is not.
Crash ==
    /\ session < MaxCrashes
    /\ session' = session + 1
    /\ claims' = [k \in Key |-> NoClaim]
    /\ LET sent == {w \in Workers : pc[w] \in {"executed", "abandoned"}}
       IN  /\ pc' = [w \in Workers |-> IF w \in sent THEN "abandoned" ELSE "idle"]
           /\ call' = [w \in Workers |-> IF w \in sent THEN call[w] ELSE NoCall]
    /\ answered' = [k \in Key |-> {}]
    /\ UNCHANGED <<oneAtATime, nextId, mirror, faults, writtenIn>>

Next ==
    \/ \E w \in Workers :
          \/ \E k \in Key :
                \/ AssertClaim(w, k)
                \/ SupportClaim(w, k)
                \/ ContestClaim(w, k)
                \/ ResolveClaim(w, k)
                \/ Refuse(w, k)
          \/ Execute(w)
          \/ Reject(w)
          \/ Commit(w)
          \/ DbError(w)
          \/ TimeOut(w)
          \/ Settle(w)
    \/ Crash

Spec == Init /\ [][Next]_vars

\* No request waits for ever: Postgres grants a row's lock in turn, and a
\* transaction that holds it ends.
ProgressFairness ==
    \A w \in Workers : /\ SF_vars(Execute(w)) /\ SF_vars(Reject(w))
                       /\ WF_vars(Commit(w)) /\ WF_vars(Settle(w))

ProgressSpec == Spec /\ ProgressFairness

-----------------------------------------------------------------------------
(* Properties. *)

Call == [key : Key, claim : Claim \cup {NoClaim}, session : Nat]

TypeOK ==
    /\ Ledger!TypeOK
    /\ oneAtATime \in BOOLEAN
    /\ pc \in [Workers -> {"idle", "mirroring", "executed", "abandoned"}]
    /\ call \in [Workers -> Call]
    /\ \A w \in Workers : pc[w] # "idle" => call[w].claim \in Claim
    /\ mirror \in [Key -> Row \cup {NoRow}]
    /\ session \in Nat /\ faults \in Nat
    /\ writtenIn \in [Key -> Nat]
    /\ answered \in [Key -> SUBSET [status : ClaimStatus, value : Values]]

\* The row under k has every column an update sets as the ledger has it: all
\* but the row's own id and the author of its insert.
Mirrored(k) ==
    /\ mirror[k] # NoRow
    /\ \A column \in DOMAIN claims[k] \ {"id", "author"} : mirror[k][column] = claims[k][column]

\* d says what c said, and has every signal that c had: whoever supported it
\* does, and whoever contested it still does, for this reason or another.
SignalsStand(c, d) ==
    /\ d.value = c.value /\ d.confidence = c.confidence
    /\ \A agent \in Agents :
          /\ d.supporters[agent] >= c.supporters[agent]
          /\ \A reason \in Reasons : c.contests[agent][reason] > 0 =>
                \E other \in Reasons : d.contests[agent][other] > 0

\* The table may be behind the ledger of the session that wrote it, and makes
\* nothing up: it has no version the ledger has not reached, under the ledger's
\* version no other value and no signal that the ledger does not have, and no
\* verdict but the ledger's.  Overlapping requests, errors and timeouts can hide
\* signals and verdicts from the table (src/service.rs: its durable mirror), and
\* the durable read reports no acceptance that is not one.
MirrorMakesNothingUp ==
    \A k \in Key : mirror[k] # NoRow /\ writtenIn[k] = session =>
        /\ claims[k] # NoClaim
        /\ mirror[k].version <= claims[k].version
        /\ mirror[k].version = claims[k].version => SignalsStand(mirror[k], claims[k])
        /\ IsTerminal(mirror[k].status) => Mirrored(k)
        /\ DurableConsensus(k) \subseteq Ledger!Consensus(k)

\* Every row reads as one claim at one moment, never as the columns of two:
\* the dispute it shows is standing, its verdict is attributed and no agent is
\* counted twice, whichever requests, sessions and errors wrote it.
RowsAreCoherent ==
    \A k \in Key : mirror[k] # NoRow =>
        LET row == mirror[k] IN
        /\ OneVote(row)
        /\ Attributed(row)
        /\ row.confidence \in ValidConfidences
        /\ row.status = "contested" <=> ~IsTerminal(row.status) /\ HasContest(row)

\* Clients that wait for one answer about a key before they send the next
\* request about it find every verdict that was answered with 200 in the table,
\* for the rest of the session: a transaction abandoned by an earlier, failed
\* request never overwrites it.
AnsweredVerdictsAreDurable ==
    oneAtATime =>
        \A k \in Key : \A verdict \in answered[k] :
            mirror[k] # NoRow /\ Verdict(mirror[k]) = verdict

\* For such clients the rows of one session only move forward: no upsert brings
\* back an earlier version, and none follows a verdict.
ForwardOnly ==
    \A k \in Key : oneAtATime /\ mirror[k] # NoRow /\ writtenIn'[k] = writtenIn[k] =>
        /\ mirror'[k].version >= mirror[k].version
        /\ IsTerminal(mirror[k].status) => mirror'[k] = mirror[k]

MirrorNeverRegresses == [][ForwardOnly]_vars

\* A session never overwrites what a later one wrote: a transaction that
\* outlives its process ends before the new process can write the row.
SessionsWriteInOrder == [][\A k \in Key : writtenIn'[k] >= writtenIn[k]]_vars

\* When no request about a key is in flight, the table has caught up with the
\* ledger (ARCHITECTURE.md: only a mid-flight crash leaves it behind).
MirrorAgreesWhenQuiet ==
    \A k \in Key :
        claims[k] # NoClaim /\ (\A w \in Workers : pc[w] = "idle" \/ call[w].key # k)
        => Mirrored(k)

\* A value that has become authoritative becomes so durably (src/service.rs:
\* Postgres is the durable mirror).
AcceptedBecomesDurable ==
    \A k \in Key : \A value \in Values :
        value \in Ledger!Consensus(k) ~> value \in DurableConsensus(k)
=============================================================================
