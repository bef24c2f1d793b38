# fiducia-memory in TLA+

A formal model of the fiducia-memory service: the contestable claim ledger and
its Postgres mirror, the durable fact store, the recall fusion and the fused
recall, the memory records behind the internal authentication, and the schema
migrations. The modules are translated from the sources named in
`PROJECT.json` ("map"); TLC checks them on small instances, and TLAPS proves
their safety properties for every value of the constants.

## The system

| component | state | operations | what is hard |
|---|---|---|---|
| claim ledger (`src/claims.rs`) | map from (tenant, namespace, subject, predicate) to one claim | assert, support, contest, resolve, supersede, forget; get, consensus, conflicts | sequences of calls: no verdict may be reopened, no signal may outlive its value |
| ledger handlers (`src/service.rs`) and mirror (`src/postgres.rs`, table `claims`) | the ledger behind a mutex; a row per key | one HTTP call each for assert, support, contest, resolve; durable read | ledger and table change in two steps; overlap, errors, timeouts, restarts |
| durable fact store (`src/durable/`, table `memory_claims`) | append-only facts with validity windows | append, supersede, recall | concurrent transactions, the partial unique index, deadlocks, commits that outlive their request |
| recall fusion (`src/recall.rs`) | none | filter, score, deduplicate, rerank, pack | order of the stages, ties, the budget |
| migrations (`src/db.rs`) | migration table, the schema | apply_schema at every boot | several processes and builds, crashes, what sqlx had left |
| fused recall (`src/fusion.rs`, `src/service.rs`) | none | facts to candidates, then fusion | two clocks, writers in between, a LIMIT before the filters |
| authentication (`src/auth.rs`) | configuration | middleware, tenant check | fail-closed in every combination |
| memory records (`src/memory.rs`, `src/postgres.rs`, tables `memories`, `memory_embeddings`) | memories, embeddings; a connection pool | insert, get, live, supersede, forget; create_memory, upsert_embedding, semantic_candidates | a tenant bound to a shared connection, requests dropped inside a transaction, an exhausted pool |

The handlers share the ledger by one mutex that is never held across an
`await`; each claim handler clones the claim it changed and writes the clone to
Postgres afterwards. The fact store shares nothing with the ledger: its only
state is the database. Fused recall feeds the fact store's recall to the
fusion. Every route but the probes is behind the authentication middleware, and
every handler compares the tenant of the body with the one the middleware has
found. All transactions run on the connections of one pool, and bind their
tenant for the row-level policies. Every process runs the migrations before it
serves.

What makes each component correct, and is stated as properties:

- ledger: one vote per agent, attributed verdicts, terminal claims final,
  versions that name contents, signals that end with their value, disputes
  surfaced completely, authority only by a verdict on the open value;
- mirror: it never invents a version, signal or verdict, its rows are those of
  one claim, an answered verdict stays, it catches up;
- facts: one active copy of a content, lineages that are chains, a recall that
  sees neither both nor none of a fact and its replacement, closing and
  replacing in one step, no transaction stuck;
- fusion: the pack is what the candidates determine as a set, within its
  budget, with no influence of ranking on admission;
- fused recall: no answer is older than its request, and no fact is lost
  between the database and the fusion without a reason;
- memories: no row without authority, in whatever environment, a table that is
  a store of memories in spite of dropped requests, answers that are true,
  candidates that were live, a pool that recovers;
- migrations: the schema is one build's, the records are true, a process
  serves on its own schema, every boot ends.

`PROJECT.json` ("hazards") lists, at their lines, what can go wrong.

## The modules

**Claims** is the data: keys, the claim record, and what each call does to the
claim it finds (`Reasserted`, `Contested`, ...). Supporters and contests are
bags, since nothing reads their order and a bug could push one twice. Ids are
numbers in order of creation. `evidence` (replaced with the value, read by
nobody) and `valid_until` (never set by the ledger) are left out.

**ClaimLedger** is `ClaimLedger` of claims.rs: `claims` is its map, `nextId`
stands for `Uuid::new_v4`. One action per call; `Live` is `live_mut`'s test;
`RefuseTerminal` and `RefuseAbsent` are the error returns, which change nothing.
`Consensus` and `Conflicts` are the queries.

**ClaimGovernance** says what a caller may rely on: of a key nothing, an open
value or a verdict; a verdict is about the value that was open and stands until
it is forgotten. ClaimLedger implements it (`GovernanceSpec`), mapping a claim to its
value and whether it is open.

**LedgerService** puts ClaimLedger behind the handlers. A request (`Workers`
of them at once) is `idle`; after the locked block, `mirroring`, with its
clone in `call`; `executed` once its upsert has run in an open transaction and
holds the row's lock; `abandoned` when nobody waits for that transaction any
more. `Upserted` is the upsert, column by column: an update sets every column
but the id and the author. A transaction that has not executed is rolled back
when its request ends; one that has may commit or not (`Settle`). `Crash`
empties the ledger and keeps the table. `writtenIn` and `answered` are history
variables for the properties. The HTTP interface has no route for the ledger's
supersede and forget, so neither is here.

**FactStore** is `src/durable`. A request is one READ COMMITTED transaction:
`start` is its now(); it closes a fact and inserts (supersede), inserts
(append) or queries (recall). Nothing of it is visible before `Publish`.
`WaitsFor` are Postgres' waits: an UPDATE for another closer of the row, an
INSERT for another transaction that inserted the same (tenant, digest) or closed
the fact that has it. `CloseFails` and `InsertFails` are the 404 and the
constraint violations. A digest is modelled by the content it is taken
of, and what is stored is `Trimmed` of it, as insert_claim does.
**FactLedger** is its abstract specification, without transactions.

**Recall** is recall_with_policy: `Rank` filters, scores, sorts and
deduplicates; `Take` and `Skip` are the two outcomes of a round of the
loop. The sorted order decides which copy of a content stays (`Sorted`,
`FirstOfContent`). After that nothing depends on it, since the loop searches all
that is left and ids break every tie: `pool` is a set. Signals, weights and
penalties are in hundredths and scores are compared as fractions; times are
days, and the freshness of an age is rounded down to hundredths. So f32
rounding, the sanitizing of non-finite inputs and the wording of reasons are
left out. Candidates have signals in 0..100 and numbers for times and tokens
(`CandidatesAssumption`), and each has its own id.

**FusedRecall** extends FactStore with one fused recall and instantiates Recall
for its last part. `Ask` begins the transaction (its now() is `start`),
`Search` runs recall.sql with its order and LIMIT, `ReadClock` is the handler's
Utc::now() (`clock + ahead`), then Recall's own actions pack. Between any two
of them others append, supersede and time passes. `Candidate` is
candidate_from_hit, clamps and defaults included. How Postgres scores a content
for the request is given by `Facets`. The handler has no permissions
to check here, since facts carry none.

**Auth** is the decision of auth.rs: `SecretOf` is from_env, `Admitted` the
middleware, `TenantAgrees` resolve_tenant. A header that is no UUID counts as
none, and the constant-time comparison is equality.

**InMemoryStore** is `InMemoryStore` of memory.rs, a call per action, without
namespaces, which only select among a tenant's memories. `Insert` replaces
whatever lies under its id, as HashMap::insert does; the other calls filter on the
tenant (`Owned`). `Spec` has any callers. `FreshSpec` has callers that insert only
under an id nothing lies under (create_memory takes it from Uuid::new_v4,
service.rs:252); it is the abstract specification of the next module. **Trust** is trust_from and base_trust, in
hundredths.

**MemoryRecords** is create_memory (behind Auth), upsert_embedding and
semantic_candidates. A request is `waiting` for a connection, then its
transaction has `begun`, is `bound` to its tenant, has `executed` its statement
under `PolicyAdmits`, and commits; the commit is the only step that makes a
write visible. `DropRequest` is the timeout or a database error at any await:
the connection is `abandoned` until `Settle` ends its transaction, one way or
the other. The policies of migrations 0002 and 0003 test `bound`, the binding of
the connection, and not the request's tenant: that the two agree is something to
prove. upsert_embedding and semantic_candidates are library calls no route
reaches; `Callers` stands for whoever uses them. No statement of the service
sets forgotten_at or superseded_by: `Curate` is the SQL of an operator. The
approximate index may lose any candidate (`Finds`).
With `Book`, an instance of InMemoryStore, the table is shown to be a store of
memories under fresh ids (`BookSpec` is its `FreshSpec`): a second row under one
id is refused by the primary key, and create_memory never asks for one.

**Migrations** is apply_schema: `Lock` is the advisory lock, `Import` the
adoption of the sqlx rows, `SkipRecorded`/`RunAndRecord` a migration of the
loop; what a transaction has run and recorded is its own until `Commit`. The
texts of migrations stand for their checksums. `applied` records
which SQL the schema has seen.

`MC*` modules give the constants of the runs. Definitions marked "Mutant" are
plausible bugs, kept to show that a property notices them; no specification
uses them.

## The runs

| run | question and bounds |
|---|---|
| ledger | 2 tenants' claims, 2 agents, 2 values, 2 versions, 2 lives between them: every sequence of calls. Keys interact only in conflicts, and there only through tenant and subject. |
| service | 2 requests, 2 values, 2 versions, one crash, one database error, timeouts, a confidence the table refuses. Two requests suffice for any wrong order of two writes; the crash gives two sessions; more of both are what LedgerServiceProofs is for. `oneAtATime` is chosen at the start: clients that wait for one answer about a key before they send the next request, and clients that do not. |
| service_reliable | No faults, no overlaps, 2 keys: the mirror catches up. |
| facts | 2 requests, 2 contents, 4 facts, 2 moments, no explicit windows: one can wait for the other or recall while it is open, and two supersedes can swap contents and deadlock. |
| fused | One fused recall, one writer, 2 facts, 2 contents that Postgres and the fusion order differently, windows that begin in the future or end, appends with a supersedes_claim_id, 2 tenants, 2 moments, clocks that differ by one either way; a LIMIT of 1 and one that does not bind, a budget that binds and one that does not. Two facts are the fewest that can compete, and a writer can replace one at every point of the recall. |
| recall | Every order of every choice of at most 4 of 9 candidates, 7 queries, so every filter and tie occurs; one of the queries has penalties of 0. Every recall ends. |
| migrations | 2 processes, 3 builds (one of them with a changed migration), 4 sqlx histories, each with or without a failed row. Boots exclude each other by the lock, so two processes, each of which may die and boot again as another build, show every order of boots. |
| memories | 4 environments (a secret with and without the opt-out, an empty one with it, nothing), 5 headers, 2 tenants, one HTTP request and one library caller at a time over 2 connections, one memory that ends or not, 2 moments. Requests follow one another, so all connections can be left with abandoned transactions while new requests wait, and an embedding can wait for an abandoned one. Interleavings of more requests and memories, about safety, are what RecordsProofs is for. |

The bounds are in the constants `Max*` and in the guards that name them.

### Where the code and its documentation differ

Four statements of a document or comment do not hold, each shown by a run of
its own:

- service_overlap: with two overlapping requests the row can stay behind the
  ledger with nothing in flight and no crash (ARCHITECTURE.md:378-379 names
  only a crash). `MirrorAgreesWhenQuiet` holds in service_reliable.
- service_lost_upsert: one failed upsert of a verdict can never be repaired,
  since the retry is refused.
- facts_untrimmed: the digest is of the untrimmed content.
- facts_backdated: an explicit valid_from admits a recall that sees a fact with
  its replacement.

More that the models show, which have no run:

- after a restart an assertion overwrites a decided row (`Crash`, then
  `AssertNew`): ARCHITECTURE.md:374-376 says that the ledger is not rehydrated,
  docs/claim-governance-contract.md:58-60 that a terminal claim is never
  silently reopened;
- an update does not write the author (`Upserted`, postgres.rs:172-176): a
  re-assertion by another agent leaves the first one in the row, where
  ARCHITECTURE.md:324 says that the full row is mirrored;
- a fact with a future valid_until is outside the partial index
  (0001_memory.sql:15) and can be live beside an open copy, where
  ARCHITECTURE.md:95-96 says "at most one live copy". `AtMostOneActive` is
  therefore about the open ones;
- assert_claim takes any confidence (service.rs:383), and the CHECK of the table
  (sql/fiducia_memory.sql:95) refuses one outside [0,1]: `Reject` answers with
  an error, the claim is in the ledger, can be accepted and is never mirrored;
- semantic_candidates (postgres.rs:140-141) has no test of valid_from, where
  domain.rs:89 says that only live memories are eligible for recall, and is_live
  tests it. create_memory sets valid_from to the moment, so only a
  library caller's insert_memory can store a later one;
- upsert_embedding (postgres.rs:115) names no tenant in its statement, where
  memory.rs:29-33 has the policies as a second layer below code that filters:
  here they are the only one. `PolicyAdmits` is what `RowsHaveAuthority` rests on;
- InMemoryStore::insert (memory.rs:67-70) replaces whatever lies under the id,
  another tenant's memory included, where memory.rs:29-30 says that tenancy is
  enforced by filtering every query. The service keeps its memories in the
  table and makes ids with Uuid::new_v4, so only a library caller that chooses an
  id in use can meet it; MemoryProofs has the exact statements;
- insert_memory writes no superseded_by (postgres.rs:76): a superseded memory
  given to it is stored as live.

## Fairness

- `ProgressSpec` (service): weak fairness of Commit and Settle - a transaction
  that holds the lock ends; strong fairness of Execute and Reject, since another
  request may take the row in between and Postgres grants it in turn.
- `FairSpec` (facts, migrations): strong fairness of a process' own next step;
  locks are queued, so a waiter that is free again and again gets on. No timeout
  is assumed in any of them: deadlocks end by the detector alone. Clients'
  calls, crashes and timeouts are never fair.

- `FairSpec` (memories): strong fairness of a request's own next step - the
  pool serves waiters in turn and Postgres its lock queue, so a request that can
  go on again and again does; weak fairness of `Settle` - an abandoned
  transaction is rolled back, or its COMMIT arrives. Timeouts are not assumed,
  so `EveryCallEnds` says that the pool recovers by itself.
- `FairSpec` (recall): weak fairness of the loop, a function that is not
  suspended.

## The proofs

Every safety property that a passing run checks is a theorem of its
specification.
`PROJECT.json` ("theorems") names them. They rest on the assumptions in the
modules, which TLC evaluates in every run: special values (`Nobody`, `NoClaim`,
`NoRow`, `Unrecorded`) are none of the things they stand beside, bounds are
numbers, there is a key to make claims about, finitely many requests share the
fact store, a fact may always be appended without a window, the signals of a
candidate are in hundredths, its other numbers are naturals, and some weight is
not 0. Four theorems
about facts and one about the mirror have a hypothesis of their own, named below.

**ClaimProofs** holds the lemmas that the ledger and the mirror share: what
`NewClaim`, `Reasserted`, `Supported`, `Contested`, `Resolved` and `Superseded`
preserve of one claim. `Sound` is one vote per agent, attribution, and
"contested exactly when live and somebody contests".

**ClaimLedgerProofs** proves of ClaimLedger, for all tenants, agents, values,
reasons and bounds, every property that the run `ledger` checks. The inductive
invariant `IInv` is type correctness and `Sound` for every present claim. No part
of `Sound` is inductive without the types; the third is what makes
`DisputesAreSurfaced` hold, since `Conflicts` looks only at the status while the
property is about contests. The step lemma has one case per action. The action
properties (`TerminalIsFinal`, `VersionNamesContent`, `SignalsEndWithTheirValue`)
and the refinement `GovernanceSpec` follow step by step from `IInv`.

**LedgerServiceProofs** proves all the safety properties of the runs `service`
and `service_reliable`, for any number of requests, keys, crashes and errors. A
claim exists in several copies on its way to the table: in the ledger, in
requests, in transactions nobody waits for, in its row. The properties are about
the first and the last, and say nothing of those between, so none is inductive.
`IInv` orders the copies. `Later` is "made of it by calls of the same
session", under the same version with every signal (`SignalsStand`); `Ahead` is
"its upsert takes the row forward". No copy is newer than the ledger of its
session (`LedgerIsLatest`). This is why a row, whatever overlaps or fails, is at
worst behind and makes nothing up (`MirrorMakesNothingUp`): what the mirror may
lose when clients do not wait are signals and verdicts, for the last
of the overlapping upserts to commit wins; what it may not show are a version,
a value, a supporter, a dispute or a verdict that the ledger does not have. Requests end
with their session while transactions may outlive it, but these hold their row
(`RowsAreLocked`), so a later session writes after them (`SessionsAreOrdered`, for
`SessionsWriteInOrder`). Clients that wait have one request about a key, ahead of
the row and of every claim an abandoned transaction still holds (`OneByOne`); from
this follow `MirrorNeverRegresses` and, with `AnswersAreKept`, which says in which
session and row an answered verdict lies, `AnsweredVerdictsAreDurable`.
`StepKinds` reduces the actions to five kinds of steps by what they do to the
copies, and each kind has its lemma. `MirrorAgrees` has the hypothesis
`NothingFails` - waiting clients, no timeouts, crashes, errors or refused
confidences - which is what service_reliable sets and service_overlap lacks; its
invariant is `Quiet`.

**FactStoreProofs** proves that FactStore implements FactLedger
(`LedgerSpec`), without a hypothesis, and the properties of the run `facts`. The
facts change only in `Publish`, and by then the conditions were tested in
earlier steps. `IInv` says what makes the test last: a fact that a transaction has
closed stays active and closed by nobody else until it ends (`RowLocks`), and
what it has inserted meets no row and no other insert of its key (`NoTwinWaits`),
which is what the waits of `WaitsFor` see to. `SupersededIsClosed` ties the
end of a fact to the beginning of its replacement. The hypotheses are what the
code leaves to its clients, and `facts` satisfies them: `Untrimmed`, no two
contents are equal once trimmed, for `AtMostOneActive` (facts_untrimmed shows
why); no append carries a supersedes_claim_id, for `LineagesAreChains`; this and
`NowWindows`, no client chooses a valid_from, for `NoRecallSeesBoth` and
`NoRecallSeesNeither` (facts_backdated shows why).

The same module proves the run `fused`: it extends FusedRecall, which extends
FactStore, and needs the same invariant. A recall leaves the store alone, so
FactStore's theorems hold beside it (`FusedIsStore`, and from it `LedgerSpec`
once more). Facts stay as they are but for the end of an open one (`FactsKeep`).
Hence what `AnswersAreCurrent` and `NothingIsLost` say at the end of a recall
can be said at each of its steps (`FusedIInv`): whatever the query could still
find of the facts stored when the request began was live then (`Asking`); what it
found is current, and each fact that is still live by its own clock is among the
candidates as it is or still open, or was cut off by LIMIT (`Finding`); and until
something is dropped for its tokens, every content the filters admit is in the
pool or the pack (`Fusing`). No hypothesis is needed about windows, links, clocks
or scores.

**MigrationsProofs** proves `SchemaIsOneBuild`, `RecordsAreTrue` and
`ServesOnItsSchema`, for any builds and histories and any number of processes
that boot, race and die. Only the lock's holder changes anything (`OneHolder`),
so its invariant, `MigratesWell`, may relate its open transaction to the
committed tables: what it sees as recorded is what the schema would have seen if
it committed now; what it has passed is recorded as its build has it; it knows all
of its build that the schema has seen; and it has run something only at the end
of the schema. The last two are what keeps a holder from running a migration below one
that another build has applied.

**MemoryProofs** proves of InMemoryStore as it is (`Spec`) that it is well-typed,
and that an insert under an id in use is the only call that shows in what
another tenant gets (`OnlyOverwritesCross`) or makes a superseded memory's id live
again (`OnlyOverwritesRevive`). It does do the first: the other tenant's memory is
gone (`OverwriteTakesAway`), so the code-level filter alone does not isolate
tenants whose callers choose ids. With the hypothesis that every insert is under an
id nothing lies under (`FreshSpec`), tenants are isolated (`TenantsAreIsolated`)
and supersession is final (`SupersededIsOver`). Both theorems on supersession need
that no id is `Nobody`. No run instantiates InMemoryStore's `Spec`: it is
proved about, and TLC checks `FreshSpec` through `BookSpec`.

**RecordsProofs** proves the safety properties of the run `memories`
(`TypeOK`, `AnswersAreTrue`, `RowsHaveAuthority`, `CandidatesWereLive` and
`BookSpec`), for any pool, any number of requests, memories and tenants, and any environment and headers.
The properties are about what is committed, and the authority was tested when
the call began; between the two lie the lease, the binding, the statement and
perhaps an abandoned transaction. The invariant `IInv` follows the write on
its way: what a call carries is lawful (`CallSound`, from `AdmittedMayAct`); a
connection leased by a request is bound to that request's tenant or not yet
bound, and its write is that request's (`LeaseSound`); no two requests
lease one connection; a pending write on any connection, abandoned ones
included, is lawful (`WriteSound`); and an id is carried by one place only,
a call, a connection or the table (`IdsAreNew`). The last is what makes the
insert of `BookSpec` an insert, and it needs all places: an abandoned commit
may happen long after its request. The policy turns "the connection is bound to
the call's tenant" into "the embedding's memory is of that tenant". For `CandidatesWereLive` the
invariant also says that what is barred when a search is called is still excluded when
its statement runs (`SearchSound`): no statement revives, removes or re-assigns
a memory (`TablesLast`), and the search's own time is later than its call.

**RecallProofs** proves of Recall that the pack is the one ranking the candidates
determine as a set, that its accounts are true and that ranking has no
authority, for any candidates, weights, penalties and budgets. `Eligible` is
defined without any order; that sorting and deduplicating yield just
that set is `RankedAreEligible`. From then on an eligible memory is in one of
three places: the pool, the pack, or `Dropped`. Of the dropped the invariant says
that none would fit (`DroppedForGood`); this lasts because the total only grows, and
it is why the best of the pool that fits is the best of all that fit
(`OpenIsInPool`), as `BestFirst` records for each place of the pack. `total`
must be the sum of the pack's tokens for that (`Budget`). The sum is a fold over a
set, and its three lemmas (`TokensInRest`, `TokensInAdd`, `TokensInMonotone`) are
shown without induction: a set for which one failed would have a smallest
subset for which it fails.

What `PackIsTheRanking` says of a pack leaves the loop no choice: a request and a set
of candidates have one ranking (`OneRanking`), since of two memories one is
worth more (`WorthIsTotal`, ids break every tie) and two rankings would differ at a first
place, after the same beginning. So a finished pack is the only ranking there is
(`PackIsTheOnlyRanking`), and two recalls of one request over the same
candidates, in whatever orders these came, answer the same pack, total and flag
(`OrderOfCandidatesIsNoMatter`, whose primed variables are the second recall's).

**MemoryProofs** also proves of Trust that trust_from is bounded, monotone in both
of its signals, and that support alone never lifts an observation to what was
decided.

Only model-checked is liveness (`AcceptedBecomesDurable`,
`EveryTransactionEnds`, `EveryCallEnds`, `EveryBootEnds`, `EveryRecallEnds`):
TLAPS reasons about neither ENABLED nor fairness here.

## Not modelled

- authentication in front of the other handlers: they call the same two
  functions in the same order as create_memory, so their models begin where both
  have let a request pass; the probes are public and read nothing;
- the policies of the tables claims and memory_claims: the modelled statements
  name the tenant themselves. The policies bind the pool's role only if it is
  neither a superuser nor has BYPASSRLS: that is an assumption of
  MemoryRecords. The tables memory_edges and memory_recall_log are used by no
  code;
- scores of Postgres' text and vector search, and the order of
  semantic_candidates;
- the process' clock in MemoryRecords: valid_from, which it sets, is read by no
  statement there; a trust outside [0,1] cannot reach the table's CHECK;
- the TLS policy of the connection (`secure_pg_connect_options`), a test of a URL;
- a verdict that falls on a value re-asserted since its author read it: the
  calls name no version, so there is nothing in the ledger to check it against;
- a poisoned mutex: nothing panics while it is held; overflow of version
  numbers (u64, and i64 in the table): out of reach of any run;
- embeddings' validation and text form (`src/vector.rs`), telemetry, configuration, build and lint tooling.

## Plan

1. (done) Claims, ClaimLedger, ClaimGovernance with proofs; LedgerService;
   FactStore with FactLedger; Recall; Migrations.
2. (done) Auth, InMemoryStore, MemoryRecords and Trust with their proofs;
   FusedRecall; the end of every recall.
3. (done) Proofs of Migrations, FactStore, LedgerService, Recall and FusedRecall,
   and of `CandidatesWereLive`.
4. (done) Theorems beyond the runs' properties: one ranking for each request and set of
   candidates, and two recalls that agree; and `MirrorMakesNothingUp`, what the
   mirror may not lose when clients do not wait.
