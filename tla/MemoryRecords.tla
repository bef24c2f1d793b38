--------------------------- MODULE MemoryRecords ---------------------------
(***************************************************************************)
(* Memories in Postgres: create_memory of src/service.rs behind the         *)
(* middleware of src/auth.rs, and the library's insert_memory,              *)
(* upsert_embedding and semantic_candidates (src/postgres.rs).              *)
(*                                                                         *)
(* Requests share a pool of connections (src/db.rs).  Each begins a         *)
(* transaction, binds its tenant for that transaction, runs one statement   *)
(* under the row-level security of migrations/0002 and 0003, and commits.   *)
(* A request may be dropped at any await; its connection goes back only     *)
(* when the transaction it left has ended.                                  *)
(***************************************************************************)
EXTENDS Auth, Naturals, FiniteSets

CONSTANTS
    Handlers,       \* HTTP requests in flight at once
    Callers,        \* callers of the library: no route leads to its calls
    Conns,          \* the pool
    Models,         \* embedding models
    Limits,         \* the limits searches ask for
    Untils,         \* the ends of validity clients ask for
    Environments,   \* what the process may be started with
    SentHeaders,    \* what clients may send
    NoTenant,       \* an unset GUC
    NoWrite,        \* a transaction that has written nothing
    MaxMemories,    \* bound: memories ever created
    MaxTime         \* bound: the clock

Forever == 0    \* valid_until: NULL
Nobody == 0     \* superseded_by: NULL
Workers == Handlers \cup Callers
Time == 1..MaxTime
Ids == 1..MaxMemories   \* in the order they are made

\* valid_from, which no statement here reads, is left out.  `forgotten` and
\* `successor` are set by the operator's own SQL.
Row == [tenant : Tenants, until : Time \cup {Forever},
        successor : Ids \cup {Nobody}, forgotten : BOOLEAN]

Embedding == [memory : Ids, model : Models]

\* What a transaction has written.  `by` is history: the headers, or for an
\* embedding the tenant, it was written for.
NewRow == [id : Ids, row : Row, by : Headers]
NewEmbedding == [embedding : Embedding, by : Tenants]
Write == NewRow \cup NewEmbedding

ASSUME RecordsAssumption ==
    /\ NoTenant \notin Tenants /\ NoWrite \notin Write
    /\ Environments \subseteq Environment /\ SentHeaders \subseteq Headers
    /\ Limits \subseteq Nat
    /\ Untils \subseteq 0..MaxTime
    /\ MaxMemories \in Nat /\ MaxTime \in Nat \ {0}

VARIABLES
    env,        \* the process' environment
    clock,
    rows,       \* table memories: the committed rows
    embeddings, \* table memory_embeddings: the committed rows
    conns,      \* the pool
    reqs,
    made,       \* how many ids create_memory has made
    told        \* history: the memories that were answered with 201

vars == <<env, clock, rows, embeddings, conns, reqs, made, told>>

\* What the table says is remembered, as a store of memories without
\* connections and transactions.
Book == INSTANCE InMemoryStore WITH
    Times <- Time,
    memories <- [id \in {i \in DOMAIN rows : ~rows[i].forgotten} |->
                    [tenant |-> rows[id].tenant, from |-> 1,
                     until |-> rows[id].until, successor |-> rows[id].successor]]

\* A connection nobody uses is bound to no tenant.
Pooled == [state |-> "idle", bound |-> NoTenant, write |-> NoWrite]

Idle == [phase |-> "idle"]

Init ==
    /\ env \in Environments
    /\ clock = 1
    /\ rows = [id \in {} |-> {}] /\ embeddings = {}
    /\ conns = [c \in Conns |-> Pooled]
    /\ reqs = [w \in Workers |-> Idle]
    /\ made = 0 /\ told = {}

-----------------------------------------------------------------------------
(* The calls. *)

Waiting(call) == [phase |-> "waiting", call |-> call]

\* create_memory, behind require_internal_auth and resolve_tenant; what those
\* refuse changes nothing.
CreateMemory(w) ==
    /\ reqs[w] = Idle /\ made < MaxMemories
    /\ \E headers \in SentHeaders, tenant \in Tenants, until \in Untils :
          /\ Admitted(env, headers) /\ TenantAgrees(headers, tenant)
          /\ reqs' = [reqs EXCEPT ![w] = Waiting(
                [op |-> "create", tenant |-> tenant, write |->
                    [id |-> made + 1, by |-> headers,
                     row |-> [tenant |-> tenant, until |-> until,
                              successor |-> Nobody, forgotten |-> FALSE]]])]
    /\ made' = made + 1
    /\ UNCHANGED <<env, clock, rows, embeddings, conns, told>>

\* upsert_embedding, whatever memory the caller names.
UpsertEmbedding(w) ==
    /\ reqs[w] = Idle
    /\ \E tenant \in Tenants, id \in 1..made, model \in Models :
          reqs' = [reqs EXCEPT ![w] = Waiting(
                [op |-> "embed", tenant |-> tenant, write |->
                    [embedding |-> [memory |-> id, model |-> model], by |-> tenant]])]
    /\ UNCHANGED <<env, clock, rows, embeddings, conns, made, told>>

\* semantic_candidates.  `barred` is history: what must not be found any more.
SemanticCandidates(w) ==
    /\ reqs[w] = Idle
    /\ \E tenant \in Tenants, model \in Models, limit \in Limits :
          reqs' = [reqs EXCEPT ![w] = Waiting(
                [op |-> "search", tenant |-> tenant, write |-> NoWrite,
                 model |-> model, limit |-> limit,
                 barred |-> DOMAIN rows \ Book!LiveMemories(tenant, clock)])]
    /\ UNCHANGED <<env, clock, rows, embeddings, conns, made, told>>

-----------------------------------------------------------------------------
(* with_tenant. *)

\* The transaction's now() is when it begins.
Begin(w) ==
    \E c \in Conns :
        /\ reqs[w].phase = "waiting" /\ conns[c] = Pooled
        /\ conns' = [conns EXCEPT ![c].state = "leased"]
        /\ reqs' = [reqs EXCEPT ![w] =
              [phase |-> "begun", call |-> reqs[w].call, conn |-> c, start |-> clock, found |-> {}]]
        /\ UNCHANGED <<env, clock, rows, embeddings, made, told>>

BindTenant(w) ==
    /\ reqs[w].phase = "begun"
    /\ conns' = [conns EXCEPT ![reqs[w].conn].bound = reqs[w].call.tenant]
    /\ reqs' = [reqs EXCEPT ![w].phase = "bound"]
    /\ UNCHANGED <<env, clock, rows, embeddings, made, told>>

\* The policies, for a connection bound to a tenant.
PolicyAdmits(bound, call) ==
    CASE call.op = "create" -> call.write.row.tenant = bound
      [] call.op = "embed" -> LET id == call.write.embedding.memory IN
                              id \in DOMAIN rows /\ rows[id].tenant = bound
      [] call.op = "search" -> TRUE

\* Another transaction has written the embedding and has not ended.
WaitsFor(c, call) ==
    /\ call.op = "embed"
    /\ \E d \in Conns \ {c} :
          conns[d].write \in NewEmbedding /\ conns[d].write.embedding = call.write.embedding

\* Mutant: superseded memories are candidates.
UsableOrSuperseded(bound, call, start) ==
    {id \in DOMAIN rows :
        /\ rows[id].tenant = bound /\ rows[id].tenant = call.tenant
        /\ \E e \in embeddings : e.memory = id /\ e.model = call.model
        /\ ~rows[id].forgotten
        /\ rows[id].until = Forever \/ rows[id].until > start}

\* What the query's WHERE, under the policies, lets through.
Usable(bound, call, start) ==
    {id \in DOMAIN rows :
        /\ rows[id].tenant = bound /\ rows[id].tenant = call.tenant
        /\ \E e \in embeddings : e.memory = id /\ e.model = call.model
        /\ ~rows[id].forgotten
        /\ rows[id].successor = Nobody
        /\ rows[id].until = Forever \/ rows[id].until > start}

\* Which candidates are nearest is not modelled, and the index that orders them
\* is approximate and looked at before the filters: any may be missing.
Finds(bound, call, start, found) ==
    IF call.op = "search"
    THEN found \subseteq Usable(bound, call, start) /\ Cardinality(found) <= call.limit
    ELSE found = {}

Execute(w) ==
    LET call == reqs[w].call
        c == reqs[w].conn
    IN
    /\ reqs[w].phase = "bound"
    /\ PolicyAdmits(conns[c].bound, call) /\ ~WaitsFor(c, call)
    /\ conns' = [conns EXCEPT ![c].write = call.write]
    /\ \E found \in SUBSET Ids :
          /\ Finds(conns[c].bound, call, reqs[w].start, found)
          /\ reqs' = [reqs EXCEPT ![w].phase = "executed", ![w].found = found]
    /\ UNCHANGED <<env, clock, rows, embeddings, made, told>>

\* Mutant: an embedding rewrites the memory it belongs to.
RowsWithTouched(write) ==
    IF write \in NewRow
    THEN [i \in DOMAIN rows \cup {write.id} |-> IF i = write.id THEN write.row ELSE rows[i]]
    ELSE IF write \in NewEmbedding THEN [rows EXCEPT ![write.embedding.memory].successor = Nobody]
    ELSE rows

RowsWith(write) ==
    IF write \in NewRow
    THEN [i \in DOMAIN rows \cup {write.id} |-> IF i = write.id THEN write.row ELSE rows[i]]
    ELSE rows

EmbeddingsWith(write) ==
    embeddings \cup {e \in Embedding : write \in NewEmbedding /\ e = write.embedding}

Publish(write) ==
    /\ rows' = RowsWith(write)
    /\ embeddings' = EmbeddingsWith(write)

\* Mutant: the tenant is bound for the session.
ReleasedBound(conn) == [Pooled EXCEPT !.bound = conn.bound]

\* What a connection is when its transaction has ended: the binding is local to
\* that.
Released(conn) == Pooled

\* The memory a request created, when it is answered 201.
Created(w) == {id \in Ids : reqs[w].call.op = "create" /\ reqs[w].call.write.id = id}

Commit(w) ==
    LET c == reqs[w].conn IN
    /\ reqs[w].phase = "executed"
    /\ Publish(conns[c].write)
    /\ told' = told \cup Created(w)
    /\ conns' = [conns EXCEPT ![c] = Released(conns[c])]
    /\ reqs' = [reqs EXCEPT ![w] = Idle]
    /\ UNCHANGED <<env, clock, made>>

-----------------------------------------------------------------------------
(* What can go wrong. *)

\* No connection in 5 seconds, or the request's own timeout.
GiveUp(w) ==
    /\ reqs[w].phase = "waiting"
    /\ reqs' = [reqs EXCEPT ![w] = Idle]
    /\ UNCHANGED <<env, clock, rows, embeddings, conns, made, told>>

\* Mutant: the connection of a dropped transaction is never released.
AbandonedForEver(conn) == [conn EXCEPT !.write = NoWrite]

\* Nothing more is executed on it, so its binding is of no account.
Abandoned(conn) == [conn EXCEPT !.state = "abandoned", !.bound = NoTenant]

Leave(w) ==
    /\ reqs' = [reqs EXCEPT ![w] = Idle]
    /\ conns' = [conns EXCEPT ![reqs[w].conn] = Abandoned(@)]
    /\ UNCHANGED <<env, clock, rows, embeddings, made, told>>

\* Mutant: an error of the commit is ignored.
DropIgnoringCommit(w) ==
    /\ reqs[w].phase = "executed"
    /\ reqs' = [reqs EXCEPT ![w] = Idle]
    /\ conns' = [conns EXCEPT ![reqs[w].conn] = Abandoned(@)]
    /\ told' = told \cup Created(w)
    /\ UNCHANGED <<env, clock, rows, embeddings, made>>

\* The timeout, or a database error, at any await.
DropRequest(w) == reqs[w].phase \in {"begun", "bound", "executed"} /\ Leave(w)

\* The statement fails on a policy.
Refuse(w) ==
    /\ reqs[w].phase = "bound"
    /\ ~PolicyAdmits(conns[reqs[w].conn].bound, reqs[w].call)
    /\ Leave(w)

\* The transaction that nobody waits for is rolled back, unless its COMMIT was
\* on its way.
Settle(c) ==
    /\ conns[c].state = "abandoned"
    /\ \/ Publish(conns[c].write)
       \/ UNCHANGED <<rows, embeddings>>
    /\ conns' = [conns EXCEPT ![c] = Released(conns[c])]
    /\ UNCHANGED <<env, clock, reqs, made, told>>

Tick ==
    /\ clock < MaxTime
    /\ clock' = clock + 1
    /\ UNCHANGED <<env, rows, embeddings, conns, reqs, made, told>>

\* Whoever curates the memories does so in the database, which asks of a
\* successor only that it is a memory.
Curate ==
    /\ \E id \in DOMAIN rows :
          /\ ~rows[id].forgotten
          /\ \/ rows' = [rows EXCEPT ![id].forgotten = TRUE]
             \/ \E new \in DOMAIN rows : rows' = [rows EXCEPT ![id].successor = new]
    /\ UNCHANGED <<env, clock, embeddings, conns, reqs, made, told>>

Advance(w) == Begin(w) \/ BindTenant(w) \/ Execute(w) \/ Refuse(w) \/ Commit(w)

Next ==
    \/ \E w \in Handlers : CreateMemory(w)
    \/ \E w \in Callers : UpsertEmbedding(w) \/ SemanticCandidates(w)
    \/ \E w \in Workers : Advance(w) \/ GiveUp(w) \/ DropRequest(w)
    \/ \E c \in Conns : Settle(c)
    \/ Tick
    \/ Curate

Spec == Init /\ [][Next]_vars

\* The pool serves in turn, Postgres grants locks in turn, and an abandoned
\* transaction ends.  No timeout is needed for progress.
FairSpec ==
    /\ Spec
    /\ \A w \in Workers : SF_vars(Advance(w))
    /\ \A c \in Conns : WF_vars(Settle(c))

-----------------------------------------------------------------------------
(* Properties. *)

Call ==
    [op : {"create"}, tenant : Tenants, write : NewRow]
      \cup [op : {"embed"}, tenant : Tenants, write : NewEmbedding]
      \cup [op : {"search"}, tenant : Tenants, write : {NoWrite},
            model : Models, limit : Limits, barred : SUBSET Ids]

Connection ==
    [state : {"idle", "leased", "abandoned"}, bound : Tenants \cup {NoTenant},
     write : Write \cup {NoWrite}]

Unserved == [phase : {"waiting"}, call : Call]

Served == [phase : {"begun", "bound", "executed"}, call : Call, conn : Conns,
           start : Time, found : SUBSET Ids]

\* In particular a connection in the pool is bound to no tenant.
TypeOK ==
    /\ env \in Environments /\ clock \in Time /\ made \in 0..MaxMemories
    /\ DOMAIN rows \subseteq 1..made /\ \A id \in DOMAIN rows : rows[id] \in Row
    /\ embeddings \subseteq Embedding
    /\ conns \in [Conns -> Connection]
    /\ \A c \in Conns : conns[c].state = "idle" => conns[c] = Pooled
    /\ reqs \in [Workers -> Unserved \cup Served \cup {Idle}]
    /\ told \subseteq Ids

\* Who proves to be an internal service acts for the tenant its header names;
\* where the operator opted out of that, and has no secret, anybody acts for
\* whom they say, but not for two.
MayActFor(headers, tenant) ==
    \/ env.secret \in Secrets /\ headers.auth = env.secret /\ headers.org = tenant
    \/ env.secret \notin Secrets /\ env.insecure /\ headers.org \in {tenant, None}

\* No row comes to be without authority, however requests overlap, time out, and
\* share connections: a new memory was sent by someone who may act for its
\* tenant, and an embedding is of a memory of the tenant it was stored for.
RowsHaveAuthority ==
    [][/\ \A id \in DOMAIN rows' \ DOMAIN rows : \E c \in Conns :
             /\ conns[c].write \in NewRow /\ conns[c].write.id = id
             /\ MayActFor(conns[c].write.by, rows'[id].tenant)
       /\ \A e \in embeddings' \ embeddings : \E c \in Conns :
             /\ conns[c].write \in NewEmbedding /\ conns[c].write.embedding = e
             /\ e.memory \in DOMAIN rows /\ conns[c].write.by = rows[e.memory].tenant
      ]_<<rows, embeddings>>

\* A candidate is a live memory of the tenant (InMemoryStore's LiveMemories is
\* the reference), embedded with the model: none that was superseded, forgotten
\* or expired before the call.
CandidatesWereLive ==
    \A w \in Workers :
        reqs[w].phase = "executed" /\ reqs[w].call.op = "search" =>
            \A id \in reqs[w].found :
                /\ id \notin reqs[w].call.barred
                /\ rows[id].tenant = reqs[w].call.tenant
                /\ \E e \in embeddings : e.memory = id /\ e.model = reqs[w].call.model

\* A memory whose creation was answered is in the table, and stays there.
AnswersAreTrue == told \subseteq DOMAIN rows

\* The table is a store of memories whose inserts are fresh: an insert happens at
\* once, under a new id, or not at all, and neither an embedding nor a transaction left behind
\* changes, revives or removes a memory.
BookSpec == Book!FreshSpec

\* Every call ends: the pool has a connection again, whatever requests left
\* behind, and no transaction waits for an embedding for ever.
EveryCallEnds == \A w \in Workers : reqs[w] # Idle ~> reqs[w] = Idle
=============================================================================
