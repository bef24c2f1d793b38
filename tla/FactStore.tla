----------------------------- MODULE FactStore -----------------------------
(***************************************************************************)
(* The durable fact store: src/durable (api.rs, model.rs, store.rs) over    *)
(* the Postgres table memory_claims (migrations/0001_memory.sql) and the    *)
(* query sql/recall.sql.                                                    *)
(*                                                                         *)
(* Each request is one READ COMMITTED transaction: now() is the time it     *)
(* began, a statement sees what was committed when the statement ran, an    *)
(* UPDATE waits for another transaction's lock on its row, and an INSERT    *)
(* waits for another transaction whose end decides whether the partial      *)
(* unique index is violated.  Waiting in a circle is broken by Postgres'    *)
(* deadlock detector.                                                       *)
(***************************************************************************)
EXTENDS Naturals, Sequences, FiniteSets

CONSTANTS
    Workers,        \* requests in flight at once
    Tenants,
    Contents,       \* contents a client may send; the digest of one is itself
    Trimmed,        \* the content that is stored for each content sent
    Windows,        \* validity windows clients ask for, <<from, until>>: none, at least
    LinkedAppends,  \* whether clients set supersedes_claim_id in an append
    MaxRows,        \* bound: facts ever stored
    MaxTime         \* bound: the clock

Null == 0      \* None, SQL NULL: of a time and of a fact's id
Time == 1..MaxTime

ASSUME StoreAssumption ==
    /\ IsFiniteSet(Workers)
    /\ Trimmed \in [Contents -> Contents]
    /\ Windows \subseteq (0..MaxTime) \X (0..MaxTime)
    /\ <<Null, Null>> \in Windows
    /\ LinkedAppends \in BOOLEAN
    /\ MaxRows \in Nat
    /\ MaxTime \in Nat \ {0}

VARIABLES
    rows,   \* the committed facts, in order of commit; a fact's id is its place
    txn,    \* the transaction of each request
    clock   \* the database's clock

vars == <<rows, txn, clock>>

Row == [tenant : Tenants, content : Contents, digest : Contents, created : Time,
        from : Time, until : 0..MaxTime, supersedes : 0..MaxRows]

\* `old` is the fact to close (supersede), `link` what the new one points to.
Transaction ==
    [phase : {"begun", "closed", "inserted", "abandoned"},
     kind : {"append", "supersede", "recall"},
     tenant : Tenants, start : Time, content : Contents, window : Windows,
     old : 0..MaxRows, link : 0..MaxRows]

Idle == [phase |-> "idle"]

Ids == DOMAIN rows
Active(id) == rows[id].until = Null

Init ==
    /\ rows = <<>>
    /\ txn = [w \in Workers |-> Idle]
    /\ clock = 1

-----------------------------------------------------------------------------
(* Locks and the partial unique index. *)

\* Mutants: valid_from is not coalesced; it is the time of the commit.
NewRowNoDefault(w) ==
    LET t == txn[w] IN
    [tenant |-> t.tenant, content |-> Trimmed[t.content], digest |-> t.content,
     created |-> t.start, from |-> t.window[1], until |-> t.window[2], supersedes |-> t.link]

NewRowFromCommit(w) ==
    LET t == txn[w] IN
    [tenant |-> t.tenant, content |-> Trimmed[t.content], digest |-> t.content,
     created |-> t.start, from |-> IF t.window[1] = Null THEN clock ELSE t.window[1],
     until |-> t.window[2], supersedes |-> t.link]

\* The row insert_claim stores for w: valid_from is coalesce(valid_from, now()).
NewRow(w) ==
    LET t == txn[w] IN
    [tenant |-> t.tenant, content |-> Trimmed[t.content], digest |-> t.content,
     created |-> t.start, from |-> IF t.window[1] = Null THEN t.start ELSE t.window[1],
     until |-> t.window[2], supersedes |-> t.link]

\* What w's open transaction has done that others cannot see yet.
HasInserted(w) == txn[w].phase \in {"inserted", "abandoned"}
ClosedBy(w) ==
    IF (HasInserted(w) /\ txn[w].kind = "supersede") \/ txn[w].phase = "closed"
    THEN {txn[w].old} ELSE {}

\* The index holds (tenant, digest) of the rows `where valid_until is null`.
SameKey(r, s) ==
    r.until = Null /\ s.until = Null /\ r.tenant = s.tenant /\ r.digest = s.digest

\* The insert of w meets a committed row with its key.
IsDuplicate(w) == \E id \in Ids \ ClosedBy(w) : SameKey(rows[id], NewRow(w))

Closes(w) == txn[w].phase = "begun" /\ txn[w].kind = "supersede"
Inserts(w) == txn[w].phase = "closed" \/ (txn[w].phase = "begun" /\ txn[w].kind = "append")

\* Mutant: an insert does not wait for uncommitted ones (a check in the code
\* instead of the index).
WaitsForRowsOnly(w) == {v \in Workers \ {w} : Closes(w) /\ txn[w].old \in ClosedBy(v)}

\* The transactions w's next statement waits for.
WaitsFor(w) ==
    {v \in Workers \ {w} :
        \/ Closes(w) /\ txn[w].old \in ClosedBy(v)
        \/ Inserts(w) /\ HasInserted(v) /\ SameKey(NewRow(v), NewRow(w))
        \/ Inserts(w) /\ \E id \in ClosedBy(v) : SameKey(rows[id], NewRow(w))}

Free(w) == WaitsFor(w) = {}

\* Mutant: no deadlock detection.
NeverDeadlocked(w) == FALSE

\* w waits in a circle.
Deadlocked(w) ==
    \E circle \in SUBSET Workers :
        w \in circle /\ \A v \in circle : WaitsFor(v) \cap circle # {}

-----------------------------------------------------------------------------
(* The steps of a request. *)

Ends(w) == txn' = [txn EXCEPT ![w] = Idle]
Moves(w, phase) == txn' = [txn EXCEPT ![w].phase = phase] /\ UNCHANGED <<rows, clock>>
Fails(w) == Ends(w) /\ UNCHANGED <<rows, clock>>

\* AppendClaim::validate: a window with two ends is not empty.
ValidWindow(window) == window[1] # Null /\ window[2] # Null => window[2] > window[1]

Begin(w, kind, tenant, content, window, old, link) ==
    /\ txn[w].phase = "idle"
    /\ ValidWindow(window)
    /\ txn' = [txn EXCEPT ![w] =
                 [phase |-> "begun", kind |-> kind, tenant |-> tenant, start |-> clock,
                  content |-> content, window |-> window, old |-> old, link |-> link]]
    /\ UNCHANGED <<rows, clock>>

\* Bound: no request begins that could exceed MaxRows.
RoomForOne ==
    Len(rows) + Cardinality({w \in Workers : txn[w].phase # "idle" /\ txn[w].kind # "recall"})
        < MaxRows

AppendClaim(w) ==
    /\ RoomForOne
    /\ \E tenant \in Tenants, content \in Contents, window \in Windows,
          link \in IF LinkedAppends THEN Ids \cup {Null} ELSE {Null} :
          Begin(w, "append", tenant, content, window, Null, link)

\* The replacement points to the fact it closes (clone_for_supersede).
SupersedeClaim(w) ==
    /\ RoomForOne
    /\ \E tenant \in Tenants, content \in Contents, window \in Windows, old \in Ids :
          Begin(w, "supersede", tenant, content, window, old, old)

Recall(w) ==
    \E tenant \in Tenants, content \in Contents :
        Begin(w, "recall", tenant, content, <<Null, Null>>, Null, Null)

\* Mutants: the UPDATE does not ask for an open fact; nor for the tenant's.
ClosableAgain(w) == rows[txn[w].old].tenant = txn[w].tenant
ClosableForAnyone(w) == Active(txn[w].old)

\* `update ... where claim_id and tenant_id and valid_until is null`, once no
\* other transaction has the row.
Closable(w) == rows[txn[w].old].tenant = txn[w].tenant /\ Active(txn[w].old)

Close(w) ==
    /\ Closes(w) /\ Free(w)
    /\ Closable(w)
    /\ txn[w].start >= rows[txn[w].old].from
    /\ Moves(w, "closed")

\* No row updated, 404; or CHECK (valid_until >= valid_from) fails, 503.
CloseFails(w) ==
    /\ Closes(w) /\ Free(w)
    /\ ~Closable(w) \/ txn[w].start < rows[txn[w].old].from
    /\ Fails(w)

InWindow(row) == row.until = Null \/ row.until >= row.from

Insert(w) ==
    /\ Inserts(w) /\ Free(w)
    /\ InWindow(NewRow(w))
    /\ ~IsDuplicate(w)
    /\ Moves(w, "inserted")

\* The CHECK or the unique index fails the insert, and with it the close: 503.
InsertFails(w) ==
    /\ Inserts(w)
    /\ ~InWindow(NewRow(w)) \/ (Free(w) /\ IsDuplicate(w))
    /\ Fails(w)

\* Mutants: the fact is closed at the time of the commit; it stays open.
PublishClosingAtCommit(w) ==
    rows' = Append([id \in Ids |-> IF id \in ClosedBy(w)
                                   THEN [rows[id] EXCEPT !.until = clock]
                                   ELSE rows[id]],
                   NewRow(w))

PublishOnlyNew(w) == rows' = Append(rows, NewRow(w))

\* What the transaction did becomes visible at once; the close was at its now().
Publish(w) ==
    rows' = Append([id \in Ids |-> IF id \in ClosedBy(w)
                                   THEN [rows[id] EXCEPT !.until = txn[w].start]
                                   ELSE rows[id]],
                   NewRow(w))

Commit(w) ==
    /\ txn[w].phase = "inserted"
    /\ Publish(w)
    /\ Ends(w)
    /\ UNCHANGED clock

\* The recall statement runs and the request is answered.
Query(w) ==
    /\ txn[w].phase = "begun" /\ txn[w].kind = "recall"
    /\ Fails(w)

\* A timeout, a database error or the end of the process drops the request;
\* a transaction whose COMMIT may have been sent can still commit.
GiveUp(w) ==
    \/ txn[w].phase \in {"begun", "closed"} /\ Fails(w)
    \/ txn[w].phase = "inserted" /\ Moves(w, "abandoned")

Settle(w) ==
    /\ txn[w].phase = "abandoned"
    /\ Publish(w) \/ UNCHANGED rows
    /\ Ends(w)
    /\ UNCHANGED clock

\* Postgres fails one of the transactions that wait in a circle: 503.
DeadlockDetected(w) == Deadlocked(w) /\ Fails(w)

Tick == clock < MaxTime /\ clock' = clock + 1 /\ UNCHANGED <<rows, txn>>

\* What Postgres does for a transaction in flight.
Advance(w) ==
    \/ Close(w) \/ CloseFails(w)
    \/ Insert(w) \/ InsertFails(w)
    \/ Commit(w) \/ Settle(w)
    \/ Query(w)
    \/ DeadlockDetected(w)

Next ==
    \/ \E w \in Workers :
          \/ AppendClaim(w) \/ SupersedeClaim(w) \/ Recall(w)
          \/ Advance(w)
          \/ GiveUp(w)
    \/ Tick

Spec == Init /\ [][Next]_vars

\* Locks are granted in turn, and a transaction that can go on does.
FairSpec == Spec /\ \A w \in Workers : SF_vars(Advance(w))

-----------------------------------------------------------------------------
(* sql/recall.sql: the facts a recall of `tenant` finds whose now() is `now`. *)

\* Mutant: a closed fact is found.
VisibleOnceBegun(id, tenant, now) == rows[id].tenant = tenant /\ rows[id].from <= now

Visible(id, tenant, now) ==
    /\ rows[id].tenant = tenant
    /\ rows[id].from <= now
    /\ rows[id].until = Null \/ rows[id].until > now

-----------------------------------------------------------------------------
(* Properties. *)

TypeOK ==
    /\ rows \in Seq(Row)
    /\ Len(rows) <= MaxRows
    /\ txn \in [Workers -> Transaction \cup {Idle}]
    /\ clock \in Time

\* A tenant has at most one active fact of a content (ARCHITECTURE.md, 3.1),
\* whichever appends and supersedes race, commit late or fail.
AtMostOneActive ==
    \A i, j \in Ids :
        Active(i) /\ Active(j) /\ rows[i].tenant = rows[j].tenant /\ rows[i].content = rows[j].content
        => i = j

\* A fact is superseded once: of several requests to supersede it one closes
\* it and the others fail, so lineages are chains.
LineagesAreChains ==
    \A i, j \in Ids :
        rows[i].supersedes # Null /\ rows[i].supersedes = rows[j].supersedes => i = j

\* The recalls in flight, whose query may run at any moment.
Recalls == {w \in Workers : txn[w].phase = "begun" /\ txn[w].kind = "recall"}

Sees(w, id) == Visible(id, txn[w].tenant, txn[w].start)

\* No recall finds both a fact and its replacement (ARCHITECTURE.md, 5.3: there
\* is no window where both are live), not even one that began before the
\* supersession and queries after it.
NoRecallSeesBoth ==
    \A w \in Recalls : \A id \in Ids :
        rows[id].supersedes # Null => ~(Sees(w, id) /\ Sees(w, rows[id].supersedes))

\* No recall falls between a fact and its replacement: one that would have
\* found the fact finds it or a replacement that is as old as the recall.
NoRecallSeesNeither ==
    \A w \in Recalls : \A id \in Ids :
        LET old == rows[id].supersedes IN
        old # Null /\ rows[old].tenant = txn[w].tenant /\ rows[old].from <= txn[w].start
        => Sees(w, old) \/ rows[id].from <= txn[w].start

\* Every transaction ends, without any timeout: what waits in a circle is
\* found and broken, and a failed insert frees the row it had closed.
EveryTransactionEnds == \A w \in Workers : txn[w].phase = "begun" ~> txn[w].phase = "idle"

-----------------------------------------------------------------------------
(* Refinement. *)

FactOf(row) == [tenant |-> row.tenant, digest |-> row.digest, open |-> row.until = Null]

Ledger == INSTANCE FactLedger
             WITH facts <- [id \in Ids |-> FactOf(rows[id])],
                  Digests <- Contents

\* The transactions keep the promise of FactLedger: closing a fact and adding
\* its replacement is one step, and no step reopens, removes or doubles a fact.
LedgerSpec == Ledger!Spec
=============================================================================
