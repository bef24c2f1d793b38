--------------------------- MODULE FactStoreProofs ---------------------------
(***************************************************************************)
(* Proofs about FactStore: for any number of requests, tenants and facts,   *)
(* the transactions implement FactLedger, a tenant has one active fact of a *)
(* content, and the two facts of a supersession are never seen together nor *)
(* both missed.                                                             *)
(*                                                                         *)
(* The argument: a transaction that has closed a fact keeps it, active, to  *)
(* itself until it ends (RowLocks); what has been inserted and not yet      *)
(* published meets no row and no other insert of its key (NoTwinWaits).     *)
(* So publishing, the only step that changes the facts, meets no twin.      *)
(*                                                                         *)
(* Three results are about clients that do what the code leaves to them:    *)
(* contents that trimming does not merge (Untrimmed), no link in an append  *)
(* (~LinkedAppends), and no valid_from of their own (NowWindows).           *)
(*                                                                         *)
(* And proofs about FusedRecall, whose recall runs beside these             *)
(* transactions: since facts only ever close (FactsKeep), what the query    *)
(* finds is what was live when the request began or newer, and what the     *)
(* pack lacks at the end is accounted for.                                  *)
(***************************************************************************)
EXTENDS FusedRecall, FiniteSetTheorems, SequenceTheorems, WellFoundedInduction, TLAPS

\* No two contents are the same once trimmed.
Untrimmed == \A c, d \in Contents : Trimmed[c] = Trimmed[d] => c = d

\* No client chooses when its fact begins.
NowWindows == \A window \in Windows : window[1] = Null

-----------------------------------------------------------------------------
(* The inductive invariant. *)

\* The requests that may still add a fact; the bound leaves room for each.
Writing == {w \in Workers : txn[w].phase # "idle" /\ txn[w].kind # "recall"}
Room == Len(rows) + Cardinality(Writing) <= MaxRows

\* What each kind of transaction carries.
Shape(w) ==
    txn[w].phase # "idle" =>
        /\ txn[w].phase = "closed" => txn[w].kind = "supersede"
        /\ txn[w].kind = "recall" => txn[w].phase = "begun"
        /\ txn[w].kind = "supersede" => txn[w].old \in Ids /\ txn[w].link = txn[w].old
        /\ txn[w].kind = "append" /\ ~LinkedAppends => txn[w].link = Null

\* A fact that w has closed, and not yet published, is active and w's tenant's,
\* and no other transaction has closed it.
RowLocks(w) ==
    \A id \in ClosedBy(w) :
        /\ id \in Ids
        /\ Active(id)
        /\ rows[id].tenant = txn[w].tenant
        /\ txn[w].start >= rows[id].from
        /\ \A v \in Workers \ {w} : id \notin ClosedBy(v)

\* The partial unique index.
IndexIsUnique == \A i, j \in Ids : SameKey(rows[i], rows[j]) => i = j

\* What w has inserted meets no twin when it is published.
NoTwinWaits(w) ==
    HasInserted(w) =>
        /\ \A id \in Ids \ ClosedBy(w) : ~SameKey(rows[id], NewRow(w))
        /\ \A v \in Workers \ {w} : HasInserted(v) => ~SameKey(NewRow(v), NewRow(w))

ContentsAreTrimmed == \A id \in Ids : rows[id].content = Trimmed[rows[id].digest]

\* A fact that another points to is closed, at the time the other begins if no
\* client has chosen that.
SupersededIsClosed ==
    ~LinkedAppends =>
        \A id \in Ids : rows[id].supersedes # Null =>
            LET old == rows[id].supersedes IN
            /\ old \in Ids
            /\ ~Active(old)
            /\ NowWindows => rows[old].until = rows[id].from

IInv ==
    /\ TypeOK
    /\ Room
    /\ IndexIsUnique
    /\ ContentsAreTrimmed
    /\ SupersededIsClosed
    /\ ~LinkedAppends => LineagesAreChains
    /\ \A w \in Workers : Shape(w) /\ RowLocks(w) /\ NoTwinWaits(w)

-----------------------------------------------------------------------------
(* What the operators of FactStore return. *)

\* Facts keep their places: ids are 1..Len(rows).
LEMMA RowsAreASequence ==
    ASSUME TypeOK
    PROVE  /\ Len(rows) \in Nat /\ Ids = 1..Len(rows)
           /\ \A id \in Ids : rows[id] \in Row
  BY DEF TypeOK, Ids

\* A transaction in flight has all its fields.
LEMMA InFlightTyped ==
    ASSUME TypeOK, NEW w \in Workers, txn[w].phase # "idle"
    PROVE  txn[w] \in Transaction
  BY DEF TypeOK, Idle

\* What an insert stores is a row, open if it asked for no end.
LEMMA NewRowTyped ==
    ASSUME TypeOK, NEW w \in Workers, txn[w].phase # "idle"
    PROVE  /\ NewRow(w) \in Row
           /\ NewRow(w).content = Trimmed[NewRow(w).digest]
           /\ NewRow(w).tenant = txn[w].tenant
           /\ NewRow(w).supersedes = txn[w].link
           /\ NowWindows => NewRow(w).from = txn[w].start
<1>1. txn[w] \in Transaction
  BY InFlightTyped
<1>2. /\ txn[w].window \in Windows /\ txn[w].window[1] \in 0..MaxTime
      /\ txn[w].window[2] \in 0..MaxTime
  BY <1>1, StoreAssumption DEF Transaction
<1>3. Trimmed[txn[w].content] \in Contents /\ txn[w].content \in Contents
  BY <1>1, StoreAssumption DEF Transaction
<1>4. (IF txn[w].window[1] = Null THEN txn[w].start ELSE txn[w].window[1]) \in Time
  BY <1>1, <1>2 DEF Transaction, Time, Null
<1>5. NewRow(w) \in Row
  BY <1>1, <1>2, <1>3, <1>4 DEF NewRow, Row, Transaction
<1> QED
  BY <1>2, <1>5 DEF NewRow, NowWindows

\* The facts after a publication: one more, and those that w closed are closed.
LEMMA Published ==
    ASSUME TypeOK, NEW w \in Workers, txn[w].phase # "idle", Publish(w)
    PROVE  /\ rows' \in Seq(Row)
           /\ Len(rows') = Len(rows) + 1
           /\ Ids' = 1..(Len(rows) + 1)
           /\ rows'[Len(rows) + 1] = NewRow(w)
           /\ \A id \in Ids : rows'[id] = IF id \in ClosedBy(w)
                                          THEN [rows[id] EXCEPT !.until = txn[w].start]
                                          ELSE rows[id]
<1> DEFINE closed == [id \in Ids |-> IF id \in ClosedBy(w)
                                     THEN [rows[id] EXCEPT !.until = txn[w].start]
                                     ELSE rows[id]]
<1>1. txn[w].start \in 0..MaxTime
  BY InFlightTyped, StoreAssumption DEF Transaction, Time
<1>2. closed \in [1..Len(rows) -> Row]
  <2> SUFFICES ASSUME NEW id \in Ids
               PROVE  closed[id] \in Row
    BY RowsAreASequence
  <2>1. rows[id] \in Row
    BY RowsAreASequence
  <2>2. [rows[id] EXCEPT !.until = txn[w].start] \in Row
    BY <1>1, <2>1 DEF Row
  <2> QED
    BY <2>1, <2>2
<1>3. closed \in Seq(Row) /\ Len(closed) = Len(rows)
  BY <1>2, RowsAreASequence
<1>4. rows' = Append(closed, NewRow(w))
  BY DEF Publish
<1>5. NewRow(w) \in Row
  BY NewRowTyped
<1>6. \A id \in Ids : rows'[id] = closed[id]
  <2> HIDE DEF closed
  <2> QED
    BY <1>3, <1>4, <1>5, RowsAreASequence
<1>7. /\ rows' \in Seq(Row) /\ Len(rows') = Len(rows) + 1
      /\ rows'[Len(rows) + 1] = NewRow(w)
  <2> HIDE DEF closed
  <2> QED
    BY <1>3, <1>4, <1>5, RowsAreASequence
<1> QED
  BY <1>6, <1>7, RowsAreASequence DEF Ids

\* Two rows collide in the partial unique index whichever came first.
LEMMA SameKeySymmetric == \A r, s : SameKey(r, s) <=> SameKey(s, r)
  BY DEF SameKey

\* What w closes is one fact at most, which is the old one of a supersession.
LEMMA ClosesOldOnly ==
    ASSUME TypeOK, NEW w \in Workers, Shape(w)
    PROVE  /\ ClosedBy(w) \subseteq {txn[w].old}
           /\ ClosedBy(w) # {} => txn[w].kind = "supersede" /\ txn[w].phase # "idle"
           /\ HasInserted(w) =>
                \/ ClosedBy(w) = {} /\ txn[w].kind = "append"
                \/ ClosedBy(w) = {txn[w].old} /\ txn[w].kind = "supersede" /\ txn[w].old \in Ids
<1>1. CASE HasInserted(w)
  <2>1. txn[w] \in Transaction
    BY <1>1, InFlightTyped DEF HasInserted
  <2> QED
    BY <1>1, <2>1 DEF ClosedBy, Shape, HasInserted, Transaction
<1>2. CASE ~HasInserted(w)
  BY <1>2 DEF ClosedBy, Shape, HasInserted
<1> QED
  BY <1>1, <1>2

\* The requests in flight are finitely many.
LEMMA WritingFinite == IsFiniteSet(Writing) /\ Cardinality(Writing) \in Nat
  BY StoreAssumption, FS_Subset, FS_CardinalityType DEF Writing

-----------------------------------------------------------------------------
(* Each step keeps the invariant. *)

\* An empty store satisfies the invariant.
LEMMA StartIsSound ==
    ASSUME Init PROVE IInv
<1> USE DEF Init
<1>1. TypeOK
  BY StoreAssumption DEF TypeOK, Idle, Time
<1>2. Ids = {} /\ Len(rows) = 0
  BY DEF Ids
<1>3. Writing = {}
  BY DEF Writing, Idle
<1>4. Room
  BY <1>2, <1>3, StoreAssumption, FS_EmptySet DEF Room
<1>5. \A w \in Workers : ClosedBy(w) = {} /\ ~HasInserted(w) /\ txn[w].phase = "idle"
  BY DEF ClosedBy, HasInserted, Idle
<1> QED
  BY <1>1, <1>2, <1>4, <1>5
  DEF IInv, IndexIsUnique, ContentsAreTrimmed, SupersededIsClosed, LineagesAreChains,
      Shape, RowLocks, NoTwinWaits

\* A step that changes neither the facts nor what others have done, and by which
\* w's transaction closes and inserts only what keeps the invariant.
LEMMA OneRequestMoves ==
    ASSUME IInv, NEW w \in Workers, UNCHANGED <<rows, clock>>,
           txn' \in [Workers -> Transaction \cup {Idle}],
           \A v \in Workers \ {w} : txn'[v] = txn[v],
           Room', Shape(w)', RowLocks(w)', NoTwinWaits(w)'
    PROVE  IInv'
<1>1. TypeOK'
  BY DEF IInv, TypeOK
<1>2. /\ IndexIsUnique' /\ ContentsAreTrimmed' /\ SupersededIsClosed'
      /\ (~LinkedAppends => LineagesAreChains)'
  BY DEF IInv, IndexIsUnique, ContentsAreTrimmed, SupersededIsClosed, LineagesAreChains, Ids,
         Active, SameKey
<1>3. ASSUME NEW v \in Workers \ {w}
      PROVE  /\ ClosedBy(v)' = ClosedBy(v)
             /\ HasInserted(v)' = HasInserted(v)
             /\ NewRow(v)' = NewRow(v)
             /\ Shape(v)'
  BY <1>3 DEF IInv, ClosedBy, HasInserted, NewRow, Shape, Ids
<1>4. ASSUME NEW v \in Workers \ {w}
      PROVE  RowLocks(v)'
  <2>1. \A id \in ClosedBy(v) : id \notin ClosedBy(w)'
    BY <1>3, <1>4 DEF RowLocks
  <2>2. \A id \in ClosedBy(v) : \A u \in Workers \ {v} : id \notin ClosedBy(u)'
    BY <1>3, <1>4, <2>1 DEF IInv, RowLocks
  <2> QED
    BY <1>3, <1>4, <2>2 DEF IInv, RowLocks, Ids, Active
<1>5. ASSUME NEW v \in Workers \ {w}
      PROVE  NoTwinWaits(v)'
  <2> SUFFICES ASSUME HasInserted(v)'
               PROVE  /\ \A id \in Ids' \ ClosedBy(v)' : ~SameKey(rows'[id], NewRow(v)')
                      /\ \A u \in Workers \ {v} : HasInserted(u)' => ~SameKey(NewRow(u)', NewRow(v)')
    BY DEF NoTwinWaits, SameKey
  <2>1. \A id \in Ids' \ ClosedBy(v)' : ~SameKey(rows'[id], NewRow(v)')
    BY <1>3, <1>5 DEF IInv, NoTwinWaits, Ids
  <2>2. HasInserted(w)' => ~SameKey(NewRow(w)', NewRow(v)')
    BY <1>5, SameKeySymmetric DEF NoTwinWaits, SameKey
  <2>3. \A u \in Workers \ {v, w} : HasInserted(u)' => ~SameKey(NewRow(u)', NewRow(v)')
    BY <1>3, <1>5 DEF IInv, NoTwinWaits
  <2> QED
    BY <2>1, <2>2, <2>3
<1> QED
  BY <1>1, <1>2, <1>3, <1>4, <1>5 DEF IInv

\* A transaction that ends without a trace takes nothing from the others.
LEMMA FailsKeeps ==
    ASSUME IInv, NEW w \in Workers, Fails(w)
    PROVE  IInv'
<1>1. /\ txn' = [txn EXCEPT ![w] = Idle]
      /\ UNCHANGED <<rows, clock>>
  BY DEF Fails, Ends
<1>2. txn' \in [Workers -> Transaction \cup {Idle}] /\ txn'[w] = Idle
  BY <1>1 DEF IInv, TypeOK
<1>3. Writing' \subseteq Writing
  BY <1>1 DEF IInv, TypeOK, Writing, Idle
<1>4. Room'
  <2>1. Cardinality(Writing') <= Cardinality(Writing) /\ Cardinality(Writing') \in Nat
    BY <1>3, WritingFinite, FS_Subset, FS_CardinalityType
  <2> QED
    BY <1>1, <2>1, WritingFinite, RowsAreASequence, StoreAssumption DEF IInv, Room
<1>5. ~HasInserted(w)' /\ ClosedBy(w)' = {} /\ Shape(w)'
  BY <1>2 DEF HasInserted, ClosedBy, Idle, Shape
<1> QED
  BY <1>1, <1>2, <1>4, <1>5, OneRequestMoves DEF RowLocks, NoTwinWaits, IInv, TypeOK

\* A new transaction reads the clock, and has room for its row.
LEMMA BeginKeeps ==
    ASSUME IInv, NEW w \in Workers, NEW kind \in {"append", "supersede", "recall"},
           NEW tenant \in Tenants, NEW content \in Contents, NEW window,
           NEW old \in 0..MaxRows, NEW link \in 0..MaxRows,
           window \in Windows,
           kind # "recall" => RoomForOne,
           kind = "supersede" => old \in Ids /\ link = old,
           kind = "append" /\ ~LinkedAppends => link = Null,
           Begin(w, kind, tenant, content, window, old, link)
    PROVE  IInv'
<1> DEFINE new == [phase |-> "begun", kind |-> kind, tenant |-> tenant, start |-> clock,
                   content |-> content, window |-> window, old |-> old, link |-> link]
<1>1. /\ txn[w].phase = "idle"
      /\ txn' = [txn EXCEPT ![w] = new]
      /\ UNCHANGED <<rows, clock>>
  BY DEF Begin
<1>2. new \in Transaction
  BY DEF Transaction, IInv, TypeOK
<1>3. /\ txn' \in [Workers -> Transaction \cup {Idle}] /\ txn'[w] = new
      /\ \A v \in Workers \ {w} : txn'[v] = txn[v]
  <2> HIDE DEF new
  <2> QED
    BY <1>1, <1>2 DEF IInv, TypeOK
<1>4. Room'
  <2>1. CASE kind = "recall"
    <3>1. Writing' = Writing
      BY <1>1, <1>3, <2>1 DEF Writing
    <3> QED
      BY <1>1, <3>1 DEF IInv, Room
  <2>2. CASE kind # "recall"
    <3>1. Writing' = Writing \cup {w} /\ w \notin Writing
      BY <1>1, <1>3, <2>2 DEF Writing
    <3>2. Cardinality(Writing') = Cardinality(Writing) + 1
      BY <3>1, WritingFinite, FS_AddElement
    <3>3. Len(rows) + Cardinality(Writing) < MaxRows
      BY <2>2 DEF RoomForOne, Writing
    <3> QED
      BY <1>1, <3>2, <3>3, WritingFinite, RowsAreASequence, StoreAssumption DEF IInv, Room
  <2> QED
    BY <2>1, <2>2
<1>5. ~HasInserted(w)' /\ ClosedBy(w)' = {}
  BY <1>3 DEF HasInserted, ClosedBy
<1>6. Shape(w)'
  BY <1>1, <1>3 DEF Shape, Ids
<1> QED
  BY <1>1, <1>3, <1>4, <1>5, <1>6, OneRequestMoves DEF RowLocks, NoTwinWaits

\* The same for each kind of request.
LEMMA BeginsKeep ==
    ASSUME IInv, NEW w \in Workers, AppendClaim(w) \/ SupersedeClaim(w) \/ Recall(w)
    PROVE  IInv'
<1>1. Ids \subseteq 0..MaxRows /\ Null \in 0..MaxRows
  BY RowsAreASequence, StoreAssumption DEF IInv, TypeOK, Null
<1>2. CASE AppendClaim(w)
  <2>1. PICK tenant \in Tenants, content \in Contents, window \in Windows,
             link \in IF LinkedAppends THEN Ids \cup {Null} ELSE {Null} :
          Begin(w, "append", tenant, content, window, Null, link)
    BY <1>2 DEF AppendClaim
  <2>2. link \in 0..MaxRows /\ (~LinkedAppends => link = Null)
    BY <1>1
  <2> QED
    BY <1>1, <1>2, <2>1, <2>2, BeginKeeps DEF AppendClaim
<1>3. CASE SupersedeClaim(w)
  <2>1. PICK tenant \in Tenants, content \in Contents, window \in Windows, old \in Ids :
          Begin(w, "supersede", tenant, content, window, old, old)
    BY <1>3 DEF SupersedeClaim
  <2> QED
    BY <1>1, <1>3, <2>1, BeginKeeps DEF SupersedeClaim
<1>4. CASE Recall(w)
  <2>1. PICK tenant \in Tenants, content \in Contents :
          Begin(w, "recall", tenant, content, <<Null, Null>>, Null, Null)
    BY <1>4 DEF Recall
  <2> QED
    BY <1>1, <2>1, BeginKeeps, StoreAssumption
<1> QED
  BY <1>2, <1>3, <1>4
\* A transaction moves on: what it is about stays, and so does what others do.
LEMMA MovesOn ==
    ASSUME TypeOK, Room, NEW w \in Workers, txn[w].phase # "idle",
           NEW next \in {"closed", "inserted", "abandoned"}, Moves(w, next)
    PROVE  /\ UNCHANGED <<rows, clock>>
           /\ txn' \in [Workers -> Transaction \cup {Idle}]
           /\ txn'[w].phase = next /\ txn'[w].kind = txn[w].kind
           /\ txn'[w].old = txn[w].old /\ txn'[w].link = txn[w].link
           /\ txn'[w].tenant = txn[w].tenant /\ txn'[w].start = txn[w].start
           /\ NewRow(w)' = NewRow(w)
           /\ Room'
           /\ \A v \in Workers \ {w} :
                /\ txn'[v] = txn[v]
                /\ ClosedBy(v)' = ClosedBy(v) /\ NewRow(v)' = NewRow(v)
                /\ HasInserted(v)' = HasInserted(v)
<1>1. txn[w] \in Transaction
  BY InFlightTyped
<1>2. txn' = [txn EXCEPT ![w].phase = next] /\ UNCHANGED <<rows, clock>>
  BY DEF Moves
<1>3. /\ txn' \in [Workers -> Transaction \cup {Idle}]
      /\ txn'[w] = [txn[w] EXCEPT !.phase = next]
      /\ \A v \in Workers \ {w} : txn'[v] = txn[v]
  BY <1>1, <1>2 DEF TypeOK, Transaction
<1>4. /\ txn'[w].phase = next /\ txn'[w].kind = txn[w].kind
      /\ txn'[w].old = txn[w].old /\ txn'[w].link = txn[w].link
      /\ txn'[w].tenant = txn[w].tenant /\ txn'[w].start = txn[w].start
      /\ txn'[w].content = txn[w].content /\ txn'[w].window = txn[w].window
  BY <1>1, <1>3 DEF Transaction
<1>5. NewRow(w)' = NewRow(w)
  BY <1>4 DEF NewRow
<1>6. Writing' = Writing
  <2>1. \A v \in Workers : txn'[v].kind = txn[v].kind /\ (txn'[v].phase = "idle" <=> txn[v].phase = "idle")
    BY <1>3, <1>4
  <2> QED
    BY <2>1 DEF Writing
<1>7. Room'
  BY <1>2, <1>6 DEF Room
<1>8. ASSUME NEW v \in Workers \ {w}
      PROVE  /\ ClosedBy(v)' = ClosedBy(v) /\ NewRow(v)' = NewRow(v)
             /\ HasInserted(v)' = HasInserted(v)
  BY <1>3 DEF ClosedBy, HasInserted, NewRow
<1> QED
  BY <1>2, <1>3, <1>4, <1>5, <1>7, <1>8

\* Closing takes a fact that no other transaction has.
LEMMA CloseKeeps ==
    ASSUME IInv, NEW w \in Workers, Close(w)
    PROVE  IInv'
<1>1. /\ txn[w].phase = "begun" /\ txn[w].kind = "supersede" /\ Moves(w, "closed")
      /\ txn[w].old \in Ids /\ txn[w].link = txn[w].old /\ TypeOK /\ Room
  BY DEF Close, Closes, IInv, Shape
<1>2. /\ txn'[w].phase = "closed" /\ txn'[w].kind = "supersede"
      /\ txn'[w].old = txn[w].old /\ txn'[w].link = txn[w].link
      /\ txn'[w].tenant = txn[w].tenant /\ txn'[w].start = txn[w].start
      /\ UNCHANGED <<rows, clock>>
      /\ \A v \in Workers \ {w} : ClosedBy(v)' = ClosedBy(v)
  BY <1>1, MovesOn
<1>3. ~HasInserted(w)' /\ ClosedBy(w)' = {txn[w].old} /\ Shape(w)'
  BY <1>1, <1>2 DEF HasInserted, ClosedBy, Shape, Ids
<1>4. \A v \in Workers \ {w} : txn[w].old \notin ClosedBy(v)
  BY <1>1 DEF Close, Free, WaitsFor, Closes
<1>5. RowLocks(w)'
  BY <1>1, <1>2, <1>3, <1>4 DEF RowLocks, Close, Closable, Ids, Active
<1> QED
  BY <1>1, <1>3, <1>5, MovesOn, OneRequestMoves DEF NoTwinWaits

\* An insert has waited for every other one of its key.
LEMMA InsertKeeps ==
    ASSUME IInv, NEW w \in Workers, Insert(w)
    PROVE  IInv'
<1>1. /\ \/ txn[w].phase = "closed" /\ txn[w].kind = "supersede"
         \/ txn[w].phase = "begun" /\ txn[w].kind = "append"
      /\ Moves(w, "inserted") /\ TypeOK /\ Room
  BY DEF Insert, Inserts, IInv, Shape
<1>2. /\ txn'[w].phase = "inserted" /\ txn'[w].kind = txn[w].kind
      /\ txn'[w].old = txn[w].old /\ txn'[w].link = txn[w].link
      /\ txn'[w].tenant = txn[w].tenant /\ txn'[w].start = txn[w].start
      /\ NewRow(w)' = NewRow(w)
      /\ UNCHANGED <<rows, clock>>
      /\ \A v \in Workers \ {w} : /\ ClosedBy(v)' = ClosedBy(v) /\ NewRow(v)' = NewRow(v)
                                  /\ HasInserted(v)' = HasInserted(v)
  BY <1>1, MovesOn
<1>3. ClosedBy(w)' = ClosedBy(w) /\ Shape(w)'
  BY <1>1, <1>2 DEF ClosedBy, HasInserted, IInv, Shape, Ids
<1>4. RowLocks(w)'
  BY <1>2, <1>3 DEF IInv, RowLocks, Ids, Active
<1>5. \A id \in Ids' \ ClosedBy(w)' : ~SameKey(rows'[id], NewRow(w)')
  BY <1>2, <1>3 DEF Insert, IsDuplicate, Ids
<1>6. \A v \in Workers \ {w} : HasInserted(v)' => ~SameKey(NewRow(v)', NewRow(w)')
  BY <1>2 DEF Insert, Free, WaitsFor
<1>7. NoTwinWaits(w)'
  BY <1>5, <1>6 DEF NoTwinWaits, SameKey
<1> QED
  BY <1>1, <1>3, <1>4, <1>7, MovesOn, OneRequestMoves

\* A request that is given up with its COMMIT on the way keeps what it has done.
LEMMA AbandonKeeps ==
    ASSUME IInv, NEW w \in Workers, txn[w].phase = "inserted", Moves(w, "abandoned")
    PROVE  IInv'
<1>1. /\ txn'[w].phase = "abandoned" /\ txn'[w].kind = txn[w].kind
      /\ txn'[w].old = txn[w].old /\ txn'[w].link = txn[w].link
      /\ txn'[w].tenant = txn[w].tenant /\ txn'[w].start = txn[w].start
      /\ NewRow(w)' = NewRow(w)
      /\ UNCHANGED <<rows, clock>>
      /\ \A v \in Workers \ {w} : /\ ClosedBy(v)' = ClosedBy(v) /\ NewRow(v)' = NewRow(v)
                                  /\ HasInserted(v)' = HasInserted(v)
  BY MovesOn DEF IInv
<1>2. ClosedBy(w)' = ClosedBy(w) /\ Shape(w)' /\ HasInserted(w)
  BY <1>1 DEF ClosedBy, HasInserted, IInv, Shape, Ids
<1>3. RowLocks(w)'
  BY <1>1, <1>2 DEF IInv, RowLocks, Ids, Active
<1>4. \A id \in Ids' \ ClosedBy(w)' : ~SameKey(rows'[id], NewRow(w)')
  BY <1>1, <1>2 DEF IInv, NoTwinWaits, Ids
<1>5. \A v \in Workers \ {w} : HasInserted(v)' => ~SameKey(NewRow(v)', NewRow(w)')
  BY <1>1, <1>2 DEF IInv, NoTwinWaits
<1>6. NoTwinWaits(w)'
  BY <1>4, <1>5 DEF NoTwinWaits, SameKey
<1> QED
  BY <1>2, <1>3, <1>6, MovesOn, OneRequestMoves DEF IInv

\* A publication: the new fact meets no twin, and what it replaces is closed.
LEMMA PublishKeeps ==
    ASSUME IInv, NEW w \in Workers, HasInserted(w), Publish(w), Ends(w), UNCHANGED clock
    PROVE  IInv'
<1> DEFINE new == Len(rows) + 1
<1>1. /\ txn[w].phase # "idle" /\ txn[w] \in Transaction /\ TypeOK /\ Shape(w)
      /\ txn[w].kind # "recall"
  BY InFlightTyped DEF HasInserted, IInv, Shape
<1>2. /\ rows' \in Seq(Row) /\ Len(rows') = new /\ Ids' = 1..new /\ rows'[new] = NewRow(w)
      /\ \A id \in Ids : rows'[id] = IF id \in ClosedBy(w)
                                     THEN [rows[id] EXCEPT !.until = txn[w].start]
                                     ELSE rows[id]
  BY <1>1, Published
<1>3. /\ Len(rows) \in Nat /\ Ids = 1..Len(rows) /\ Ids' = Ids \cup {new} /\ new \notin Ids
      /\ \A id \in Ids : rows[id] \in Row
  BY <1>1, <1>2, RowsAreASequence
<1>4. /\ txn' = [txn EXCEPT ![w] = Idle]
      /\ txn' \in [Workers -> Transaction \cup {Idle}] /\ txn'[w] = Idle
      /\ \A v \in Workers \ {w} : txn'[v] = txn[v]
  BY <1>1 DEF Ends, TypeOK
<1>5. txn[w].start \in Time /\ txn[w].start # Null
  BY <1>1, StoreAssumption DEF Transaction, Time, Null
<1>6. \A id \in Ids : /\ rows'[id].tenant = rows[id].tenant
                      /\ rows'[id].digest = rows[id].digest
                      /\ rows'[id].content = rows[id].content
                      /\ rows'[id].from = rows[id].from
                      /\ rows'[id].supersedes = rows[id].supersedes
                      /\ rows'[id].until = IF id \in ClosedBy(w) THEN txn[w].start
                                           ELSE rows[id].until
  BY <1>2, <1>3 DEF Row
<1>7. Room' /\ Len(rows') <= MaxRows
  <2>1. Writing' = Writing \ {w} /\ w \in Writing
    BY <1>1, <1>4 DEF Writing, Idle
  <2>2. Cardinality(Writing') = Cardinality(Writing) - 1
    BY <2>1, WritingFinite, FS_RemoveElement
  <2>3. Cardinality(Writing') \in Nat
    BY <2>1, WritingFinite, FS_Subset, FS_CardinalityType
  <2> QED
    BY <1>2, <1>3, <2>2, <2>3, WritingFinite, StoreAssumption DEF IInv, Room
<1>8. TypeOK'
  BY <1>1, <1>2, <1>4, <1>7 DEF TypeOK
<1>9. NewRow(w) \in Row /\ NewRow(w).content = Trimmed[NewRow(w).digest]
      /\ NewRow(w).supersedes = txn[w].link /\ (NowWindows => NewRow(w).from = txn[w].start)
  BY <1>1, NewRowTyped
<1>10. ContentsAreTrimmed'
  BY <1>2, <1>3, <1>6, <1>9 DEF IInv, ContentsAreTrimmed
<1>11. \A id \in Ids : \A r : SameKey(rows'[id], r) => id \notin ClosedBy(w) /\ SameKey(rows[id], r)
  BY <1>5, <1>6 DEF SameKey
<1>12. \A id \in Ids : ~SameKey(rows'[id], NewRow(w))
  BY <1>11 DEF IInv, NoTwinWaits
<1>13. IndexIsUnique'
  <2> SUFFICES ASSUME NEW i \in Ids', NEW j \in Ids', SameKey(rows'[i], rows'[j])
               PROVE  i = j
    BY DEF IndexIsUnique, SameKey
  <2>1. CASE i \in Ids /\ j \in Ids
    <3>1. SameKey(rows[i], rows'[j])
      BY <1>11, <2>1
    <3>2. SameKey(rows[j], rows[i])
      BY <1>11, <2>1, <3>1, SameKeySymmetric
    <3> QED
      BY <2>1, <3>2 DEF IInv, IndexIsUnique
  <2>2. CASE i \in Ids /\ j = new
    BY <1>2, <1>12, <2>2
  <2>3. CASE i = new /\ j \in Ids
    BY <1>2, <1>12, <2>3, SameKeySymmetric
  <2> QED
    BY <1>3, <2>1, <2>2, <2>3
<1>14. SupersededIsClosed'
  <2> SUFFICES ASSUME ~LinkedAppends, NEW id \in Ids', rows'[id].supersedes # Null
               PROVE  LET old == rows'[id].supersedes IN
                      /\ old \in Ids'
                      /\ ~(rows'[old].until = Null)
                      /\ NowWindows => rows'[old].until = rows'[id].from
    BY DEF SupersededIsClosed, Active
  <2> DEFINE old == rows'[id].supersedes
  <2>1. CASE id \in Ids
    <3>1. /\ old = rows[id].supersedes /\ old \in Ids /\ ~Active(old)
          /\ NowWindows => rows[old].until = rows[id].from
      BY <1>6, <2>1 DEF IInv, SupersededIsClosed
    <3>2. old \notin ClosedBy(w)
      BY <3>1 DEF IInv, RowLocks
    <3> QED
      BY <1>3, <1>6, <2>1, <3>1, <3>2 DEF Active
  <2>2. CASE id = new
    <3>1. txn[w].kind = "supersede"
      BY <1>1, <1>2, <1>9, <2>2 DEF Shape, Transaction
    <3>2. old = txn[w].old /\ old \in Ids /\ ClosedBy(w) = {old}
      BY <1>1, <1>2, <1>9, <2>2, <3>1 DEF Shape, ClosedBy
    <3>3. rows'[old].until = txn[w].start
      BY <1>6, <3>2
    <3> QED
      BY <1>2, <1>3, <1>5, <1>9, <2>2, <3>2, <3>3
  <2> QED
    BY <1>3, <2>1, <2>2
<1>15. (~LinkedAppends => LineagesAreChains)'
  <2> SUFFICES ASSUME ~LinkedAppends, NEW i \in Ids', NEW j \in Ids',
                      rows'[i].supersedes # Null, rows'[i].supersedes = rows'[j].supersedes
               PROVE  i = j
    BY DEF LineagesAreChains
  <2>1. ASSUME NEW id \in Ids, rows'[id].supersedes = rows'[new].supersedes,
               rows'[new].supersedes # Null
        PROVE  FALSE
    <3>1. txn[w].kind = "supersede" /\ rows[id].supersedes = txn[w].old
      BY <1>1, <1>2, <1>6, <1>9, <2>1 DEF Shape, Transaction
    <3>2. ~Active(txn[w].old)
      BY <1>2, <1>6, <1>9, <2>1, <3>1 DEF IInv, SupersededIsClosed
    <3>3. txn[w].old \in ClosedBy(w)
      BY <3>1 DEF ClosedBy
    <3> QED
      BY <3>2, <3>3 DEF IInv, RowLocks
  <2>2. CASE i \in Ids /\ j \in Ids
    BY <1>6, <2>2 DEF IInv, LineagesAreChains
  <2> QED
    BY <1>3, <2>1, <2>2
<1>16. /\ ~HasInserted(w)' /\ ClosedBy(w)' = {} /\ Shape(w)'
       /\ \A v \in Workers \ {w} : /\ ClosedBy(v)' = ClosedBy(v) /\ NewRow(v)' = NewRow(v)
                                   /\ HasInserted(v)' = HasInserted(v)
  BY <1>4 DEF HasInserted, ClosedBy, NewRow, Idle, Shape
<1>17. ASSUME NEW v \in Workers
       PROVE  Shape(v)'
  BY <1>3, <1>4, <1>16 DEF IInv, Shape
<1>18. ASSUME NEW v \in Workers \ {w}
       PROVE  RowLocks(v)'
  <2>1. \A id \in ClosedBy(v) : /\ id \in Ids /\ Active(id)
                                /\ rows[id].tenant = txn[v].tenant
                                /\ txn[v].start >= rows[id].from
                                /\ \A u \in Workers \ {v} : id \notin ClosedBy(u)
    BY DEF IInv, RowLocks
  <2>2. \A id \in ClosedBy(v) : /\ id \in Ids' /\ rows'[id].until = Null
                                /\ rows'[id].tenant = txn'[v].tenant
                                /\ txn'[v].start >= rows'[id].from
                                /\ \A u \in Workers \ {v} : id \notin ClosedBy(u)'
    BY <1>3, <1>4, <1>6, <1>16, <2>1 DEF Active
  <2> QED
    BY <1>16, <2>2 DEF RowLocks, Active
<1>19. ASSUME NEW v \in Workers \ {w}
       PROVE  NoTwinWaits(v)'
  <2> SUFFICES ASSUME HasInserted(v)
               PROVE  /\ \A id \in Ids' \ ClosedBy(v) : ~SameKey(rows'[id], NewRow(v))
                      /\ \A u \in Workers \ {v} : HasInserted(u)' => ~SameKey(NewRow(u)', NewRow(v))
    BY <1>16, <1>19 DEF NoTwinWaits, SameKey
  <2>1. \A id \in Ids \ ClosedBy(v) : ~SameKey(rows'[id], NewRow(v))
    BY <1>11 DEF IInv, NoTwinWaits
  <2>2. ~SameKey(NewRow(w), NewRow(v))
    BY <1>19 DEF IInv, NoTwinWaits
  <2>3. \A u \in Workers \ {v} : HasInserted(u)' => ~SameKey(NewRow(u)', NewRow(v))
    BY <1>16, <1>19 DEF IInv, NoTwinWaits
  <2> QED
    BY <1>2, <1>3, <2>1, <2>2, <2>3
<1>20. RowLocks(w)' /\ NoTwinWaits(w)'
  BY <1>16 DEF RowLocks, NoTwinWaits
<1> QED
  BY <1>7, <1>8, <1>10, <1>13, <1>14, <1>15, <1>17, <1>18, <1>19, <1>20 DEF IInv

\* Whatever touches neither the table nor a transaction keeps the invariant.
LEMMA NothingMoves ==
    ASSUME IInv, TypeOK', UNCHANGED <<rows, txn>>
    PROVE  IInv'
<1>1. Room'
  BY DEF IInv, Room, Writing
<1>2. Ids' = Ids /\ \A id : Active(id)' <=> Active(id)
  BY DEF Ids, Active
<1>3. IndexIsUnique' /\ ContentsAreTrimmed'
  BY <1>2 DEF IInv, IndexIsUnique, ContentsAreTrimmed, SameKey
<1>4. SupersededIsClosed'
  BY <1>2 DEF IInv, SupersededIsClosed
<1>5. (~LinkedAppends => LineagesAreChains)'
  BY <1>2 DEF IInv, LineagesAreChains
<1>6. \A w \in Workers : Shape(w)'
  BY <1>2 DEF IInv, Shape
<1>7. \A w : ClosedBy(w)' = ClosedBy(w) /\ NewRow(w)' = NewRow(w) /\ (HasInserted(w)' <=> HasInserted(w))
  BY DEF ClosedBy, NewRow, HasInserted
<1>8. \A w \in Workers : RowLocks(w)'
  BY <1>2, <1>7 DEF IInv, RowLocks
<1>9. \A w \in Workers : NoTwinWaits(w)'
  BY <1>2, <1>7 DEF IInv, NoTwinWaits, SameKey
<1> QED
  BY <1>1, <1>3, <1>4, <1>5, <1>6, <1>8, <1>9 DEF IInv

\* Time passes.
LEMMA TickKeeps ==
    ASSUME IInv, Tick
    PROVE  IInv'
<1>1. TypeOK'
  BY StoreAssumption DEF IInv, TypeOK, Tick, Time
<1> QED
  BY <1>1, NothingMoves DEF Tick

\* Every step keeps the invariant.
LEMMA NextKeeps ==
    ASSUME IInv, [Next]_vars
    PROVE  IInv'
<1>1. CASE UNCHANGED vars
  <2>1. TypeOK'
    BY <1>1 DEF vars, IInv, TypeOK
  <2> QED
    BY <1>1, <2>1, NothingMoves DEF vars
<1>2. ASSUME NEW w \in Workers, Advance(w) \/ GiveUp(w)
      PROVE  IInv'
  <2>1. CASE Commit(w)
    BY <2>1, PublishKeeps DEF Commit, HasInserted
  <2>2. CASE Settle(w)
    <3>1. CASE Publish(w)
      BY <2>2, <3>1, PublishKeeps DEF Settle, HasInserted
    <3>2. CASE UNCHANGED rows
      BY <2>2, <3>2, FailsKeeps DEF Settle, Fails
    <3> QED
      BY <2>2, <3>1, <3>2 DEF Settle
  <2>3. CASE Fails(w)
    BY <2>3, FailsKeeps
  <2>4. CASE GiveUp(w)
    BY <2>3, <2>4, AbandonKeeps DEF GiveUp
  <2> QED
    BY <1>2, <2>1, <2>2, <2>3, <2>4, CloseKeeps, InsertKeeps
    DEF Advance, CloseFails, InsertFails, Query, DeadlockDetected
<1> QED
  BY <1>1, <1>2, BeginsKeep, TickKeeps DEF Next

\* The inductive invariant holds of the store, whatever races.
LEMMA Invariant == Spec => []IInv
  BY StartIsSound, NextKeeps, PTL DEF Spec

-----------------------------------------------------------------------------
(* The theorems. *)

\* The store is well-typed, and no request finds it without the room it counted on.
THEOREM StoreTyped == Spec => []TypeOK
<1>1. IInv => TypeOK
  BY DEF IInv
<1> QED
  BY <1>1, Invariant, PTL

\* A tenant has one active fact of a content, whatever races and fails, as long
\* as trimming makes no two of the contents the same.
THEOREM OneActivePerContent ==
    ASSUME Untrimmed
    PROVE  Spec => []AtMostOneActive
<1>1. ASSUME IInv PROVE AtMostOneActive
  <2> SUFFICES ASSUME NEW i \in Ids, NEW j \in Ids, Active(i), Active(j),
                      rows[i].tenant = rows[j].tenant, rows[i].content = rows[j].content
               PROVE  i = j
    BY DEF AtMostOneActive
  <2>1. /\ rows[i].digest \in Contents /\ rows[j].digest \in Contents
        /\ Trimmed[rows[i].digest] = Trimmed[rows[j].digest]
    BY <1>1, RowsAreASequence DEF IInv, ContentsAreTrimmed, Row
  <2>2. rows[i].digest = rows[j].digest
    BY <2>1 DEF Untrimmed
  <2> QED
    BY <1>1, <2>2 DEF IInv, IndexIsUnique, SameKey, Active
<1> QED
  BY <1>1, Invariant, PTL

\* A fact is superseded once, as long as no append carries a link.
THEOREM ChainsOnly ==
    ASSUME ~LinkedAppends
    PROVE  Spec => []LineagesAreChains
<1>1. IInv => LineagesAreChains
  BY DEF IInv
<1> QED
  BY <1>1, Invariant, PTL

\* The end of a fact and the beginning of its replacement are one moment, which
\* no recall can fall into, nor see from both sides.
LEMMA HandoverIsOneMoment ==
    ASSUME IInv, ~LinkedAppends, NowWindows, NEW id \in Ids, rows[id].supersedes # Null
    PROVE  LET old == rows[id].supersedes IN
           /\ old \in Ids
           /\ rows[old].until = rows[id].from
           /\ rows[old].until # Null
           /\ rows[id].from \in Nat
<1>1. rows[id] \in Row
  BY RowsAreASequence DEF IInv
<1> QED
  BY <1>1, StoreAssumption DEF IInv, SupersededIsClosed, Active, Row, Time

\* No recall finds a fact and its replacement, whenever it began and its query
\* runs, if no append carries a link and no client chooses when a fact begins.
THEOREM NeverBoth ==
    ASSUME ~LinkedAppends, NowWindows
    PROVE  Spec => []NoRecallSeesBoth
<1>1. ASSUME IInv PROVE NoRecallSeesBoth
  <2> SUFFICES ASSUME NEW w \in Recalls, NEW id \in Ids, rows[id].supersedes # Null,
                      Sees(w, id), Sees(w, rows[id].supersedes)
               PROVE  FALSE
    BY DEF NoRecallSeesBoth
  <2>1. txn[w].start \in Nat
    BY <1>1, InFlightTyped, StoreAssumption DEF Recalls, IInv, Transaction, Time
  <2> QED
    BY <1>1, <2>1, HandoverIsOneMoment DEF Sees, Visible
<1> QED
  BY <1>1, Invariant, PTL

\* No recall misses both: one that the fact is too old for, finds the replacement begun.
THEOREM NeverNeither ==
    ASSUME ~LinkedAppends, NowWindows
    PROVE  Spec => []NoRecallSeesNeither
<1>1. ASSUME IInv PROVE NoRecallSeesNeither
  <2> SUFFICES ASSUME NEW w \in Recalls, NEW id \in Ids, rows[id].supersedes # Null,
                      rows[rows[id].supersedes].tenant = txn[w].tenant,
                      rows[rows[id].supersedes].from <= txn[w].start,
                      ~Sees(w, rows[id].supersedes)
               PROVE  rows[id].from <= txn[w].start
    BY DEF NoRecallSeesNeither
  <2>1. txn[w].start \in Nat
    BY <1>1, InFlightTyped, StoreAssumption DEF Recalls, IInv, Transaction, Time
  <2> QED
    BY <1>1, <2>1, HandoverIsOneMoment DEF Sees, Visible
<1> QED
  BY <1>1, Invariant, PTL

-----------------------------------------------------------------------------
(* The transactions implement FactLedger. *)

Facts == [id \in Ids |-> FactOf(rows[id])]

\* What a row says is a fact of FactLedger.
LEMMA FactsTyped ==
    ASSUME NEW row \in Row
    PROVE  FactOf(row) \in Ledger!Fact
<1>1. (row.until = Null) \in BOOLEAN
  OBVIOUS
<1>2. row.tenant \in Tenants /\ row.digest \in Contents
  BY DEF Row
<1> QED
  BY <1>1, <1>2 DEF FactOf, Ledger!Fact

\* Closing a fact closes what FactLedger has of it, and no more.
LEMMA ClosingOne ==
    ASSUME NEW row \in Row, NEW time \in Nat \ {0}
    PROVE  FactOf([row EXCEPT !.until = time]) = [FactOf(row) EXCEPT !.open = FALSE]
<1> DEFINE closed == [row EXCEPT !.until = time]
<1>1. closed.tenant = row.tenant /\ closed.digest = row.digest /\ closed.until = time
  BY DEF Row
<1>2. (time = Null) = FALSE
  BY DEF Null
<1> HIDE DEF closed
<1>3. FactOf(closed) = [tenant |-> row.tenant, digest |-> row.digest, open |-> FALSE]
  BY <1>1, <1>2 DEF FactOf
<1>4. [FactOf(row) EXCEPT !.open = FALSE] =
        [tenant |-> row.tenant, digest |-> row.digest, open |-> FALSE]
  <2>1. \A t, d, o, c : [[tenant |-> t, digest |-> d, open |-> o] EXCEPT !.open = c]
                        = [tenant |-> t, digest |-> d, open |-> c]
    OBVIOUS
  <2>2. PICK fact : fact = FactOf(row)
    OBVIOUS
  <2>3. PICK o : fact = [tenant |-> row.tenant, digest |-> row.digest, open |-> o]
    BY <2>2, Zenon DEF FactOf
  <2>4. \A c : [fact EXCEPT !.open = c] = [tenant |-> row.tenant, digest |-> row.digest, open |-> c]
    BY <2>1, <2>3
  <2> QED
    BY <2>2, <2>4, Zenon
<1> QED
  BY <1>3, <1>4 DEF closed

\* A publication is one step of FactLedger: it adds, or replaces, one fact.
LEMMA PublishImplements ==
    ASSUME IInv, NEW w \in Workers, HasInserted(w), Publish(w)
    PROVE  Ledger!Next
<1> DEFINE new == Len(rows) + 1
<1>1. /\ txn[w].phase # "idle" /\ txn[w] \in Transaction /\ TypeOK /\ Shape(w)
      /\ txn[w].start \in Nat \ {0}
  BY InFlightTyped, StoreAssumption DEF HasInserted, IInv, Transaction, Time
<1>2. /\ rows' \in Seq(Row) /\ Len(rows') = new /\ Ids' = 1..new /\ rows'[new] = NewRow(w)
      /\ \A id \in Ids : rows'[id] = IF id \in ClosedBy(w)
                                     THEN [rows[id] EXCEPT !.until = txn[w].start]
                                     ELSE rows[id]
  BY <1>1, Published
<1>3. /\ Len(rows) \in Nat /\ Ids = 1..Len(rows)
      /\ \A id \in Ids : rows[id] \in Row
  BY <1>1, RowsAreASequence
<1>4. PICK f \in Ledger!Fact : f = FactOf(NewRow(w))
  <2>1. NewRow(w) \in Row
    BY <1>1, NewRowTyped
  <2>2. FactOf(NewRow(w)) \in Ledger!Fact
    BY <2>1, FactsTyped
  <2> QED
    BY <2>2
<1>5. Facts \in Seq(Ledger!Fact) /\ Len(Facts) = Len(rows) /\ DOMAIN Facts = Ids
  <2>1. Facts \in [1..Len(rows) -> Ledger!Fact]
    BY <1>3 DEF Facts, FactOf, Row, Ledger!Fact
  <2> QED
    BY <1>3, <2>1
<1>6. /\ Facts' \in Seq(Ledger!Fact) /\ Len(Facts') = new
      /\ Facts'[new] = f
      /\ \A id \in Ids : Facts'[id] = FactOf(rows'[id])
  <2>1. \A id \in Ids' : rows'[id] \in Row
    BY <1>2
  <2>2. Facts' \in [1..new -> Ledger!Fact]
    BY <1>2, <2>1 DEF Facts, FactOf, Row, Ledger!Fact
  <2> QED
    BY <1>2, <1>3, <1>4, <2>2 DEF Facts
<1>7. \A id \in Ids \ ClosedBy(w) : ~Ledger!OpenTwin(f, Facts[id])
  BY <1>4 DEF IInv, NoTwinWaits, SameKey, Facts, FactOf, Ledger!OpenTwin
<1>8. CASE ClosedBy(w) = {}
  <2>1. Facts' = Append(Facts, f)
    <3>1. \A id \in 1..new : Facts'[id] = Append(Facts, f)[id]
      BY <1>2, <1>3, <1>5, <1>6, <1>8 DEF Facts
    <3> QED
      BY <1>3, <1>5, <1>6, <3>1, SeqEqual, AppendProperties
  <2>2. Ledger!Add(f)
    BY <1>5, <1>7, <1>8, <2>1 DEF Ledger!Add, Ledger!Admissible, Facts
  <2> QED
    BY <2>2 DEF Ledger!Next
<1>9. CASE ClosedBy(w) # {}
  <2> DEFINE old == txn[w].old
             closed == [Facts EXCEPT ![old].open = FALSE]
  <2>1. /\ ClosedBy(w) = {old} /\ old \in Ids /\ Active(old)
        /\ rows[old].tenant = txn[w].tenant
    BY <1>1, <1>9, ClosesOldOnly DEF IInv, RowLocks
  <2>2. closed \in Seq(Ledger!Fact) /\ Len(closed) = Len(rows)
    <3>1. Facts[old] \in Ledger!Fact
      BY <1>3, <1>5, <2>1
    <3>2. [Facts[old] EXCEPT !.open = FALSE] \in Ledger!Fact
      BY <3>1 DEF Ledger!Fact
    <3> QED
      BY <1>3, <1>5, <2>1, <3>2
  <2>3. \A id \in Ids : Facts'[id] = closed[id]
    <3> SUFFICES ASSUME NEW id \in Ids PROVE Facts'[id] = closed[id]
      OBVIOUS
    <3>1. CASE id = old
      <4>1. FactOf(rows'[old]) = [FactOf(rows[old]) EXCEPT !.open = FALSE]
        <5>1. rows[old] \in Row /\ rows'[old] = [rows[old] EXCEPT !.until = txn[w].start]
          BY <1>2, <1>3, <2>1
        <5> QED
          BY <1>1, <5>1, ClosingOne, Zenon
      <4>2. Facts'[id] = FactOf(rows'[old]) /\ Facts[old] = FactOf(rows[old])
        BY <1>6, <2>1, <3>1 DEF Facts
      <4>3. closed[old] = [Facts[old] EXCEPT !.open = FALSE]
        BY <1>5, <2>1
      <4> QED
        BY <3>1, <4>1, <4>2, <4>3
    <3>2. CASE id # old
      BY <1>2, <1>5, <1>6, <2>1, <3>2 DEF Facts
    <3> QED
      BY <3>1, <3>2
  <2>4. Facts' = Append(closed, f)
    <3> HIDE DEF closed
    <3>1. \A id \in 1..new : Facts'[id] = Append(closed, f)[id]
      BY <1>2, <1>3, <1>6, <2>2, <2>3
    <3> QED
      BY <1>3, <1>6, <2>2, <3>1, SeqEqual, AppendProperties
  <2>5. Facts[old].open /\ Facts[old].tenant = f.tenant
    BY <1>1, <1>4, <2>1, NewRowTyped DEF Facts, FactOf, Active
  <2>6. Ledger!Replace(old, f)
    BY <1>5, <1>7, <2>1, <2>4, <2>5 DEF Ledger!Replace, Ledger!Admissible, Facts
  <2> QED
    BY <1>5, <2>1, <2>6 DEF Ledger!Next, Facts
<1> QED
  BY <1>8, <1>9

\* The store implements the ledger of facts: whatever transactions race, fail
\* or settle late, the facts change as FactLedger has them change.
THEOREM StoreImplementsLedger == Spec => LedgerSpec
<1>1. Init => Ledger!Init
  <2> SUFFICES ASSUME Init PROVE Facts = <<>>
    BY DEF Ledger!Init, Facts
  <2>1. Ids = {}
    BY DEF Init, Ids
  <2> QED
    BY <2>1 DEF Facts
<1>2. IInv /\ [Next]_vars => [Ledger!Next]_Facts
  <2> SUFFICES ASSUME IInv, [Next]_vars PROVE Ledger!Next \/ UNCHANGED Facts
    OBVIOUS
  <2>1. UNCHANGED rows => UNCHANGED Facts
    BY DEF Facts, FactOf, Ids
  <2>2. ASSUME NEW w \in Workers, Commit(w) \/ Settle(w)
        PROVE  Ledger!Next \/ UNCHANGED Facts
    BY <2>1, <2>2, PublishImplements DEF Commit, Settle, HasInserted
  <2>3. ASSUME NEW w \in Workers, AppendClaim(w) \/ SupersedeClaim(w) \/ Recall(w)
        PROVE  UNCHANGED rows
    BY <2>3 DEF AppendClaim, SupersedeClaim, Recall, Begin
  <2>4. ASSUME NEW w \in Workers, GiveUp(w) \/ Advance(w), ~Commit(w), ~Settle(w)
        PROVE  UNCHANGED rows
    BY <2>4 DEF GiveUp, Advance, Close, CloseFails, Insert, InsertFails, Query,
                DeadlockDetected, Fails, Moves
  <2> QED
    BY <2>1, <2>2, <2>3, <2>4 DEF Next, Tick, vars
<1> QED
  BY <1>1, <1>2, Invariant, PTL DEF Spec, LedgerSpec, Ledger!Spec, Facts

-----------------------------------------------------------------------------
(* The fused recall. *)

\* The requests, answers and failures of a recall leave the store alone, and
\* the writes that race with it are the store's own.
LEMMA FusedIsStore == FusedSpec => Spec
<1>1. FusedInit => Init
  BY DEF FusedInit
<1>2. [FusedNext]_fusedVars => [Next]_vars
  BY DEF FusedNext, Write, Next, fusedVars, vars
<1> QED
  BY <1>1, <1>2, PTL DEF FusedSpec, Spec

\* The store implements FactLedger while fused recalls run, explicit windows and
\* linked appends included.
THEOREM FusedStoreImplementsLedger == FusedSpec => LedgerSpec
  BY FusedIsStore, StoreImplementsLedger

\* Facts stay, and but for the end of an open one as they are.
LEMMA FactsKeep ==
    ASSUME IInv, [Next]_vars
    PROVE  /\ Len(rows) \in Nat /\ Len(rows') \in Nat /\ Len(rows) <= Len(rows')
           /\ Ids = 1..Len(rows) /\ Ids' = 1..Len(rows')
           /\ \A id \in Ids :
                /\ rows'[id].tenant = rows[id].tenant
                /\ rows'[id].content = rows[id].content
                /\ rows'[id].from = rows[id].from
                /\ rows'[id].until = rows[id].until \/ rows[id].until = Null
<1>1. Len(rows) \in Nat /\ Ids = 1..Len(rows) /\ \A id \in Ids : rows[id] \in Row
  BY RowsAreASequence DEF IInv
<1>2. CASE UNCHANGED rows
  BY <1>1, <1>2 DEF Ids
<1>3. ASSUME NEW w \in Workers, Commit(w) \/ Settle(w), ~UNCHANGED rows
      PROVE  /\ Len(rows') = Len(rows) + 1 /\ Ids' = 1..(Len(rows) + 1)
             /\ \A id \in Ids :
                  /\ rows'[id].tenant = rows[id].tenant
                  /\ rows'[id].content = rows[id].content
                  /\ rows'[id].from = rows[id].from
                  /\ rows'[id].until = rows[id].until \/ rows[id].until = Null
  <2>1. Publish(w) /\ txn[w].phase # "idle"
    BY <1>3 DEF Commit, Settle
  <2>2. /\ Len(rows') = Len(rows) + 1 /\ Ids' = 1..(Len(rows) + 1)
        /\ \A id \in Ids : rows'[id] = IF id \in ClosedBy(w)
                                       THEN [rows[id] EXCEPT !.until = txn[w].start]
                                       ELSE rows[id]
    BY <2>1, Published DEF IInv
  <2>3. \A id \in ClosedBy(w) : rows[id].until = Null
    BY DEF IInv, RowLocks, Active
  <2> QED
    BY <1>1, <2>2, <2>3 DEF Row
<1>4. ASSUME NEW w \in Workers, AppendClaim(w) \/ SupersedeClaim(w) \/ Recall(w)
      PROVE  UNCHANGED rows
  BY <1>4 DEF AppendClaim, SupersedeClaim, Recall, Begin
<1>5. ASSUME NEW w \in Workers, GiveUp(w) \/ Advance(w), ~Commit(w), ~Settle(w)
      PROVE  UNCHANGED rows
  BY <1>5 DEF GiveUp, Advance, Close, CloseFails, Insert, InsertFails, Query,
              DeadlockDetected, Fails, Moves
<1>6. UNCHANGED rows \/ \E w \in Workers : Commit(w) \/ Settle(w)
  BY <1>4, <1>5 DEF Next, Tick, vars
<1> QED
  BY <1>1, <1>2, <1>3, <1>6

\* The instance of Recall lists a set as this module does.
LEMMA SameListings == \A S : Fusion!SetToSeqs(S) = SetToSeqs(S)
<1>1. \A S : Fusion!Cardinality(S) = Cardinality(S)
  BY DEF Fusion!Cardinality, Cardinality
<1> QED
  BY <1>1 DEF Fusion!SetToSeqs, SetToSeqs

\* A sequence that lists a finite set has each of its elements in one place.
LEMMA ListingCovers ==
    ASSUME NEW S, IsFiniteSet(S), NEW s \in SetToSeqs(S)
    PROVE  s \in Seq(S) /\ \A m \in S : \E n \in 1..Len(s) : m = s[n]
<1> DEFINE n == Cardinality(S)
<1>1. n \in Nat
  BY FS_CardinalityType
<1>2. s \in [1..n -> S] /\ \A i, j \in 1..n : i # j => s[i] # s[j]
  BY DEF SetToSeqs
<1>3. Cardinality(1..n) = n
  BY <1>1, FS_Interval
<1>4. s \in Injection(1..n, S)
  BY <1>2 DEF Injection, IsInjective
<1>5. s \in Surjection(1..n, S)
  BY <1>3, <1>4, FS_Injection
<1> QED
  BY <1>1, <1>2, <1>5 DEF Surjection

\* A non-empty set of finite sets has one that contains no other.
LEMMA SmallestSet ==
    ASSUME NEW S, IsFiniteSet(S), NEW F, F \subseteq SUBSET S, F # {}
    PROVE  \E s \in F : \A t \in F : t \subseteq s => t = s
<1> DEFINE below == StrictSubsetOrdering(S)
           finite == FiniteSubsetsOf(S)
<1>1. F \subseteq finite
  BY FS_Subset DEF FiniteSubsetsOf
<1>2. IsWellFoundedOn(below, finite)
  BY FS_StrictSubsetOrderingWellFounded
<1>3. \A s, t \in F : t \subseteq s /\ t # s => <<t, s>> \in below
  BY DEF StrictSubsetOrdering
<1> HIDE DEF below, finite
<1>4. \E s \in F : \A t \in F : ~(<<t, s>> \in below)
  BY <1>1, <1>2, WFMin, Zenon
<1> QED
  BY <1>3, <1>4

\* Deduplication leaves a memory of each content.
LEMMA ContentsStay ==
    ASSUME NEW s, NEW len \in Nat, DOMAIN s = 1..len, NEW i \in 1..len
    PROVE  \E m \in Fusion!FirstOfContent(s) : Normal[m.content] = Normal[s[i].content]
<1> DEFINE Same(j) == Normal[s[j].content] = Normal[s[i].content]
           F == {1..j : j \in {k \in 1..i : Same(k)}}
<1> HIDE DEF Same
<1>1. Same(i)
  BY DEF Same
<1>2. PICK t \in F : \A u \in F : u \subseteq t => u = t
  <2>1. 1..i \in F
    BY <1>1
  <2>2. \A j \in 1..i : 1..j \subseteq 1..i
    OBVIOUS
  <2>3. F \subseteq SUBSET (1..i)
    BY <2>2
  <2>4. IsFiniteSet(1..i)
    BY FS_Interval
  <2> DEFINE S == 1..i
  <2> HIDE DEF F, S
  <2>5. F \subseteq SUBSET S /\ F # {} /\ IsFiniteSet(S)
    BY <2>1, <2>3, <2>4 DEF S
  <2> QED
    BY <2>5, SmallestSet
<1>3. PICK j \in 1..i : Same(j) /\ t = 1..j
  OBVIOUS
<1>4. \A k \in 1..(j - 1) : ~Same(k)
  <2> SUFFICES ASSUME NEW k \in 1..(j - 1), Same(k) PROVE FALSE
    OBVIOUS
  <2>1. k \in 1..i /\ k < j /\ j \in Nat /\ k \in Nat
    OBVIOUS
  <2>2. 1..k \in F /\ 1..k \subseteq 1..j
    BY <2>1
  <2>3. 1..k = 1..j
    BY <1>2, <1>3, <2>2
  <2>4. j \in 1..j /\ j \notin 1..k
    BY <2>1
  <2> QED
    BY <2>3, <2>4
<1>5. j \in DOMAIN s /\ Normal[s[j].content] = Normal[s[i].content]
      /\ \A k \in 1..(j - 1) : Normal[s[k].content] # Normal[s[j].content]
  BY <1>3, <1>4 DEF Same
<1> QED
  BY <1>5 DEF Fusion!FirstOfContent

-----------------------------------------------------------------------------
(* What a fused recall remembers of its request, and what becomes of it. *)

QueryFields ==
    {"tenant", "limit", "semanticWeight", "namespace", "types", "permissions", "maxTokens",
     "preferRecent", "penalties", "start", "now", "live", "stored"}

\* While a recall is under way, `live` names what its query would have found
\* when the request began, but for what has been closed since.
Asking ==
    phase # "idle" =>
        /\ DOMAIN query = QueryFields
        /\ query.limit \in 1..100 /\ query.semanticWeight \in 0..100
        /\ query.stored \in 0..Len(rows)
        /\ \A id \in 1..query.stored : Visible(id, query.tenant, query.start) => id \in query.live
        /\ \A id \in query.live :
              /\ id \in 1..query.stored
              /\ rows[id].tenant = query.tenant /\ rows[id].from <= query.start

\* A candidate is a fact as it was when the query ran: open, perhaps, though it
\* has been closed since.
Represents(m, id) ==
    /\ m.tenant = query.tenant /\ m.content = rows[id].content /\ m.from = rows[id].from
    /\ m.until \in {Null, rows[id].until}
    /\ ~m.superseded
    /\ m.namespace = "default" /\ m.type = "semantic" /\ m.permission = NoPermission

CutOff(id) ==
    /\ Len(given) = query.limit
    /\ \A m \in Range(given) : Score(m.content) >= Score(rows[id].content)

\* What the query has found is current, and lacks only what LIMIT cut off.
Finding ==
    /\ phase \notin {"idle", "asked"} =>
          /\ \A n \in DOMAIN given :
                /\ given[n].tenant = query.tenant
                /\ given[n].id \in query.live \/ given[n].id > query.stored
          /\ \A id \in query.live :
                rows[id].until = Null \/ rows[id].until > query.start =>
                    (\E n \in DOMAIN given : Represents(given[n], id)) \/ CutOff(id)

\* The fusion adds nothing to it, and leaves out a content only when it says so.
Fusing ==
    /\ pack \in Seq(Range(given)) /\ pool \subseteq Range(given)
    /\ phase = "packed" => pool = {}
    /\ phase \in {"packing", "packed"} /\ ~truncated =>
          \A n \in DOMAIN given : Fusion!AuthorizedAndValid(query, given[n]) =>
              \E m \in pool \cup Range(pack) : Normal[m.content] = Normal[given[n].content]

FusedIInv ==
    /\ phase \in {"idle", "asked", "found", "given", "packing", "packed"}
    /\ given \in Seq(Range(given))
    /\ phase \in {"idle", "asked"} => given = <<>> /\ pool = {} /\ pack = <<>>
    /\ phase \in {"found", "given"} => pool = {} /\ pack = <<>>
    /\ Asking /\ Finding /\ Fusing

\* It holds of an idle process.
LEMMA IdleIsSound ==
    ASSUME phase = "idle", given = <<>>, pool = {}, pack = <<>>
    PROVE  FusedIInv
  BY EmptySeq DEF FusedIInv, Asking, Finding, Fusing

\* Writes that race with a recall take nothing from what it has found.
LEMMA WritesKeepRecall ==
    ASSUME IInv, FusedIInv, [Next]_vars, UNCHANGED fusionVars
    PROVE  FusedIInv'
<1>1. UNCHANGED <<query, given, phase, pool, pack, total, truncated>>
  BY DEF fusionVars
<1>2. CASE phase = "idle"
  BY <1>1, <1>2, EmptySeq DEF FusedIInv, Asking, Finding, Fusing
<1>3. CASE phase # "idle"
  <2>1. /\ Len(rows) \in Nat /\ Len(rows') \in Nat /\ Len(rows) <= Len(rows')
        /\ \A id \in 1..Len(rows) :
                /\ rows'[id].tenant = rows[id].tenant
                /\ rows'[id].content = rows[id].content
                /\ rows'[id].from = rows[id].from
                /\ rows'[id].until = rows[id].until \/ rows[id].until = Null
    BY FactsKeep
  <2>2. Asking'
    <3>1. query.stored \in 0..Len(rows') /\ query.stored \in 0..Len(rows)
      BY <1>3, <2>1 DEF FusedIInv, Asking
    <3>2. \A id \in 1..query.stored :
              Visible(id, query.tenant, query.start)' => Visible(id, query.tenant, query.start)
      BY <1>1, <2>1, <3>1 DEF Visible
    <3> QED
      BY <1>1, <1>3, <2>1, <3>1, <3>2 DEF FusedIInv, Asking, Visible
  <2>3. query.live \subseteq 1..Len(rows)
    BY <1>3, <2>1 DEF FusedIInv, Asking
  <2>4. \A id \in query.live : \A m : Represents(m, id) => Represents(m, id)'
    BY <1>1, <2>1, <2>3 DEF Represents
  <2>5. \A id \in query.live : CutOff(id) => CutOff(id)'
    BY <1>1, <2>1, <2>3 DEF CutOff, Score, Range
  <2>6. Finding'
    BY <1>1, <2>1, <2>3, <2>4, <2>5 DEF FusedIInv, Finding
  <2>7. Fusing'
    BY <1>1 DEF FusedIInv, Fusing, Range, Fusion!AuthorizedAndValid, Fusion!Live
  <2> QED
    BY <1>1, <2>2, <2>6, <2>7 DEF FusedIInv
<1> QED
  BY <1>2, <1>3

\* The handler begins: what is live is what a query would find now.
LEMMA AskKeeps ==
    ASSUME IInv, FusedIInv, Ask, UNCHANGED vars
    PROVE  FusedIInv'
<1>1. PICK r \in Requests :
        /\ ValidRequest(r)
        /\ query' = [tenant |-> r.tenant, limit |-> r.limit, semanticWeight |-> r.semanticWeight,
                     namespace |-> r.namespace, types |-> r.types, permissions |-> {},
                     maxTokens |-> r.maxTokens, preferRecent |-> r.preferRecent,
                     penalties |-> Penalties, start |-> clock, now |-> Null,
                     live |-> LiveNow(r.tenant), stored |-> Len(rows)]
  BY DEF Ask
<1>2. /\ phase' = "asked" /\ phase = "idle"
      /\ UNCHANGED <<rows, clock, given, pool, pack>>
  BY DEF Ask, vars
<1>3. /\ DOMAIN query' = QueryFields
      /\ query'.limit = r.limit /\ query'.semanticWeight = r.semanticWeight
      /\ query'.tenant = r.tenant /\ query'.start = clock
      /\ query'.live = LiveNow(r.tenant) /\ query'.stored = Len(rows)
  BY <1>1 DEF QueryFields
<1>4. Len(rows) \in Nat /\ Ids = 1..Len(rows) /\ \A id \in Ids : rows[id] \in Row
  BY RowsAreASequence DEF IInv
<1>5. clock \in Nat
  BY StoreAssumption DEF IInv, TypeOK, Time
<1>6. Asking'
  <2>1. \A id \in 1..Len(rows) : Visible(id, r.tenant, clock) => id \in LiveNow(r.tenant)
    BY <1>4, <1>5 DEF Visible, LiveNow, Null, Row
  <2>2. \A id \in LiveNow(r.tenant) :
            id \in 1..Len(rows) /\ rows[id].tenant = r.tenant /\ rows[id].from <= clock
    BY <1>4 DEF LiveNow
  <2> QED
    BY <1>1, <1>2, <1>3, <1>4, <2>1, <2>2 DEF Asking, ValidRequest, Visible
<1>7. given = <<>> /\ pool = {} /\ pack = <<>>
  BY <1>2 DEF FusedIInv
<1> QED
  BY <1>2, <1>6, <1>7, EmptySeq DEF FusedIInv, Finding, Fusing

\* The clock is read into the request, and nothing else of it changes.
LEMMA ReadClockKeeps ==
    ASSUME FusedIInv, ReadClock, UNCHANGED vars
    PROVE  FusedIInv'
<1>1. /\ phase = "found" /\ phase' = "given" /\ query' = [query EXCEPT !.now = clock + ahead]
      /\ UNCHANGED <<rows, given, pool, pack>>
  BY DEF ReadClock, vars
<1>2. DOMAIN query = QueryFields
  BY <1>1 DEF FusedIInv, Asking
<1>3. /\ DOMAIN query' = QueryFields
      /\ query'.limit = query.limit /\ query'.semanticWeight = query.semanticWeight
      /\ query'.tenant = query.tenant /\ query'.start = query.start
      /\ query'.live = query.live /\ query'.stored = query.stored
  BY <1>1, <1>2 DEF QueryFields
<1>4. Asking'
  BY <1>1, <1>3 DEF FusedIInv, Asking, Visible
<1>5. \A m, id : Represents(m, id)' <=> Represents(m, id)
  BY <1>1, <1>3 DEF Represents
<1>6. \A id : CutOff(id)' <=> CutOff(id)
  BY <1>1, <1>3 DEF CutOff, Score, Range
<1>7. Finding'
  BY <1>1, <1>3, <1>5, <1>6 DEF FusedIInv, Finding
<1>8. Fusing'
  BY <1>1 DEF FusedIInv, Fusing
<1> QED
  BY <1>1, <1>4, <1>7, <1>8 DEF FusedIInv

\* The fusion changes neither the request nor what was found.
LEMMA FusionSteps ==
    ASSUME FusedIInv, Pack, UNCHANGED vars,
           phase \in {"given", "packing"}, phase' \in {"packing", "packed"}, Fusing'
    PROVE  FusedIInv'
<1>1. UNCHANGED <<rows, query, given>>
  BY DEF Pack, vars, Fusion!Rank, Fusion!Take, Fusion!Skip, Fusion!Finish
<1>2. Asking'
  BY <1>1 DEF FusedIInv, Asking, Visible
<1>3. Finding'
  BY <1>1 DEF FusedIInv, Finding, Represents, CutOff, Score, Range
<1>4. Range(given)' = Range(given)
  BY <1>1 DEF Range
<1> QED
  BY <1>1, <1>2, <1>3, <1>4 DEF FusedIInv

\* Ranking keeps every content that the filters admit.
LEMMA RankKeeps ==
    ASSUME FusedIInv, Fusion!Rank, UNCHANGED vars
    PROVE  FusedIInv'
<1>1. PICK s \in Fusion!SetToSeqs(Fusion!Admitted) : pool' = Fusion!FirstOfContent(s)
  BY DEF Fusion!Rank, Fusion!Sorted
<1>2. /\ phase = "given" /\ phase' = "packing" /\ pack = <<>>
      /\ UNCHANGED <<rows, query, given, pack, truncated>>
  BY DEF Fusion!Rank, FusedIInv, vars
<1>3. s \in Seq(Fusion!Admitted) /\ \A m \in Fusion!Admitted : \E n \in 1..Len(s) : m = s[n]
  <2>1. DOMAIN given = 1..Len(given) /\ Len(given) \in Nat
    BY DEF FusedIInv
  <2>2. given \in Surjection(1..Len(given), Range(given))
    BY <2>1 DEF FusedIInv, Surjection, Range
  <2>3. Fusion!Admitted \subseteq Range(given)
    BY DEF Fusion!Admitted, Fusion!Range, Range
  <2>4. IsFiniteSet(Fusion!Admitted)
    BY <2>1, <2>2, <2>3, FS_Interval, FS_Surjection, FS_Subset
  <2> QED
    BY <1>1, <2>4, SameListings, ListingCovers
<1>4. \A m \in Fusion!Admitted : m \in Range(given)
  BY DEF Fusion!Admitted, Fusion!Range, Range
<1>5. pool' \subseteq Range(given)
  BY <1>1, <1>3, <1>4 DEF Fusion!FirstOfContent
<1>6. ASSUME NEW n \in DOMAIN given, Fusion!AuthorizedAndValid(query, given[n])
      PROVE  \E m \in pool' : Normal[m.content] = Normal[given[n].content]
  <2>1. given[n] \in Fusion!Admitted
    BY <1>6 DEF Fusion!Admitted, Fusion!Range
  <2>2. PICK i \in 1..Len(s) : given[n] = s[i]
    BY <1>3, <2>1
  <2>3. Len(s) \in Nat /\ DOMAIN s = 1..Len(s)
    BY <1>3
  <2> QED
    BY <1>1, <2>2, <2>3, ContentsStay
<1>7. Fusing'
  BY <1>2, <1>5, <1>6 DEF FusedIInv, Fusing, Range
<1> QED
  BY <1>2, <1>7, FusionSteps DEF Pack

\* What leaves the pool joins the pack.
LEMMA TakeKeeps ==
    ASSUME FusedIInv, Fusion!Take, UNCHANGED vars
    PROVE  FusedIInv'
<1>1. PICK m \in pool : pool' = pool \ {m} /\ pack' = Append(pack, m)
  BY DEF Fusion!Take
<1>2. /\ phase = "packing" /\ phase' = "packing"
      /\ UNCHANGED <<rows, query, given, truncated>>
  BY DEF Fusion!Take, vars
<1>3. m \in Range(given) /\ pack \in Seq(Range(given))
  BY <1>1 DEF FusedIInv, Fusing
<1>4. pack' \in Seq(Range(given)) /\ Range(pack') = Range(pack) \cup {m}
  <2>1. /\ pack' \in Seq(Range(given)) /\ Len(pack') = Len(pack) + 1 /\ Len(pack) \in Nat
        /\ \A i \in 1..Len(pack) : pack'[i] = pack[i]
        /\ pack'[Len(pack) + 1] = m
    BY <1>1, <1>3, AppendProperties
  <2>2. DOMAIN pack = 1..Len(pack) /\ DOMAIN pack' = 1..(Len(pack) + 1)
    BY <1>3, <2>1
  <2>3. DOMAIN pack' = DOMAIN pack \cup {Len(pack) + 1}
    BY <2>1, <2>2
  <2> QED
    BY <2>1, <2>2, <2>3 DEF Range
<1>5. pool \cup Range(pack) = pool' \cup Range(pack')
  BY <1>1, <1>4
<1>6. Fusing'
  <2>1. Range(given)' = Range(given)
    BY <1>2 DEF Range
  <2>2. pool' \subseteq Range(given)
    BY <1>1 DEF FusedIInv, Fusing
  <2>3. ASSUME ~truncated, NEW n \in DOMAIN given, Fusion!AuthorizedAndValid(query, given[n])
        PROVE  \E c \in pool' \cup Range(pack') : Normal[c.content] = Normal[given[n].content]
    BY <1>2, <1>5, <2>3 DEF FusedIInv, Fusing
  <2>4. Range(pack)' = Range(pack')
    BY DEF Range
  <2> QED
    BY <1>2, <1>4, <2>1, <2>2, <2>3, <2>4 DEF Fusing
<1> QED
  BY <1>2, <1>6, FusionSteps DEF Pack

\* What is dropped is told of, and the loop ends with an empty pool.
LEMMA SkipAndFinishKeep ==
    ASSUME FusedIInv, Fusion!Skip \/ Fusion!Finish, UNCHANGED vars
    PROVE  FusedIInv'
<1>1. CASE Fusion!Skip
  <2>1. /\ phase = "packing" /\ phase' = "packing" /\ truncated' = TRUE
        /\ pool' \subseteq pool /\ UNCHANGED <<given, pack>>
    BY <1>1 DEF Fusion!Skip
  <2>2. Fusing'
    BY <2>1 DEF FusedIInv, Fusing
  <2> QED
    BY <1>1, <2>1, <2>2, FusionSteps DEF Pack
<1>2. CASE Fusion!Finish
  <2>1. /\ phase = "packing" /\ phase' = "packed" /\ pool = {}
        /\ UNCHANGED <<query, given, pool, pack, truncated>>
    BY <1>2 DEF Fusion!Finish
  <2>2. Fusing'
    BY <2>1 DEF FusedIInv, Fusing
  <2> QED
    BY <1>2, <2>1, <2>2, FusionSteps DEF Pack
<1> QED
  BY <1>1, <1>2

-----------------------------------------------------------------------------
(* The query. *)

\* A score is a number.
LEMMA ScoreType ==
    ASSUME query.semanticWeight \in 0..100, NEW content \in Contents
    PROVE  Score(content) \in Int
<1>1. query.semanticWeight \in Int /\ Facets[content].semantic \in Int /\ Facets[content].lexical \in Int
  BY FusedAssumption
<1> DEFINE a == query.semanticWeight
           b == Facets[content].semantic
           c == Facets[content].lexical
<1>2. Score(content) = a * b + (100 - a) * c
  BY DEF Score
<1> HIDE DEF a, b, c
<1>3. a \in Int /\ b \in Int /\ c \in Int
  BY <1>1 DEF a, b, c
<1>4. a * b \in Int /\ (100 - a) * c \in Int
  BY <1>3
<1> QED
  BY <1>2, <1>4

\* The smaller of two numbers.
LEMMA MinOfTwo ==
    ASSUME NEW m \in Nat, NEW n \in Nat
    PROVE  Min({m, n}) = IF m <= n THEN m ELSE n
<1>1. \E x \in {m, n} : \A y \in {m, n} : x <= y
  OBVIOUS
<1>2. Min({m, n}) \in {m, n} /\ \A y \in {m, n} : Min({m, n}) <= y
  BY <1>1 DEF Min
<1> QED
  BY <1>2

\* The query finds what is current; what it leaves out, LIMIT cut off.
LEMMA SearchKeeps ==
    ASSUME IInv, FusedIInv, Search, UNCHANGED vars
    PROVE  FusedIInv'
<1>1. /\ phase = "asked" /\ phase' = "found"
      /\ UNCHANGED <<rows, query, pool, pack, truncated>>
      /\ pool = {} /\ pack = <<>>
  BY DEF Search, FusedIInv, vars
<1>2. PICK s \in Rankings : given' = [n \in 1..Min({Len(s), query.limit}) |-> Candidate(s[n])]
  BY DEF Search
<1>3. /\ query.limit \in 1..100 /\ query.semanticWeight \in 0..100 /\ query.stored \in 0..Len(rows)
      /\ \A id \in 1..query.stored : Visible(id, query.tenant, query.start) => id \in query.live
      /\ \A id \in query.live :
            id \in 1..query.stored /\ rows[id].tenant = query.tenant /\ rows[id].from <= query.start
  BY <1>1 DEF FusedIInv, Asking
<1>4. Len(rows) \in Nat /\ Ids = 1..Len(rows) /\ \A id \in Ids : rows[id] \in Row
  BY RowsAreASequence DEF IInv
<1>5. s \in Seq(Found) /\ \A m \in Found : \E n \in 1..Len(s) : m = s[n]
  <2>1. Found \subseteq 1..Len(rows) /\ IsFiniteSet(1..Len(rows))
    BY <1>4, FS_Interval DEF Found
  <2>2. IsFiniteSet(Found)
    BY <2>1, FS_Subset
  <2> QED
    BY <2>2, ListingCovers DEF Rankings
<1>6. Len(s) \in Nat /\ DOMAIN s = 1..Len(s) /\ \A n \in 1..Len(s) : s[n] \in Found
  BY <1>5
<1> DEFINE cut == Min({Len(s), query.limit})
<1>7. query.limit \in Nat /\ cut = IF Len(s) <= query.limit THEN Len(s) ELSE query.limit
  <2>1. query.limit \in 1..100
    BY <1>3
  <2>2. query.limit \in Nat
    BY <2>1
  <2> QED
    BY <1>6, <2>2, MinOfTwo
<1>8. given' = [n \in 1..cut |-> Candidate(s[n])]
  BY <1>2
<1> HIDE DEF cut
<1>9. cut \in Nat /\ 1..cut \subseteq 1..Len(s)
  BY <1>6, <1>7
<1>10. Asking'
  BY <1>1 DEF FusedIInv, Asking, Visible
<1>11. ASSUME NEW n \in 1..cut
       PROVE  /\ given'[n].tenant = query.tenant
              /\ given'[n].id \in query.live \/ given'[n].id > query.stored
              /\ given'[n].id = s[n] /\ s[n] \in Found /\ given'[n].content = rows[s[n]].content
              /\ Represents(given'[n], s[n])
  <2>1. given'[n] = Candidate(s[n]) /\ s[n] \in Found
    BY <1>6, <1>8, <1>9
  <2>2. s[n] \in 1..Len(rows) /\ Visible(s[n], query.tenant, query.start)
    BY <1>4, <2>1 DEF Found
  <2>3. given'[n].id = s[n] /\ given'[n].tenant = rows[s[n]].tenant
        /\ given'[n].content = rows[s[n]].content
    BY <2>1 DEF Candidate
  <2>4. Represents(given'[n], s[n])
    BY <2>1, <2>2 DEF Candidate, Represents, Visible
  <2>5. s[n] \in query.live \/ s[n] > query.stored
    BY <1>3, <1>4, <2>2
  <2> QED
    BY <2>1, <2>2, <2>3, <2>4, <2>5 DEF Visible
<1>12. ASSUME NEW id \in query.live, rows[id].until = Null \/ rows[id].until > query.start
       PROVE  (\E n \in 1..cut : Represents(given'[n], id)) \/ CutOff(id)'
  <2>1. id \in Found
    BY <1>3, <1>4, <1>12 DEF Found, Visible
  <2>2. PICK k \in 1..Len(s) : id = s[k]
    BY <1>5, <2>1
  <2>3. CASE k <= cut
    BY <1>9, <1>11, <2>2, <2>3
  <2>4. CASE k > cut
    <3>1. cut = query.limit
      BY <1>6, <1>7, <2>4
    <3>2. Len(given') = query.limit
      BY <1>8, <1>9, <3>1
    <3>3. ASSUME NEW n \in 1..cut
          PROVE  Score(given'[n].content) >= Score(rows[id].content)
      <4>1. n < k /\ n \in DOMAIN s /\ k \in DOMAIN s
        BY <1>6, <1>9, <2>4
      <4>2. ~Outranks(s[k], s[n])
        BY <4>1 DEF Rankings
      <4>3. ~(Score(rows[id].content) > Score(rows[s[n]].content))
        BY <2>2, <4>2 DEF Outranks
      <4>4. rows[id].content \in Contents /\ rows[s[n]].content \in Contents
        BY <1>4, <1>11, <2>1 DEF Found, Row
      <4>5. Score(rows[id].content) \in Int /\ Score(rows[s[n]].content) \in Int
        BY <1>3, <4>4, ScoreType
      <4> QED
        BY <1>11, <4>3, <4>5
    <3>4. \A content : Score(content)' = Score(content)
      BY <1>1 DEF Score
    <3> QED
      BY <1>1, <1>8, <3>2, <3>3, <3>4 DEF CutOff, Range
  <2> QED
    BY <1>6, <1>9, <2>3, <2>4
<1>13. DOMAIN given' = 1..cut
  BY <1>8
<1>14. Finding'
  <2>1. \A m, id : Represents(m, id)' <=> Represents(m, id)
    BY <1>1 DEF Represents
  <2> QED
    BY <1>1, <1>11, <1>12, <1>13, <2>1 DEF Finding
<1>15. Fusing'
  BY <1>1, EmptySeq DEF Fusing
<1>16. given' \in Seq(Range(given'))
  <2>1. given' \in [1..cut -> Range(given')]
    BY <1>8, <1>13 DEF Range
  <2> QED
    BY <1>9, <2>1
<1> QED
  BY <1>1, <1>10, <1>14, <1>15, <1>16 DEF FusedIInv

-----------------------------------------------------------------------------
(* The results. *)

\* Every step of the recall, and every step beside it, keeps the invariant.
LEMMA FusedNextKeeps ==
    ASSUME IInv, FusedIInv, [FusedNext]_fusedVars
    PROVE  FusedIInv'
<1>1. CASE UNCHANGED fusedVars
  BY <1>1, WritesKeepRecall DEF fusedVars
<1>2. ASSUME (\E w \in Workers : Write(w)) \/ Tick, UNCHANGED fusionVars
      PROVE  FusedIInv'
  BY <1>2, WritesKeepRecall DEF Write, Next
<1>3. ASSUME SearchFails \/ Respond, UNCHANGED vars
      PROVE  FusedIInv'
  <2>1. phase' = "idle" /\ given' = <<>> /\ pool' = {} /\ pack' = <<>>
    BY <1>3 DEF SearchFails, Respond, Forgotten
  <2> QED
    BY <2>1, EmptySeq DEF FusedIInv, Asking, Finding, Fusing
<1> QED
  BY <1>1, <1>2, <1>3, AskKeeps, SearchKeeps, ReadClockKeeps, RankKeeps, TakeKeeps,
     SkipAndFinishKeep DEF FusedNext, Pack

\* The inductive invariant of a fused recall, whatever is written meanwhile.
LEMMA FusedInvariant == FusedSpec => [](IInv /\ FusedIInv)
<1>1. FusedInit => FusedIInv
  BY IdleIsSound DEF FusedInit
<1>2. IInv /\ FusedIInv /\ [FusedNext]_fusedVars => FusedIInv'
  BY FusedNextKeeps
<1> QED
  BY <1>1, <1>2, FusedIsStore, Invariant, PTL DEF FusedSpec

\* No answer is older than its request, for any skew of the two clocks and any
\* number of concurrent writes.
THEOREM FusedAnswersAreCurrent == FusedSpec => []AnswersAreCurrent
<1>1. FusedIInv => AnswersAreCurrent
  <2> SUFFICES ASSUME FusedIInv, phase = "packed", NEW m \in Range(pack)
               PROVE  m.tenant = query.tenant /\ (m.id \in query.live \/ m.id > query.stored)
    BY DEF AnswersAreCurrent
  <2>1. pack \in Seq(Range(given))
    BY DEF FusedIInv, Fusing
  <2>2. m \in Range(given)
    BY <2>1 DEF Range
  <2> QED
    BY <2>2 DEF FusedIInv, Finding, Range
<1> QED
  BY <1>1, FusedInvariant, PTL

\* A fact that is live throughout a recall is in its pack, or the pack says that
\* it is truncated, or LIMIT cut the fact off behind as many that score no less.
THEOREM FusedLosesNothing == FusedSpec => []NothingIsLost
<1>1. FusedIInv => NothingIsLost
  <2> SUFFICES ASSUME FusedIInv, phase = "packed", ~truncated,
                      NEW id \in query.live, LiveThroughout(id), ~CutOff(id)
               PROVE  \E m \in Range(pack) : Normal[m.content] = Normal[rows[id].content]
    BY DEF NothingIsLost, CutOff
  <2>1. PICK n \in DOMAIN given : Represents(given[n], id)
    BY DEF FusedIInv, Finding, LiveThroughout
  <2>2. Fusion!AuthorizedAndValid(query, given[n])
    BY <2>1 DEF Represents, LiveThroughout, Fusion!AuthorizedAndValid, Fusion!Live, Null
  <2>3. PICK m \in pool \cup Range(pack) : Normal[m.content] = Normal[given[n].content]
    BY <2>2 DEF FusedIInv, Fusing
  <2> QED
    BY <2>1, <2>3 DEF FusedIInv, Fusing, Represents
<1> QED
  BY <1>1, FusedInvariant, PTL
=============================================================================
