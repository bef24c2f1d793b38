-------------------------- MODULE MigrationsProofs --------------------------
(***************************************************************************)
(* Proofs about Migrations: for every set of builds and of sqlx histories,  *)
(* and any number of processes that boot, race and die, the schema is that  *)
(* of one build, its records are true, and whoever serves does so on the    *)
(* schema of its own build.                                                 *)
(*                                                                         *)
(* The argument: only the holder of the lock changes the schema.  What its  *)
(* transaction sees as recorded is always what the schema would have seen   *)
(* if it committed now; what it has passed is recorded as its build has it; *)
(* and it runs a migration only after all that the schema has seen, so that *)
(* the schema it commits, if it has run anything, is its build's.           *)
(***************************************************************************)
EXTENDS Migrations, SequenceTheorems, TLAPS

Entry == [version : Versions, text : Texts]

Booting ==
    [phase : {"waiting", "importing", "migrating", "serving"},
     build : Builds, at : Nat \ {0}, ran : Seq(Entry),
     added : [Versions -> Texts \cup {Unrecorded}]]

TypeOK ==
    /\ recorded \in [Versions -> Texts \cup {Unrecorded}]
    /\ legacy \subseteq LegacyRow
    /\ applied \in Seq(Entry)
    /\ process \in [Processes -> Booting \cup {Down}]

\* The advisory lock excludes.
OneHolder == \A p, q \in Processes : HoldsLock(p) /\ HoldsLock(q) => p = q

\* What sqlx has recorded as done, the schema has seen.
LegacyIsTrue ==
    \A row \in legacy : row.success =>
        /\ row.version \in DOMAIN applied
        /\ applied[row.version] = [version |-> row.version, text |-> row.text]

\* What the schema has seen is recorded, here or by sqlx.
AppliedIsKnown ==
    \A v \in DOMAIN applied :
        recorded[v] # Unrecorded \/ \E row \in legacy : row.success /\ row.version = v

\* Before the import a transaction has done nothing.
NothingDone(p) ==
    Phase(p) \in {"waiting", "importing"} =>
        process[p].at = 1 /\ process[p].ran = <<>> /\ process[p].added = NoRecords

\* The schema that p would commit.
After(p) == applied \o process[p].ran

\* What p sees as recorded is in the schema that it would commit.
SeesTheTruth(p) ==
    \A v \in Versions : Seen(p, v) # Unrecorded =>
        v \in DOMAIN After(p) /\ After(p)[v] = [version |-> v, text |-> Seen(p, v)]

\* p knows all of its build that the schema has seen.
KnowsApplied(p) == \A v \in DOMAIN applied \cap DOMAIN process[p].build : Seen(p, v) # Unrecorded

\* What p has passed is recorded as its build has it.
PassedAsBuilt(p) ==
    \A v \in DOMAIN process[p].build : v < process[p].at => Seen(p, v) = process[p].build[v]

\* What p has run ends where p is.
RunsAtTheEnd(p) == process[p].ran # <<>> => Len(After(p)) = process[p].at - 1

MigratesWell(p) ==
    Phase(p) = "migrating" =>
        /\ process[p].at <= Len(process[p].build) + 1
        /\ SeesTheTruth(p)
        /\ KnowsApplied(p)
        /\ PassedAsBuilt(p)
        /\ RunsAtTheEnd(p)

IInv ==
    /\ TypeOK
    /\ OneHolder
    /\ SchemaIsOneBuild
    /\ RecordsAreTrue
    /\ LegacyIsTrue
    /\ AppliedIsKnown
    /\ ServesOnItsSchema
    /\ \A p \in Processes : NothingDone(p) /\ MigratesWell(p)

\* A build or a history is a sequence of texts, and the schema made of it a
\* sequence of entries.
LEMMA BuildsAreSequences ==
    ASSUME NEW b \in Builds \cup Histories
    PROVE  /\ b \in Seq(Texts)
           /\ Len(b) \in Nat /\ Len(b) <= MaxVersion
           /\ DOMAIN b = 1..Len(b)
           /\ DOMAIN b \subseteq Versions
           /\ \A v \in DOMAIN b : b[v] \in Texts
           /\ Entries(b) \in Seq(Entry)
           /\ Len(Entries(b)) = Len(b)
           /\ DOMAIN Entries(b) = DOMAIN b
           /\ \A v \in DOMAIN b : Entries(b)[v] = [version |-> v, text |-> b[v]]
<1>1. b \in Seq(Texts) /\ Len(b) <= MaxVersion /\ MaxVersion \in Nat
  BY MigrationsAssumption
<1>2. Len(b) \in Nat /\ DOMAIN b = 1..Len(b) /\ \A v \in DOMAIN b : b[v] \in Texts
  BY <1>1
<1>3. DOMAIN b \subseteq Versions
  BY <1>1, <1>2 DEF Versions
<1>4. Entries(b) \in [1..Len(b) -> Entry]
  BY <1>2, <1>3 DEF Entries, Entry
<1>5. Entries(b) \in Seq(Entry) /\ Len(Entries(b)) = Len(b)
  BY <1>2, <1>4
<1> QED
  BY <1>1, <1>2, <1>3, <1>5 DEF Entries

\* A process that is not down has a transaction.
LEMMA UpIsBooting ==
    ASSUME TypeOK, NEW p \in Processes, Phase(p) # "down"
    PROVE  /\ process[p] \in Booting
           /\ process[p].build \in Builds
           /\ process[p].at \in Nat \ {0}
           /\ process[p].ran \in Seq(Entry)
           /\ process[p].added \in [Versions -> Texts \cup {Unrecorded}]
  BY DEF TypeOK, Phase, Down, Booting

\* The schema at boot is that of a history, and sqlx has recorded it.
LEMMA StartIsSound ==
    ASSUME Init PROVE IInv
<1> USE DEF Init
<1>1. PICK h \in Histories :
        /\ applied = Entries(h)
        /\ \E failed \in {{}} \cup IF Len(h) < MaxVersion THEN {{text} : text \in Texts} ELSE {} :
              legacy = LegacyOf(h, failed)
  OBVIOUS
<1>2. PICK failed \in {{}} \cup IF Len(h) < MaxVersion THEN {{text} : text \in Texts} ELSE {} :
        legacy = LegacyOf(h, failed)
  BY <1>1
<1>3. /\ Len(h) \in Nat /\ MaxVersion \in Nat
      /\ DOMAIN h \subseteq Versions
      /\ \A v \in DOMAIN h : h[v] \in Texts
      /\ applied \in Seq(Entry) /\ DOMAIN applied = DOMAIN h
      /\ \A v \in DOMAIN h : applied[v] = [version |-> v, text |-> h[v]]
  BY <1>1, BuildsAreSequences, MigrationsAssumption
<1>4. failed # {} => Len(h) + 1 \in Versions /\ failed \subseteq Texts
  BY <1>2, <1>3 DEF Versions
<1>5. legacy \subseteq LegacyRow
  <2> SUFFICES ASSUME NEW row \in legacy PROVE row \in LegacyRow
    OBVIOUS
  <2>1. CASE \E v \in DOMAIN h : row = [version |-> v, text |-> h[v], success |-> TRUE]
    BY <2>1, <1>3 DEF LegacyRow
  <2>2. CASE \E text \in failed : row = [version |-> Len(h) + 1, text |-> text, success |-> FALSE]
    BY <2>2, <1>4 DEF LegacyRow
  <2> QED
    BY <1>2, <2>1, <2>2 DEF LegacyOf
<1>6. TypeOK
  BY <1>3, <1>5 DEF TypeOK, NoRecords
<1>7. LegacyIsTrue
  BY <1>2, <1>3 DEF LegacyOf, LegacyIsTrue
<1>8. AppliedIsKnown
  <2> SUFFICES ASSUME NEW v \in DOMAIN applied
               PROVE  \E row \in legacy : row.success /\ row.version = v
    BY DEF AppliedIsKnown
  <2>1. [version |-> v, text |-> h[v], success |-> TRUE] \in legacy
    BY <1>2, <1>3 DEF LegacyOf
  <2> QED
    BY <2>1
<1>9. \A p \in Processes : Phase(p) = "down"
  BY DEF Phase, Down
<1>10. RecordsAreTrue
  BY DEF RecordsAreTrue, NoRecords
<1>11. SchemaIsOneBuild
  BY <1>1 DEF SchemaIsOneBuild
<1> QED
  BY <1>6, <1>7, <1>8, <1>9, <1>10, <1>11
  DEF IInv, OneHolder, HoldsLock, ServesOnItsSchema, NothingDone, MigratesWell

\* A step that changes only the process p leaves the rest as sound as it was.
LEMMA OneProcessMoves ==
    ASSUME IInv, NEW p \in Processes,
           UNCHANGED <<recorded, legacy, applied>>,
           process' \in [Processes -> Booting \cup {Down}],
           \A q \in Processes \ {p} : process'[q] = process[q],
           HoldsLock(p)' => HoldsLock(p) \/ \A q \in Processes : ~HoldsLock(q),
           Phase(p)' # "serving",
           NothingDone(p)', MigratesWell(p)'
    PROVE  IInv'
<1>1. TypeOK'
  BY DEF IInv, TypeOK
<1>2. OneHolder'
  BY DEF IInv, OneHolder, HoldsLock, Phase
<1>3. SchemaIsOneBuild' /\ RecordsAreTrue' /\ LegacyIsTrue' /\ AppliedIsKnown'
  BY DEF IInv, SchemaIsOneBuild, RecordsAreTrue, LegacyIsTrue, AppliedIsKnown
<1>4. ServesOnItsSchema'
  BY DEF IInv, ServesOnItsSchema, Phase
<1>5. ASSUME NEW q \in Processes, q # p
      PROVE  NothingDone(q)' /\ MigratesWell(q)'
  <2>1. NothingDone(q) /\ MigratesWell(q)
    BY DEF IInv
  <2>2. process'[q] = process[q]
    BY <1>5
  <2>3. Phase(q)' = Phase(q) /\ After(q)' = After(q) /\ \A v : Seen(q, v)' = Seen(q, v)
    BY <2>2 DEF Phase, After, Seen
  <2>4. NothingDone(q)'
    BY <2>1, <2>2, <2>3 DEF NothingDone
  <2>5. MigratesWell(q)'
    BY <2>1, <2>2, <2>3 DEF MigratesWell, SeesTheTruth, KnowsApplied, PassedAsBuilt, RunsAtTheEnd
  <2> QED
    BY <2>4, <2>5
<1> QED
  BY <1>1, <1>2, <1>3, <1>4, <1>5 DEF IInv

\* A process boots and waits for the lock.
LEMMA BootKeeps ==
    ASSUME IInv, NEW p \in Processes, Boot(p)
    PROVE  IInv'
<1>1. PICK build \in Builds :
        process' = [process EXCEPT ![p] =
                      [phase |-> "waiting", build |-> build, at |-> 1,
                       ran |-> <<>>, added |-> NoRecords]]
  BY DEF Boot
<1>2. process' \in [Processes -> Booting \cup {Down}]
  BY <1>1 DEF IInv, TypeOK, Booting, NoRecords
<1>3. process'[p] = [phase |-> "waiting", build |-> build, at |-> 1,
                     ran |-> <<>>, added |-> NoRecords]
  BY <1>1 DEF IInv, TypeOK
<1> QED
  BY <1>1, <1>2, <1>3, OneProcessMoves
  DEF Boot, IInv, TypeOK, HoldsLock, Phase, NothingDone, MigratesWell

\* One process at a time has the advisory lock.
LEMMA LockKeeps ==
    ASSUME IInv, NEW p \in Processes, Lock(p)
    PROVE  IInv'
<1>1. process[p] \in Booting
  BY UpIsBooting DEF IInv, Lock
<1>2. process' \in [Processes -> Booting \cup {Down}]
  BY <1>1 DEF IInv, TypeOK, Lock, Booting
<1>3. /\ process'[p] = [process[p] EXCEPT !.phase = "importing"]
      /\ Phase(p)' = "importing" /\ Phase(p) = "waiting"
  BY <1>1 DEF IInv, TypeOK, Lock, Phase, Booting
<1>4. NothingDone(p)' /\ MigratesWell(p)'
  BY <1>1, <1>3 DEF IInv, NothingDone, MigratesWell, Booting
<1> QED
  BY <1>2, <1>3, <1>4, OneProcessMoves DEF Lock, IInv, TypeOK

\* A process that dies leaves what it has committed, and nothing else.
LEMMA GoingDownKeeps ==
    ASSUME IInv, NEW p \in Processes, process' = [process EXCEPT ![p] = Down],
           UNCHANGED <<recorded, legacy, applied>>
    PROVE  IInv'
<1>1. process' \in [Processes -> Booting \cup {Down}] /\ Phase(p)' = "down"
  BY DEF IInv, TypeOK, Phase, Down
<1> QED
  BY <1>1, OneProcessMoves DEF HoldsLock, NothingDone, MigratesWell, IInv, TypeOK
\* An entry of the schema that p would commit is one the schema has, or one p ran.
LEMMA AfterIsConcatenation ==
    ASSUME TypeOK, NEW p \in Processes, Phase(p) # "down"
    PROVE  /\ After(p) \in Seq(Entry)
           /\ Len(applied) \in Nat /\ Len(process[p].ran) \in Nat
           /\ Len(After(p)) = Len(applied) + Len(process[p].ran)
           /\ \A v \in DOMAIN applied : v \in DOMAIN After(p) /\ After(p)[v] = applied[v]
           /\ process[p].ran = <<>> => After(p) = applied
  BY UpIsBooting DEF TypeOK, After

\* Appending to the second of two sequences appends to both together.
LEMMA AppendingLast ==
    ASSUME NEW S, NEW s \in Seq(S), NEW t \in Seq(S), NEW e \in S
    PROVE  s \o Append(t, e) = Append(s \o t, e)
<1>1. s \o Append(t, e) \in Seq(S) /\ Append(s \o t, e) \in Seq(S)
  OBVIOUS
<1>2. Len(s \o Append(t, e)) = Len(Append(s \o t, e))
  OBVIOUS
<1>3. \A i \in 1..Len(s \o Append(t, e)) : (s \o Append(t, e))[i] = Append(s \o t, e)[i]
  OBVIOUS
<1> QED
  BY <1>1, <1>2, <1>3, SeqEqual

\* The import: what p adds is what sqlx has done and p's build has too.
LEMMA ImportKeeps ==
    ASSUME IInv, NEW p \in Processes, Import(p)
    PROVE  IInv'
<1> DEFINE added == [v \in Versions |->
              IF Seen(p, v) = Unrecorded /\ \E row \in Importable(p) : row.version = v
              THEN process[p].build[v]
              ELSE process[p].added[v]]
<1>1. /\ Phase(p) = "importing" /\ process[p] \in Booting /\ process[p].build \in Builds
      /\ process[p].at = 1 /\ process[p].ran = <<>> /\ process[p].added = NoRecords
  BY UpIsBooting DEF IInv, Import, NothingDone
<1>2. /\ DOMAIN process[p].build \subseteq Versions
      /\ Len(process[p].build) \in Nat /\ DOMAIN process[p].build = 1..Len(process[p].build)
      /\ \A v \in DOMAIN process[p].build : process[p].build[v] \in Texts
  BY <1>1, BuildsAreSequences
<1>3. added \in [Versions -> Texts \cup {Unrecorded}]
  BY <1>1, <1>2 DEF Importable, NoRecords
<1>4. /\ process' \in [Processes -> Booting \cup {Down}]
      /\ process'[p] = [process[p] EXCEPT !.phase = "migrating", !.added = added]
      /\ \A q \in Processes \ {p} : process'[q] = process[q]
  <2> HIDE DEF added
  <2>1. process' = [process EXCEPT ![p].phase = "migrating", ![p].added = added]
    BY DEF Import, added
  <2> QED
    BY <2>1, <1>1, <1>3 DEF IInv, TypeOK, Booting
<1>5. /\ Phase(p)' = "migrating" /\ process'[p].added = added /\ process'[p].at = 1
      /\ process'[p].ran = <<>> /\ process'[p].build = process[p].build
  BY <1>1, <1>4 DEF Phase, Booting
<1>6. UNCHANGED <<recorded, legacy, applied>>
  BY DEF Import
<1>7. After(p)' = applied
  BY <1>5, <1>6 DEF After, IInv, TypeOK
<1>8. ASSUME NEW v \in Versions, recorded[v] = Unrecorded, added[v] # Unrecorded
      PROVE  v \in DOMAIN applied /\ applied[v] = [version |-> v, text |-> added[v]]
  <2>1. /\ \E row \in Importable(p) : row.version = v
        /\ added[v] = process[p].build[v]
    BY <1>1, <1>8 DEF NoRecords
  <2>2. PICK row \in Importable(p) : row.version = v
    BY <2>1
  <2>3. row.text = process[p].build[v]
    BY <2>2 DEF Import, Foreign
  <2> QED
    BY <2>1, <2>2, <2>3 DEF IInv, LegacyIsTrue, Importable
<1>9. SeesTheTruth(p)'
  BY <1>5, <1>6, <1>7, <1>8 DEF SeesTheTruth, Seen, IInv, RecordsAreTrue
<1>10. KnowsApplied(p)'
  <2> SUFFICES ASSUME NEW v \in DOMAIN applied \cap DOMAIN process[p].build,
                      recorded[v] = Unrecorded
               PROVE  added[v] # Unrecorded
    BY <1>5, <1>6 DEF KnowsApplied, Seen
  <2>1. \E row \in Importable(p) : row.version = v
    BY DEF IInv, AppliedIsKnown, Importable
  <2>2. added[v] = process[p].build[v]
    BY <2>1, <1>1, <1>2 DEF Seen, NoRecords
  <2> QED
    BY <2>2, <1>2, MigrationsAssumption
<1>11. PassedAsBuilt(p)' /\ RunsAtTheEnd(p)' /\ process'[p].at <= Len(process'[p].build) + 1
  BY <1>2, <1>5 DEF PassedAsBuilt, RunsAtTheEnd
<1>12. NothingDone(p)' /\ MigratesWell(p)'
  BY <1>5, <1>9, <1>10, <1>11 DEF NothingDone, MigratesWell
<1> QED
  BY <1>1, <1>4, <1>5, <1>6, <1>12, OneProcessMoves DEF HoldsLock

\* A migration that is recorded as the build has it is passed over.
LEMMA SkipKeeps ==
    ASSUME IInv, NEW p \in Processes, SkipRecorded(p)
    PROVE  IInv'
<1>1. /\ Phase(p) = "migrating" /\ process[p] \in Booting /\ process[p].build \in Builds
      /\ process[p].at \in Nat \ {0} /\ MigratesWell(p)
  BY UpIsBooting DEF IInv, SkipRecorded, Migrating
<1>2. /\ process' \in [Processes -> Booting \cup {Down}]
      /\ process'[p] = [process[p] EXCEPT !.at = @ + 1]
      /\ \A q \in Processes \ {p} : process'[q] = process[q]
      /\ UNCHANGED <<recorded, legacy, applied>>
  BY <1>1 DEF SkipRecorded, IInv, TypeOK, Booting
<1>3. /\ Phase(p)' = "migrating" /\ process'[p].at = process[p].at + 1
      /\ process'[p].ran = process[p].ran /\ process'[p].build = process[p].build
      /\ process'[p].added = process[p].added
  BY <1>1, <1>2 DEF Phase, Booting
<1> DEFINE here == process[p].at
<1>4. /\ here \in DOMAIN process[p].build /\ Seen(p, here) = process[p].build[here]
      /\ DOMAIN process[p].build = 1..Len(process[p].build) /\ Len(process[p].build) \in Nat
      /\ DOMAIN process[p].build \subseteq Versions
      /\ process[p].build[here] # Unrecorded
  BY <1>1, BuildsAreSequences, MigrationsAssumption
  DEF SkipRecorded, Migrating, RecordedAsEmbedded
<1>5. After(p)' = After(p) /\ \A v : Seen(p, v)' = Seen(p, v)
  BY <1>2, <1>3 DEF After, Seen
<1>6. SeesTheTruth(p)' /\ KnowsApplied(p)'
  BY <1>1, <1>2, <1>3, <1>5 DEF MigratesWell, SeesTheTruth, KnowsApplied
<1>7. PassedAsBuilt(p)'
  BY <1>1, <1>3, <1>4, <1>5 DEF MigratesWell, PassedAsBuilt
<1>8. RunsAtTheEnd(p)'
  <2>1. here \in DOMAIN After(p)
    BY <1>1, <1>4 DEF MigratesWell, SeesTheTruth
  <2>2. After(p) \in Seq(Entry)
    BY <1>1, AfterIsConcatenation DEF IInv
  <2>3. process[p].ran = <<>>
    BY <1>1, <2>1, <2>2 DEF MigratesWell, RunsAtTheEnd
  <2> QED
    BY <1>3, <2>3 DEF RunsAtTheEnd
<1>9. NothingDone(p)' /\ MigratesWell(p)'
  BY <1>1, <1>3, <1>4, <1>6, <1>7, <1>8 DEF NothingDone, MigratesWell
<1> QED
  BY <1>1, <1>2, <1>3, <1>9, OneProcessMoves DEF HoldsLock

\* A migration that p runs comes right after all that the schema has seen.
LEMMA RunKeeps ==
    ASSUME IInv, NEW p \in Processes, RunAndRecord(p)
    PROVE  IInv'
<1> DEFINE here == process[p].at
           text == process[p].build[here]
           entry == [version |-> here, text |-> text]
<1>1. /\ Phase(p) = "migrating" /\ process[p] \in Booting /\ process[p].build \in Builds
      /\ here \in Nat \ {0} /\ MigratesWell(p)
      /\ process[p].ran \in Seq(Entry)
      /\ process[p].added \in [Versions -> Texts \cup {Unrecorded}]
  BY UpIsBooting DEF IInv, RunAndRecord, Migrating
<1>2. /\ here \in DOMAIN process[p].build /\ Seen(p, here) = Unrecorded
      /\ DOMAIN process[p].build = 1..Len(process[p].build) /\ Len(process[p].build) \in Nat
      /\ DOMAIN process[p].build \subseteq Versions
      /\ \A v \in DOMAIN process[p].build : process[p].build[v] \in Texts
      /\ here \in Versions /\ text \in Texts /\ text # Unrecorded
  BY <1>1, BuildsAreSequences, MigrationsAssumption DEF RunAndRecord, Migrating
<1>3. entry \in Entry
  BY <1>2 DEF Entry
<1>4. /\ process' \in [Processes -> Booting \cup {Down}]
      /\ process'[p] = [process[p] EXCEPT !.at = @ + 1, !.ran = Append(@, entry),
                                          !.added = [@ EXCEPT ![here] = text]]
      /\ \A q \in Processes \ {p} : process'[q] = process[q]
      /\ UNCHANGED <<recorded, legacy, applied>>
  <2>1. process' = [process EXCEPT ![p].at = @ + 1, ![p].ran = Append(@, entry),
                                   ![p].added = [@ EXCEPT ![here] = text]]
    BY DEF RunAndRecord
  <2>2. Append(process[p].ran, entry) \in Seq(Entry)
    BY <1>1, <1>3
  <2>3. [process[p].added EXCEPT ![here] = text] \in [Versions -> Texts \cup {Unrecorded}]
    BY <1>1, <1>2
  <2> DEFINE new == [process[p] EXCEPT !.at = @ + 1, !.ran = Append(@, entry),
                                       !.added = [@ EXCEPT ![here] = text]]
  <2>4. process \in [Processes -> Booting \cup {Down}] /\ process[p] \in Booting
    BY <1>1 DEF IInv, TypeOK
  <2> HIDE DEF entry, text
  <2>5. new \in Booting
    <3>1. process[p].at \in Nat \ {0} /\ process[p].at + 1 \in Nat \ {0}
      BY <2>4 DEF Booting
    <3> DEFINE ran == Append(process[p].ran, entry)
               added == [process[p].added EXCEPT ![here] = text]
               next == process[p].at + 1
    <3>2. ran \in Seq(Entry) /\ added \in [Versions -> Texts \cup {Unrecorded}] /\ next \in Nat \ {0}
      BY <2>2, <2>3, <3>1
    <3>3. new = [process[p] EXCEPT !.at = next, !.ran = ran, !.added = added]
      OBVIOUS
    <3> HIDE DEF new, ran, added, next, here
    <3> QED
      BY <2>4, <3>2, <3>3 DEF Booting
  <2>6. process' = [process EXCEPT ![p] = new]
    BY <2>1, <2>4
  <2>7. UNCHANGED <<recorded, legacy, applied>>
    BY DEF RunAndRecord
  <2> HIDE DEF new
  <2>8. process' \in [Processes -> Booting \cup {Down}] /\ process'[p] = new
    BY <2>4, <2>5, <2>6
  <2>9. \A q \in Processes \ {p} : process'[q] = process[q]
    BY <2>4, <2>6
  <2> QED
    BY <2>7, <2>8, <2>9 DEF new
<1>5. /\ Phase(p)' = "migrating" /\ process'[p].at = here + 1
      /\ process'[p].ran = Append(process[p].ran, entry)
      /\ process'[p].build = process[p].build
      /\ process'[p].added = [process[p].added EXCEPT ![here] = text]
  BY <1>1, <1>4 DEF Phase, Booting
<1>6. /\ applied \in Seq(Entry) /\ After(p) \in Seq(Entry)
      /\ Len(After(p)) = Len(applied) + Len(process[p].ran)
      /\ process[p].ran = <<>> => After(p) = applied
      /\ \A v \in DOMAIN applied : v \in DOMAIN After(p)
  BY <1>1, AfterIsConcatenation DEF IInv, TypeOK
<1>7. recorded[here] = Unrecorded
  BY <1>2 DEF Seen
<1>8. \A v \in Versions : Seen(p, v)' = IF v = here THEN text ELSE Seen(p, v)
  BY <1>1, <1>2, <1>4, <1>5, <1>7 DEF Seen
<1>9. Len(After(p)) = here - 1
  <2>1. CASE process[p].ran = <<>>
    <3>1. here \notin DOMAIN applied
      BY <1>1, <1>2 DEF MigratesWell, KnowsApplied
    <3>2. Len(applied) < here
      BY <1>1, <1>6, <3>1
    <3>3. ASSUME here > 1 PROVE here - 1 \in DOMAIN applied
      <4>1. here - 1 \in DOMAIN process[p].build /\ here - 1 < here
        BY <1>1, <1>2, <3>3
      <4>2. Seen(p, here - 1) = process[p].build[here - 1]
        BY <1>1, <4>1 DEF MigratesWell, PassedAsBuilt
      <4>3. Seen(p, here - 1) # Unrecorded /\ here - 1 \in Versions
        BY <1>2, <4>1, <4>2, MigrationsAssumption
      <4> QED
        BY <1>1, <1>6, <2>1, <4>3 DEF MigratesWell, SeesTheTruth
    <3> QED
      BY <1>1, <1>6, <2>1, <3>2, <3>3
  <2>2. CASE process[p].ran # <<>>
    BY <1>1, <2>2 DEF MigratesWell, RunsAtTheEnd
  <2> QED
    BY <2>1, <2>2
<1>10. After(p)' = Append(After(p), entry)
  <2>1. After(p)' = applied \o Append(process[p].ran, entry)
    BY <1>4, <1>5 DEF After
  <2> HIDE DEF entry
  <2> QED
    BY <1>1, <1>3, <1>6, <2>1, AppendingLast DEF After
<1>11. /\ DOMAIN After(p) = 1..(here - 1) /\ DOMAIN After(p)' = 1..here
       /\ After(p)'[here] = entry
       /\ \A v \in DOMAIN After(p) : After(p)'[v] = After(p)[v]
       /\ Len(After(p)') = here
  BY <1>1, <1>3, <1>6, <1>9, <1>10
<1>12. SeesTheTruth(p)'
  <2> SUFFICES ASSUME NEW v \in Versions, Seen(p, v)' # Unrecorded
               PROVE  v \in DOMAIN After(p)' /\ After(p)'[v] = [version |-> v, text |-> Seen(p, v)']
    BY DEF SeesTheTruth
  <2>1. CASE v = here
    BY <1>1, <1>8, <1>11, <2>1
  <2>2. CASE v # here
    <3>1. v \in DOMAIN After(p) /\ After(p)[v] = [version |-> v, text |-> Seen(p, v)]
      BY <1>1, <1>8, <2>2 DEF MigratesWell, SeesTheTruth
    <3> QED
      BY <1>1, <1>8, <1>11, <2>2, <3>1
  <2> QED
    BY <2>1, <2>2
<1>13. KnowsApplied(p)' /\ PassedAsBuilt(p)'
  <2>1. \A v \in DOMAIN process[p].build : Seen(p, v)' = IF v = here THEN text ELSE Seen(p, v)
    BY <1>2, <1>8
  <2> HIDE DEF text
  <2>2. KnowsApplied(p)'
    BY <1>1, <1>2, <1>4, <1>5, <2>1 DEF MigratesWell, KnowsApplied
  <2>3. \A v \in DOMAIN process[p].build : v < here + 1 => v = here \/ v < here
    BY <1>1, <1>2
  <2>4. PassedAsBuilt(p)'
    BY <1>1, <1>5, <2>1, <2>3 DEF MigratesWell, PassedAsBuilt, text
  <2> QED
    BY <2>2, <2>4
<1>14. RunsAtTheEnd(p)' /\ process'[p].at <= Len(process'[p].build) + 1
  <2>1. /\ process'[p].at = here + 1 /\ process'[p].build = process[p].build
        /\ here <= Len(process[p].build)
    BY <1>1, <1>2, <1>5
  <2>2. Len(After(p)') = process'[p].at - 1
    BY <1>1, <1>11, <2>1
  <2>3. RunsAtTheEnd(p)'
    BY <2>2 DEF RunsAtTheEnd
  <2> QED
    BY <1>1, <1>2, <2>1, <2>3
<1>15. NothingDone(p)' /\ MigratesWell(p)'
  BY <1>5, <1>12, <1>13, <1>14 DEF NothingDone, MigratesWell
<1> QED
  BY <1>1, <1>4, <1>5, <1>15, OneProcessMoves DEF HoldsLock

\* What p commits is recorded and in the schema; the others wait or serve.
LEMMA CommitKeeps ==
    ASSUME IInv, NEW p \in Processes, Commit(p)
    PROVE  IInv'
<1> DEFINE build == process[p].build
<1>1. /\ Phase(p) = "migrating" /\ process[p] \in Booting /\ build \in Builds
      /\ process[p].at \in Nat \ {0} /\ MigratesWell(p)
      /\ process[p].added \in [Versions -> Texts \cup {Unrecorded}]
  BY UpIsBooting DEF IInv, Commit
<1>2. /\ recorded' = [v \in Versions |-> Seen(p, v)]
      /\ applied' = After(p)
      /\ legacy' = legacy
      /\ process[p].at \notin DOMAIN build
  BY DEF Commit, After
<1>3. /\ DOMAIN build = 1..Len(build) /\ Len(build) \in Nat
      /\ DOMAIN build \subseteq Versions
      /\ Entries(build) \in Seq(Entry) /\ Len(Entries(build)) = Len(build)
      /\ \A v \in DOMAIN build : build[v] \in Texts
      /\ \A v \in DOMAIN build : Entries(build)[v] = [version |-> v, text |-> build[v]]
  BY <1>1, BuildsAreSequences
<1>4. process[p].at = Len(build) + 1
  BY <1>1, <1>2, <1>3 DEF MigratesWell
<1>5. \A v \in DOMAIN build : Seen(p, v) = build[v] /\ Seen(p, v) # Unrecorded
  BY <1>1, <1>3, <1>4, MigrationsAssumption DEF MigratesWell, PassedAsBuilt
<1>6. /\ After(p) \in Seq(Entry)
      /\ process[p].ran = <<>> => After(p) = applied
      /\ \A v \in DOMAIN applied : v \in DOMAIN After(p) /\ After(p)[v] = applied[v]
  BY <1>1, AfterIsConcatenation DEF IInv
<1>7. /\ process' \in [Processes -> Booting \cup {Down}]
      /\ Phase(p)' = "down" \/ (Phase(p)' = "serving" /\ process'[p].build = build)
      /\ \A q \in Processes \ {p} : process'[q] = process[q]
  <2>1. CASE process' = [process EXCEPT ![p].phase = "serving"]
    BY <1>1, <2>1 DEF IInv, TypeOK, Booting, Phase
  <2>2. CASE process' = [process EXCEPT ![p] = Down]
    BY <1>1, <2>2 DEF IInv, TypeOK, Down, Phase
  <2> QED
    BY <2>1, <2>2 DEF Commit
<1>8. TypeOK'
  BY <1>1, <1>2, <1>6, <1>7 DEF IInv, TypeOK, Seen
<1>9. \A q \in Processes : Phase(q)' \notin {"importing", "migrating"}
  BY <1>1, <1>7 DEF IInv, OneHolder, HoldsLock, Phase
<1>10. OneHolder'
  BY <1>9 DEF OneHolder, HoldsLock
<1>11. \A v \in Versions : recorded[v] # Unrecorded => recorded'[v] = recorded[v]
  BY <1>2 DEF Seen
<1>12. ASSUME process[p].ran # <<>> PROVE After(p) = Entries(build)
  <2>1. Len(After(p)) = Len(build)
    BY <1>1, <1>3, <1>4, <1>12 DEF MigratesWell, RunsAtTheEnd
  <2>2. \A v \in DOMAIN build : After(p)[v] = Entries(build)[v]
    BY <1>1, <1>3, <1>5 DEF MigratesWell, SeesTheTruth
  <2> QED
    BY <1>3, <1>6, <2>1, <2>2, SeqEqual
<1>13. SchemaIsOneBuild'
  BY <1>1, <1>2, <1>6, <1>12 DEF IInv, SchemaIsOneBuild
<1>14. RecordsAreTrue'
  BY <1>1, <1>2 DEF RecordsAreTrue, MigratesWell, SeesTheTruth
<1>15. LegacyIsTrue'
  BY <1>2, <1>6 DEF IInv, LegacyIsTrue
<1>16. AppliedIsKnown'
  <2> SUFFICES ASSUME NEW v \in DOMAIN After(p),
                      ~\E row \in legacy : row.success /\ row.version = v
               PROVE  recorded'[v] # Unrecorded
    BY <1>2 DEF AppliedIsKnown
  <2>1. CASE process[p].ran = <<>>
    <3>1. recorded[v] # Unrecorded
      BY <1>6, <2>1 DEF IInv, AppliedIsKnown
    <3>2. v \in Versions
      <4>1. PICK b \in Builds \cup Histories : applied = Entries(b)
        BY DEF IInv, SchemaIsOneBuild
      <4> QED
        BY <4>1, <1>6, <2>1, BuildsAreSequences
    <3> QED
      BY <3>1, <3>2, <1>11
  <2>2. CASE process[p].ran # <<>>
    <3>1. v \in DOMAIN build
      BY <1>12, <2>2 DEF Entries
    <3> QED
      BY <1>2, <1>3, <1>5, <3>1
  <2> QED
    BY <2>1, <2>2
<1>17. ServesOnItsSchema'
  <2> SUFFICES ASSUME NEW q \in Processes, Phase(q)' = "serving",
                      NEW v \in DOMAIN process'[q].build
               PROVE  recorded'[v] = process'[q].build[v]
    BY DEF ServesOnItsSchema
  <2>1. CASE q = p
    BY <1>2, <1>3, <1>5, <1>7, <2>1
  <2>2. CASE q # p
    <3>1. Phase(q) = "serving" /\ process'[q] = process[q]
      BY <1>7, <2>2 DEF Phase
    <3>2. recorded[v] = process[q].build[v] /\ process[q].build \in Builds
      BY <3>1, UpIsBooting DEF IInv, ServesOnItsSchema
    <3>3. v \in Versions /\ process[q].build[v] \in Texts
      BY <3>1, <3>2, BuildsAreSequences
    <3> QED
      BY <1>11, <3>1, <3>2, <3>3, MigrationsAssumption
  <2> QED
    BY <2>1, <2>2
<1>18. ASSUME NEW q \in Processes
       PROVE  NothingDone(q)' /\ MigratesWell(q)'
  BY <1>7, <1>9 DEF IInv, NothingDone, MigratesWell, Phase
<1> QED
  BY <1>8, <1>10, <1>13, <1>14, <1>15, <1>16, <1>17, <1>18 DEF IInv

\* Every step keeps the invariant.
LEMMA NextKeeps ==
    ASSUME IInv, [Next]_vars
    PROVE  IInv'
<1>1. CASE UNCHANGED vars
  BY <1>1 DEF vars, IInv, TypeOK, OneHolder, HoldsLock, SchemaIsOneBuild, RecordsAreTrue,
              LegacyIsTrue, AppliedIsKnown, ServesOnItsSchema, NothingDone, MigratesWell,
              SeesTheTruth, KnowsApplied, PassedAsBuilt, RunsAtTheEnd, After, Seen, Phase
<1>2. ASSUME NEW p \in Processes, Boot(p) \/ Proceed(p) \/ Stop(p)
      PROVE  IInv'
  <2>1. CASE Refuse(p) \/ Stop(p)
    BY <2>1, GoingDownKeeps DEF Refuse, Stop
  <2> QED
    BY <1>2, <2>1, BootKeeps, LockKeeps, ImportKeeps, SkipKeeps, RunKeeps, CommitKeeps
    DEF Proceed
<1> QED
  BY <1>1, <1>2 DEF Next

\* The inductive invariant holds, whatever builds boot and die.
LEMMA Invariant == Spec => []IInv
  BY StartIsSound, NextKeeps, PTL DEF Spec

\* At any moment the schema is what one build, or sqlx, has made of it, for any
\* builds and histories, and any number of processes that boot and die.
THEOREM SchemaIsOneBuilds == Spec => []SchemaIsOneBuild
<1>1. IInv => SchemaIsOneBuild
  BY DEF IInv
<1> QED
  BY <1>1, Invariant, PTL

\* What is recorded as applied is what the schema has seen.
THEOREM RecordsStayTrue == Spec => []RecordsAreTrue
<1>1. IInv => RecordsAreTrue
  BY DEF IInv
<1> QED
  BY <1>1, Invariant, PTL

\* Who serves has every migration of its build in the schema, as it embeds it.
THEOREM ServingIsSafe == Spec => []ServesOnItsSchema
<1>1. IInv => ServesOnItsSchema
  BY DEF IInv
<1> QED
  BY <1>1, Invariant, PTL
=============================================================================
