----------------------------- MODULE Migrations -----------------------------
(***************************************************************************)
(* Bringing the schema up to date at boot: apply_schema (src/db.rs), which  *)
(* service.rs runs before it serves and durable/store.rs offers as migrate. *)
(*                                                                         *)
(* Every process runs the migrations its binary embeds in one transaction   *)
(* under an advisory lock, records each with its checksum, and adopts what  *)
(* an earlier binary had recorded with sqlx.  Processes of several builds   *)
(* boot at once, crash at any point and boot again with another build.      *)
(*                                                                         *)
(* The sqlx binaries are gone by the time this runs: their table is fixed.  *)
(***************************************************************************)
EXTENDS Naturals, Sequences

CONSTANTS
    Processes,
    Texts,       \* texts of migrations; a checksum is as good as its text
    Builds,      \* builds: the texts a binary embeds, by version from 1
    Histories,   \* what sqlx may have left: the texts it has applied, by version
    MaxVersion,  \* bound: versions
    Unrecorded   \* no record of a version

Versions == 1..MaxVersion

ASSUME MigrationsAssumption ==
    /\ MaxVersion \in Nat
    /\ Builds \cup Histories \subseteq {b \in Seq(Texts) : Len(b) <= MaxVersion}
    /\ Unrecorded \notin Texts

VARIABLES
    recorded,   \* fiducia_memory_schema_migrations: the checksum of each version
    legacy,     \* _sqlx_migrations: the rows sqlx has left
    applied,    \* history: the migrations whose SQL the schema has seen, in order
    process     \* what each process does; a transaction keeps what it has run and
                \* recorded to itself until it commits

vars == <<recorded, legacy, applied, process>>

LegacyRow == [version : Versions, text : Texts, success : BOOLEAN]

NoRecords == [v \in Versions |-> Unrecorded]

Down == [phase |-> "down"]

\* The history of a schema made of the texts b.
Entries(b) == [v \in DOMAIN b |-> [version |-> v, text |-> b[v]]]

\* The rows of a history whose next migration may have failed.
LegacyOf(h, failed) ==
    {[version |-> v, text |-> h[v], success |-> TRUE] : v \in DOMAIN h}
    \cup {[version |-> Len(h) + 1, text |-> text, success |-> FALSE] : text \in failed}

Init ==
    /\ recorded = NoRecords
    /\ \E h \in Histories :
          /\ applied = Entries(h)
          /\ \E failed \in {{}} \cup IF Len(h) < MaxVersion THEN {{text} : text \in Texts} ELSE {} :
                legacy = LegacyOf(h, failed)
    /\ process = [p \in Processes |-> Down]

-----------------------------------------------------------------------------
(* The steps of a boot. *)

Phase(p) == process[p].phase

Boot(p) ==
    /\ Phase(p) = "down"
    /\ \E build \in Builds :
          process' = [process EXCEPT ![p] =
                        [phase |-> "waiting", build |-> build, at |-> 1,
                         ran |-> <<>>, added |-> NoRecords]]
    /\ UNCHANGED <<recorded, legacy, applied>>

\* Mutants: the lock outlives the transaction; nobody takes it.
HoldsLockForSession(p) == Phase(p) \in {"importing", "migrating", "serving"}
NeverHoldsLock(p) == FALSE

\* pg_advisory_xact_lock: until the transaction ends.
HoldsLock(p) == Phase(p) \in {"importing", "migrating"}

Lock(p) ==
    /\ Phase(p) = "waiting"
    /\ \A q \in Processes : ~HoldsLock(q)
    /\ process' = [process EXCEPT ![p].phase = "importing"]
    /\ UNCHANGED <<recorded, legacy, applied>>

\* The record of v as p's transaction sees it.
Seen(p, v) == IF recorded[v] # Unrecorded THEN recorded[v] ELSE process[p].added[v]

\* Mutant: failed rows count too.
ImportableEvenFailed(p) == {row \in legacy : row.version \in DOMAIN process[p].build}

\* The rows that import_legacy_sqlx_versions adopts; others are not p's.
Importable(p) ==
    {row \in legacy : row.success /\ row.version \in DOMAIN process[p].build}

Foreign(p) == \E row \in Importable(p) : row.text # process[p].build[row.version]

\* `on conflict (version) do nothing` leaves what p sees already.
Import(p) ==
    /\ Phase(p) = "importing"
    /\ ~Foreign(p)
    /\ process' = [process EXCEPT
          ![p].phase = "migrating",
          ![p].added = [v \in Versions |->
              IF Seen(p, v) = Unrecorded /\ \E row \in Importable(p) : row.version = v
              THEN process[p].build[v]
              ELSE process[p].added[v]]]
    /\ UNCHANGED <<recorded, legacy, applied>>

\* p is at a migration of its build.
Migrating(p) == Phase(p) = "migrating" /\ process[p].at \in DOMAIN process[p].build

\* Mutant: a recorded version is skipped whatever its checksum.
RecordedAtAll(p) == Seen(p, process[p].at) # Unrecorded

RecordedAsEmbedded(p) == Seen(p, process[p].at) = process[p].build[process[p].at]

SkipRecorded(p) ==
    /\ Migrating(p)
    /\ RecordedAsEmbedded(p)
    /\ process' = [process EXCEPT ![p].at = @ + 1]
    /\ UNCHANGED <<recorded, legacy, applied>>

RunAndRecord(p) ==
    LET v == process[p].at
        text == process[p].build[v]
    IN
    /\ Migrating(p)
    /\ Seen(p, v) = Unrecorded
    /\ process' = [process EXCEPT
          ![p].at = @ + 1,
          ![p].ran = Append(@, [version |-> v, text |-> text]),
          ![p].added = [@ EXCEPT ![v] = text]]
    /\ UNCHANGED <<recorded, legacy, applied>>

\* A checksum of the table or of sqlx differs from the embedded one.
Refuse(p) ==
    /\ \/ Phase(p) = "importing" /\ Foreign(p)
       \/ Migrating(p) /\ Seen(p, process[p].at) # Unrecorded /\ ~RecordedAsEmbedded(p)
    /\ process' = [process EXCEPT ![p] = Down]
    /\ UNCHANGED <<recorded, legacy, applied>>

\* The process serves from here on, or it was only to migrate (or does not
\* live to see its own commit).
Commit(p) ==
    /\ Phase(p) = "migrating" /\ process[p].at \notin DOMAIN process[p].build
    /\ recorded' = [v \in Versions |-> Seen(p, v)]
    /\ applied' = applied \o process[p].ran
    /\ \/ process' = [process EXCEPT ![p].phase = "serving"]
       \/ process' = [process EXCEPT ![p] = Down]
    /\ UNCHANGED legacy

\* The process dies, or SQL of its transaction fails: nothing of it remains.
Stop(p) ==
    /\ Phase(p) # "down"
    /\ process' = [process EXCEPT ![p] = Down]
    /\ UNCHANGED <<recorded, legacy, applied>>

Proceed(p) ==
    \/ Lock(p)
    \/ Import(p)
    \/ SkipRecorded(p)
    \/ RunAndRecord(p)
    \/ Refuse(p)
    \/ Commit(p)

Next == \E p \in Processes : Boot(p) \/ Proceed(p) \/ Stop(p)

Spec == Init /\ [][Next]_vars

\* Postgres grants the lock in turn, and whoever has it goes on.
FairSpec == Spec /\ \A p \in Processes : SF_vars(Proceed(p))

-----------------------------------------------------------------------------
(* Properties. *)

\* At any moment the schema is what one build makes from nothing, or what sqlx
\* left: each migration once, in order, never a part of a build and never a
\* mixture of two, whoever boots, races, dies or is rolled back.
SchemaIsOneBuild == \E b \in Builds \cup Histories : applied = Entries(b)

\* A recorded checksum is that of the text the schema has seen.
RecordsAreTrue ==
    \A v \in Versions : recorded[v] # Unrecorded =>
        v \in DOMAIN applied /\ applied[v] = [version |-> v, text |-> recorded[v]]

\* A process serves only on a schema that has, recorded, every migration of
\* its own build as it embeds it, and goes on doing so while others migrate.
ServesOnItsSchema ==
    \A p \in Processes : Phase(p) = "serving" =>
        \A v \in DOMAIN process[p].build : recorded[v] = process[p].build[v]

\* Every boot ends, serving or refused: no process waits for the lock for ever.
EveryBootEnds == \A p \in Processes : Phase(p) = "waiting" ~> Phase(p) \in {"serving", "down"}
=============================================================================
