------------------------------ MODULE Migrations ------------------------------
(***************************************************************************)
(* run_migrations: five migrations of a SQLite file behind a version gate   *)
(* that is read once.  Processes (the server, the benchmark) open the file, *)
(* die in the middle of it, and open it again.                              *)
(*                                                                         *)
(* The schema is the set of migrations whose effect it has.  A sync of       *)
(* SeaORM is one statement here.                                            *)
(***************************************************************************)
EXTENDS Naturals

CONSTANTS
  Procs,       \* processes that open the file
  MaxCrashes   \* bound: processes that die while migrating

ASSUME MigrationsAssumption == MaxCrashes \in Nat

VARIABLES
  recorded,  \* versions in _schema_version
  schema,    \* migrations whose effect is in the schema
  pc,        \* pc[p]: where p is in run_migrations
  at,        \* at[p]: the migration p runs
  has,       \* has[p]: has_column, as p inspected it
  behind,    \* history: processes that read the version before another wrote
  crashes    \* processes that died so far

vars == <<recorded, schema, pc, at, has, behind, crashes>>

CURRENT_VERSION == 5
Version == 1 .. CURRENT_VERSION

\* The migrations that add a column, if it is not there.
AddsColumn == {2, 5}

TypeOK ==
  /\ recorded \subseteq Version
  /\ schema \subseteq Version
  /\ pc \in [Procs -> {"closed", "gate", "inspect", "change", "record", "open", "failed"}]
  /\ at \in [Procs -> 0 .. CURRENT_VERSION + 1]
  /\ has \in [Procs -> BOOLEAN]
  /\ behind \subseteq Procs
  /\ crashes \in 0 .. MaxCrashes

\* A new file, or one left by an earlier version of the program.
Init ==
  /\ \E v \in 0 .. CURRENT_VERSION : recorded = 1 .. v /\ schema = 1 .. v
  /\ pc = [p \in Procs |-> "closed"]
  /\ at = [p \in Procs |-> 0]
  /\ has = [p \in Procs |-> FALSE]
  /\ behind = {}
  /\ crashes = 0

-----------------------------------------------------------------------------
Latest == IF recorded = {} THEN 0 ELSE CHOOSE v \in recorded : \A w \in recorded : w <= v

\* Mutant of Start: a migration that adds a column is only recorded.
StartAtRecord(v) == IF v \in AddsColumn THEN "record" ELSE "change"

Start(v) == IF v \in AddsColumn THEN "inspect" ELSE "change"

\* Mutant of GoTo: one version too many.
GoToOneMore(p, v) ==
  /\ at' = [at EXCEPT ![p] = v]
  /\ pc' = [pc EXCEPT ![p] = IF v <= CURRENT_VERSION + 1 THEN Start(v) ELSE "open"]

\* p goes on with migration v, or is done.
GoTo(p, v) ==
  /\ at' = [at EXCEPT ![p] = v]
  /\ pc' = [pc EXCEPT ![p] = IF v \in Version THEN Start(v) ELSE "open"]

Open(p) ==
  /\ pc[p] = "closed"
  /\ pc' = [pc EXCEPT ![p] = "gate"]
  /\ UNCHANGED <<recorded, schema, at, has, behind, crashes>>

\* Mutant of ReadVersion: the gate skips one migration.
ReadVersionSkipping(p) ==
  /\ pc[p] = "gate"
  /\ GoTo(p, IF Latest = 0 THEN 1 ELSE Latest + 2)
  /\ behind' = behind \ {p}
  /\ UNCHANGED <<recorded, schema, has, crashes>>

\* get_current_version, once for all migrations.
ReadVersion(p) ==
  /\ pc[p] = "gate"
  /\ GoTo(p, Latest + 1)
  /\ behind' = behind \ {p}
  /\ UNCHANGED <<recorded, schema, has, crashes>>

\* Mutant of Inspect: the column is taken to be missing.
InspectNothing(p) ==
  /\ pc[p] = "inspect"
  /\ has' = [has EXCEPT ![p] = FALSE]
  /\ pc' = [pc EXCEPT ![p] = "change"]
  /\ UNCHANGED <<recorded, schema, at, behind, crashes>>

\* pragma_table_info
Inspect(p) ==
  /\ pc[p] = "inspect"
  /\ has' = [has EXCEPT ![p] = at[p] \in schema]
  /\ pc' = [pc EXCEPT ![p] = "change"]
  /\ UNCHANGED <<recorded, schema, at, behind, crashes>>

\* ALTER TABLE ADD COLUMN fails on a column that is there.
AlterFails(p) ==
  /\ pc[p] = "change" /\ at[p] \in AddsColumn
  /\ ~has[p] /\ at[p] \in schema
  /\ pc' = [pc EXCEPT ![p] = "failed"]
  /\ UNCHANGED <<recorded, schema, at, has, behind, crashes>>

\* A sync of a new file creates the tables as the entities declare them now;
\* a sync of an old one creates the missing tables only.
Effect(v) == IF v = 1 /\ 1 \notin schema THEN Version ELSE schema \cup {v}

Change(p) ==
  /\ pc[p] = "change"
  /\ \/ at[p] \notin AddsColumn /\ schema' = Effect(at[p])
     \/ at[p] \in AddsColumn /\ ~has[p] /\ at[p] \notin schema /\ schema' = Effect(at[p])
     \/ at[p] \in AddsColumn /\ has[p] /\ schema' = schema
  /\ pc' = [pc EXCEPT ![p] = "record"]
  /\ behind' = behind \cup (Procs \ {p})
  /\ UNCHANGED <<recorded, at, has, crashes>>

\* INSERT INTO _schema_version; the version is the primary key.
Record(p) ==
  /\ pc[p] = "record"
  /\ recorded' = recorded \cup {at[p]}
  /\ \/ at[p] \notin recorded /\ GoTo(p, at[p] + 1)
     \/ at[p] \in recorded /\ pc' = [pc EXCEPT ![p] = "failed"] /\ UNCHANGED at
  /\ behind' = behind \cup (Procs \ {p})
  /\ UNCHANGED <<schema, has, crashes>>

\* The process ends; what it did to the file stays.
Close(p) ==
  /\ pc[p] \in {"open", "failed"}
  /\ pc' = [pc EXCEPT ![p] = "closed"]
  /\ UNCHANGED <<recorded, schema, at, has, behind, crashes>>

Crash(p) ==
  /\ pc[p] \notin {"closed", "open", "failed"} /\ crashes < MaxCrashes
  /\ crashes' = crashes + 1
  /\ pc' = [pc EXCEPT ![p] = "closed"]
  /\ UNCHANGED <<recorded, schema, at, has, behind>>

Next ==
  \E p \in Procs :
    \/ Open(p) \/ ReadVersion(p) \/ Inspect(p) \/ AlterFails(p) \/ Change(p)
    \/ Record(p) \/ Close(p) \/ Crash(p)

Spec == Init /\ [][Next]_vars

-----------------------------------------------------------------------------
(* Properties.                                                             *)

\* A recorded version is in the schema, and so are those before it: the gate
\* may skip them.  Whatever crashes or runs beside it.
RecordedIsApplied ==
  \A v \in recorded : (1 .. v) \subseteq schema /\ (1 .. v) \subseteq recorded

\* A store that opened has the whole schema.
OpenIsMigrated == \A p \in Procs : pc[p] = "open" => schema = Version

\* A process fails only if another one wrote to the file after it had read the
\* version: alone, however often it dies half way, "this function is idempotent
\* and safe to call multiple times".
FailsOnlyBehind == \A p \in Procs : pc[p] = "failed" => p \in behind

=============================================================================
