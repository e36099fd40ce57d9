---------------------------- MODULE MigrationRuns ----------------------------
(***************************************************************************)
(* apply_migrations and verify_database_connection of migrations.py, run   *)
(* by several processes at once and by releases that know different        *)
(* numbers of migrations.  Only a migration itself is a transaction: what  *)
(* is recorded is read once before all of them, and every comparison is a  *)
(* read of its own.  Of consecutive comparisons only the last one is a     *)
(* step: what is recorded only grows.  A drifted migration file, an        *)
(* integrity error or a failing statement is a raise.                      *)
(***************************************************************************)
EXTENDS Naturals, Sequences

CONSTANTS
  Processes,
  Knows         \* number of migrations in the manifest of each process

ASSUME MigrationAssumption == Knows \in [Processes -> Nat \ {0}]

VARIABLES
  scripts,    \* the migration scripts that took effect, in their order
  recorded,   \* versions in schema_migrations
  stage,      \* where each call is
  snapshot    \* what a call takes to be recorded

migrationVars == <<scripts, recorded, stage, snapshot>>

Versions == UNION {1 .. Knows[p] : p \in Processes}
Stages == {"idle", "apply_start", "verify_start", "apply", "final"}

MigrationTypeOK ==
  /\ scripts \in Seq(Versions)
  /\ recorded \subseteq Versions
  /\ stage \in [Processes -> Stages]
  /\ snapshot \in [Processes -> SUBSET Versions]

MigrationInit ==
  /\ scripts = <<>>
  /\ recorded = {}
  /\ stage = [p \in Processes |-> "idle"]
  /\ snapshot = [p \in Processes |-> {}]

Known(p) == 1 .. Knows[p]

\* _verify_recorded: no version the process does not know
OnlyKnown(p) == recorded \subseteq Known(p)

\* _verify_schema and _verify_slo_queries: exactly what the versions bring
SchemaIs(versions) == versions = {scripts[k] : k \in DOMAIN scripts}

\* The first read of the recorded versions.
ReadRecorded(p) ==
  /\ stage[p] = "idle"
  /\ OnlyKnown(p)
  /\ snapshot' = [snapshot EXCEPT ![p] = recorded]
  /\ stage' \in {[stage EXCEPT ![p] = s] : s \in {"apply_start", "verify_start"}}
  /\ UNCHANGED <<scripts, recorded>>

\* A database with migrations must look like them.
CheckRecorded(p) ==
  /\ \/ snapshot[p] = {} \/ SchemaIs(snapshot[p])
  /\ \/ stage[p] = "apply_start" /\ stage' = [stage EXCEPT ![p] = "apply"]
     \/ /\ stage[p] = "verify_start" /\ snapshot[p] = Known(p)
        /\ stage' = [stage EXCEPT ![p] = "final"]
  /\ UNCHANGED <<scripts, recorded, snapshot>>

\* The lowest version of the manifest that was not there and did not run here.
NextVersion(p, v) ==
  /\ v \in Known(p) \ snapshot[p]
  /\ 1 .. v - 1 \subseteq snapshot[p]

\* Mutant: the row of a version is replaced.
ApplyOrReplace(p, v) ==
  /\ stage[p] = "apply" /\ NextVersion(p, v)
  /\ scripts' = Append(scripts, v)
  /\ recorded' = recorded \cup {v}
  /\ snapshot' = [snapshot EXCEPT ![p] = @ \cup {v}]
  /\ UNCHANGED stage

\* The transaction of one migration; a version that was recorded meanwhile
\* fails at the primary key and takes the script with it.
Apply(p, v) ==
  /\ stage[p] = "apply" /\ NextVersion(p, v)
  /\ v \notin recorded
  /\ scripts' = Append(scripts, v)
  /\ recorded' = recorded \cup {v}
  /\ snapshot' = [snapshot EXCEPT ![p] = @ \cup {v}]
  /\ UNCHANGED stage

\* The last read of the recorded versions.
ReadAgain(p) ==
  /\ stage[p] = "apply" /\ Known(p) \subseteq snapshot[p]
  /\ OnlyKnown(p)
  /\ stage' = [stage EXCEPT ![p] = "final"]
  /\ UNCHANGED <<scripts, recorded, snapshot>>

EndCall(p) ==
  /\ stage' = [stage EXCEPT ![p] = "idle"]
  /\ snapshot' = [snapshot EXCEPT ![p] = {}]

ReturnApplied(p) ==
  /\ stage[p] = "final"
  /\ SchemaIs(Known(p))
  /\ EndCall(p)
  /\ UNCHANGED <<scripts, recorded>>

\* The process dies, or a read, a comparison or a migration raises.
RaiseMigration(p) ==
  /\ stage[p] # "idle"
  /\ EndCall(p)
  /\ UNCHANGED <<scripts, recorded>>

MigrationNext ==
  \E p \in Processes :
    \/ ReadRecorded(p) \/ CheckRecorded(p)
    \/ \E v \in Known(p) : Apply(p, v)
    \/ ReadAgain(p) \/ ReturnApplied(p) \/ RaiseMigration(p)

MigrationSpec == MigrationInit /\ [][MigrationNext]_migrationVars

-----------------------------------------------------------------------------
(* Properties *)

\* Whatever calls overlap and die, the scripts that took effect are the first
\* ones of the manifest, each once and in their order; they are the recorded
\* ones, so that a comparison of the recorded versions speaks for the schema.
MigrationsRunOnce ==
  /\ \A k \in DOMAIN scripts : scripts[k] = k
  /\ recorded = DOMAIN scripts
=============================================================================
