--------------------------- MODULE ForcedRollback ---------------------------
(***************************************************************************)
(* The `rollback` command of heartbeat-shadow-soak-monitor.py and          *)
(* force_heartbeat_file_authority_rollback under it: the shadow database   *)
(* is moved to a local backup, a directory keeps its path from being used  *)
(* again, a receipt is written, bound and signed, and the monitor reports  *)
(* "rolled_back".  A call that fails takes everything back as far as it    *)
(* can.  All of it is a sequence of file operations, each of which may     *)
(* fail, and the process may die between any two; a later call with the    *)
(* same rollback id removes a guard left behind, and one that finds a      *)
(* receipt only reads it again.  Shadow cycles meanwhile write to the      *)
(* database, and create it where they find none.  Identities, hashes, the  *)
(* privacy preflight and the parity audit only decide whether a call goes  *)
(* on or raises.                                                           *)
(***************************************************************************)
EXTENDS Naturals

CONSTANTS
  Rollbacks,      \* processes that call it
  RollbackIds,
  MaxDatabases,   \* bound on the databases ever created
  Nothing         \* no file, no call, no holder

ASSUME RollbackAssumption ==
  /\ MaxDatabases \in Nat \ {0}
  /\ Nothing \notin Rollbacks \cup RollbackIds \cup Nat \cup {"source"}
  /\ "source" \notin RollbackIds
  /\ \A p \in Rollbacks : p \notin Nat

Databases == 1 .. MaxDatabases

VARIABLES
  source,     \* at the database path: a database, or the guard of a process
  backup,     \* database in each rollback's backup directory
  sidecar,    \* where the first database's sidecar is: "source", a backup, Nothing
  made,       \* how many databases were created
  audited,    \* rollbacks whose audit snapshot is there
  intent,     \* rollbacks whose guard recovery intent is there
  receipt,    \* the rollback whose receipt is there
  bound,      \* the receipt that the authentication intent names
  signature,  \* the receipt that the authentication file signs
  rolledBack, \* the receipt last reported as "rolled_back"
  stuck,      \* rollbacks whose guard could not be removed after the receipt
  step,       \* where each call is
  rid,        \* its rollback id
  raised,     \* calls that raised after the receipt was there
  holder      \* the process that has locked each database

databaseVars == <<source, backup, sidecar, made, audited>>
reportVars == <<bound, signature, rolledBack, stuck>>
diskVars == <<databaseVars, intent, receipt, reportVars>>
processVars == <<rid, raised, holder>>
rollbackVars == <<diskVars, step, processVars>>

Steps == {"idle", "unguard", "recover", "recover_sidecar", "recover_intent",
          "check", "audit", "intend", "move", "move_sidecar", "guard", "verify",
          "written", "bind", "sign", "release", "confirm", "undo", "unwind", "clear",
          "restore", "restore_sidecar", "drop_intent", "reread", "report", "leave"}

RollbackTypeOK ==
  /\ source \in Databases \cup Rollbacks \cup {Nothing}
  /\ backup \in [RollbackIds -> Databases \cup {Nothing}]
  /\ sidecar \in RollbackIds \cup {"source", Nothing}
  /\ made \in Databases
  /\ audited \subseteq RollbackIds
  /\ intent \subseteq RollbackIds
  /\ receipt \in RollbackIds \cup {Nothing}
  /\ bound \in RollbackIds \cup {Nothing}
  /\ signature \in RollbackIds \cup {Nothing}
  /\ rolledBack \in RollbackIds \cup {Nothing}
  /\ stuck \subseteq RollbackIds
  /\ step \in [Rollbacks -> Steps]
  /\ rid \in [Rollbacks -> RollbackIds \cup {Nothing}]
  /\ raised \subseteq Rollbacks
  /\ holder \in [Databases -> Rollbacks \cup {Nothing}]

\* The first database is there with its sidecar.
RollbackInit ==
  /\ source = 1
  /\ backup = [i \in RollbackIds |-> Nothing]
  /\ sidecar = "source"
  /\ made = 1
  /\ audited = {} /\ intent = {} /\ stuck = {} /\ raised = {}
  /\ receipt = Nothing /\ bound = Nothing /\ signature = Nothing /\ rolledBack = Nothing
  /\ step = [p \in Rollbacks |-> "idle"]
  /\ rid = [p \in Rollbacks |-> Nothing]
  /\ holder = [d \in Databases |-> Nothing]

To(p, s) == step' = [step EXCEPT ![p] = s]

-----------------------------------------------------------------------------
(* A guard left behind *)

\* _recover_abandoned_rollback_source_guard looks at the files only.
NeedsRecovery(i) ==
  /\ i \in intent
  /\ receipt = Nothing
  /\ source \in Rollbacks
  /\ backup[i] # Nothing

\* A command that finds a receipt reads it again; one that finds none writes
\* an intent for the receipt to come and forces the rollback.
Begin(p, i) ==
  /\ step[p] = "idle"
  /\ rid' = [rid EXCEPT ![p] = i]
  /\ \/ receipt # Nothing /\ bound' = bound /\ To(p, "reread")
     \/ /\ receipt = Nothing
        /\ bound' = Nothing
        /\ To(p, IF NeedsRecovery(i) THEN "unguard" ELSE "check")
  /\ UNCHANGED <<databaseVars, intent, receipt, signature, rolledBack, stuck, raised, holder>>

\* _remove_recreated_rollback_source_path: whatever is there
RemoveSource(p, from, next) ==
  /\ step[p] = from
  /\ source' = Nothing
  /\ To(p, next)
  /\ UNCHANGED <<backup, sidecar, made, audited, intent, receipt, reportVars, processVars>>

\* _restore_database_from_local_backup, the database: what was created after
\* the path was found to be free is replaced ...
RestoreDatabase(p, from, next) ==
  /\ step[p] = from
  /\ source \notin Rollbacks /\ backup[rid[p]] # Nothing
  /\ source' = backup[rid[p]]
  /\ backup' = [backup EXCEPT ![rid[p]] = Nothing]
  /\ To(p, next)
  /\ UNCHANGED <<sidecar, made, audited, intent, receipt, reportVars, processVars>>

\* ... then its sidecar
RestoreSidecar(p, from, next) ==
  /\ step[p] = from
  /\ sidecar' = IF sidecar = rid[p] THEN "source" ELSE sidecar
  /\ To(p, next)
  /\ UNCHANGED <<source, backup, made, audited, intent, receipt, reportVars, processVars>>

UnlinkIntent(p, from, next) ==
  /\ step[p] = from
  /\ intent' = intent \ {rid[p]}
  /\ To(p, next)
  /\ UNCHANGED <<databaseVars, receipt, reportVars, processVars>>

Unguard(p) ==
  \/ RemoveSource(p, "unguard", "recover")
  \/ RestoreDatabase(p, "recover", "recover_sidecar")
  \/ RestoreSidecar(p, "recover_sidecar", "recover_intent")
  \/ UnlinkIntent(p, "recover_intent", "check")

-----------------------------------------------------------------------------
(* The rollback *)

\* The backup directory is unused.
BackupIsFree(i) == backup[i] = Nothing /\ sidecar # i

\* _lock_rollback_source_idle
Lock(p) ==
  /\ step[p] = "check"
  /\ source \in Databases /\ receipt = Nothing /\ BackupIsFree(rid[p])
  /\ holder[source] = Nothing
  /\ holder' = [holder EXCEPT ![source] = p]
  /\ To(p, "audit")
  /\ UNCHANGED <<diskVars, rid, raised>>

AuditView(p) ==
  /\ step[p] = "audit"
  /\ rid[p] \notin audited
  /\ audited' = audited \cup {rid[p]}
  /\ To(p, "intend")
  /\ UNCHANGED <<source, backup, sidecar, made, intent, receipt, reportVars, processVars>>

\* Mutant: no intent is written.
IntendNothing(p) ==
  /\ step[p] = "intend"
  /\ To(p, "move")
  /\ UNCHANGED <<diskVars, processVars>>

Intend(p) ==
  /\ step[p] = "intend"
  /\ intent' = intent \cup {rid[p]}
  /\ To(p, "move")
  /\ UNCHANGED <<databaseVars, receipt, reportVars, processVars>>

\* _move_database_to_local_backup, the database ...
Move(p) ==
  /\ step[p] = "move"
  /\ source \in Databases /\ BackupIsFree(rid[p])
  /\ backup' = [backup EXCEPT ![rid[p]] = source]
  /\ source' = Nothing
  /\ To(p, "move_sidecar")
  /\ UNCHANGED <<sidecar, made, audited, intent, receipt, reportVars, processVars>>

\* ... then its sidecar
MoveSidecar(p) ==
  /\ step[p] = "move_sidecar"
  /\ sidecar' = IF sidecar = "source" THEN rid[p] ELSE sidecar
  /\ To(p, "guard")
  /\ UNCHANGED <<source, backup, made, audited, intent, receipt, reportVars, processVars>>

\* A move that was made is taken back unless the path is in use again.
MoveSidecarFails(p) ==
  /\ step[p] = "move_sidecar" /\ sidecar = "source"
  /\ source = Nothing
  /\ source' = backup[rid[p]]
  /\ backup' = [backup EXCEPT ![rid[p]] = Nothing]
  /\ To(p, "drop_intent")
  /\ UNCHANGED <<sidecar, made, audited, intent, receipt, reportVars, processVars>>

\* _create_rollback_source_path_guard: the path may be in use again, the
\* directory may not be made, or not be opened and then not be removed.
Guard(p) ==
  /\ step[p] = "guard"
  /\ \/ source = Nothing /\ source' = p /\ (To(p, "verify") \/ To(p, "clear"))
     \/ source' = source /\ To(p, "clear")
  /\ UNCHANGED <<backup, sidecar, made, audited, intent, receipt, reportVars, processVars>>

\* Hash of the backup and authority view are as before.  The directory may
\* fail to be synced when the receipt is already there: the call raises and
\* does not know of its receipt.
WriteReceipt(p) ==
  /\ step[p] = "verify"
  /\ receipt' = rid[p]
  /\ To(p, "written") \/ To(p, "unwind")
  /\ UNCHANGED <<databaseVars, intent, reportVars, processVars>>

\* rollback_receipt_persisted_callback: the hash of the receipt goes to the
\* authentication intent ...
BindReceipt(p) ==
  /\ step[p] = "bind" /\ receipt # Nothing
  /\ bound' = receipt
  /\ To(p, "sign")
  /\ UNCHANGED <<databaseVars, intent, receipt, signature, rolledBack, stuck, processVars>>

\* ... and is signed.  It may raise when the signature is already there.
SignReceipt(p) ==
  /\ step[p] = "sign" /\ receipt # Nothing
  /\ signature' = receipt
  /\ raised' \in {raised, raised \cup {p}}
  /\ To(p, "release")
  /\ UNCHANGED <<databaseVars, intent, receipt, bound, rolledBack, stuck, rid, holder>>

\* Mutant: a move that failed is taken back like one that was made.
RaiseAndRestore(p) ==
  /\ \/ /\ \/ step[p] \in {"check", "audit", "intend"} /\ To(p, "leave")
           \/ step[p] \in {"move", "move_sidecar", "guard"} /\ To(p, "clear")
           \/ step[p] = "verify" /\ To(p, "unwind")
        /\ raised' = raised
     \/ /\ step[p] \in {"written", "bind", "sign"} /\ To(p, "release")
        /\ raised' = raised \cup {p}
  /\ UNCHANGED <<diskVars, rid, holder>>

\* A step before the receipt raises: what was done is taken back.  When the
\* move raises, no backup is known of, and the intent goes only if something
\* is at the path.  After the receipt, the intent may stay, and the guard is
\* released as if nothing had happened.
Raise(p) ==
  /\ \/ /\ \/ step[p] \in {"check", "audit", "intend"} /\ To(p, "leave")
           \/ /\ step[p] \in {"move", "move_sidecar", "guard"}
              /\ To(p, IF source = Nothing THEN "leave" ELSE "drop_intent")
           \/ step[p] = "verify" /\ To(p, "unwind")
        /\ raised' = raised
     \/ /\ step[p] \in {"written", "bind", "sign"} /\ To(p, "release")
        /\ raised' = raised \cup {p}
  /\ UNCHANGED <<diskVars, rid, holder>>

-----------------------------------------------------------------------------
(* The end of a call *)

\* _release_rollback_source_path_guard: raises when another file is there
ReleaseGuard(p) ==
  /\ step[p] \in {"release", "unwind"}
  /\ source' = IF source = p THEN Nothing ELSE source
  /\ To(p, IF step[p] = "unwind" THEN "clear"
            ELSE IF source \in {p, Nothing} THEN "confirm" ELSE "undo")
  /\ UNCHANGED <<backup, sidecar, made, audited, intent, receipt, reportVars, processVars>>

\* It cannot be examined or removed.
ReleaseFails(p) ==
  /\ \/ step[p] = "unwind" /\ stuck' = stuck /\ To(p, "clear")
     \/ step[p] = "release" /\ stuck' = stuck \cup {rid[p]} /\ To(p, "undo")
  /\ UNCHANGED <<databaseVars, intent, receipt, bound, signature, rolledBack, processVars>>

\* The path is in use again: the rollback is taken back.
Confirm(p) ==
  /\ step[p] = "confirm"
  /\ To(p, IF source # Nothing THEN "undo" ELSE IF p \in raised THEN "leave" ELSE "report")
  /\ UNCHANGED <<diskVars, processVars>>

\* A receipt that cannot be unlinked stays, and the database is restored.
Undo(p) ==
  /\ step[p] = "undo"
  /\ receipt' \in {receipt, Nothing}
  /\ To(p, "clear")
  /\ UNCHANGED <<databaseVars, intent, reportVars, processVars>>

\* A file operation of the clean-up or the recovery fails or finds what it
\* cannot handle, a receipt does not stand: the call raises and leaves the rest.
GiveUp(p) ==
  /\ step[p] \in {"unguard", "recover", "recover_sidecar", "recover_intent", "clear",
                  "restore", "restore_sidecar", "drop_intent", "reread", "report"}
  /\ To(p, "leave")
  /\ UNCHANGED <<diskVars, processVars>>

Unlock(p) ==
  [d \in Databases |-> IF holder[d] = p THEN Nothing ELSE holder[d]]

Return(p) ==
  /\ step' = [step EXCEPT ![p] = "idle"]
  /\ rid' = [rid EXCEPT ![p] = Nothing]
  /\ raised' = raised \ {p}
  /\ holder' = Unlock(p)
  /\ UNCHANGED diskVars

-----------------------------------------------------------------------------
(* What is reported *)

\* Mutant: whatever is at the path is not looked at.
BackupStands == receipt # Nothing /\ backup[receipt] # Nothing

\* _validate_rollback_receipt_config_binding: the backup is there, and at the
\* path neither a database nor a sidecar of it.
Stands ==
  /\ receipt # Nothing /\ backup[receipt] # Nothing
  /\ source = Nothing /\ sidecar # "source"

\* A missing signature is made up for when the intent names the receipt.
IsAuthentic == signature = receipt \/ (signature = Nothing /\ bound = receipt)

\* A receipt was found: _recover_rollback_receipt_authentication compares
\* the rollback ids only when there is no signature.
Reread(p) ==
  /\ step[p] = "reread"
  /\ Stands /\ IsAuthentic
  /\ signature = receipt \/ receipt = rid[p]
  /\ signature' = receipt
  /\ To(p, "report")
  /\ UNCHANGED <<databaseVars, intent, receipt, bound, rolledBack, stuck, processVars>>

\* _persist_envelope with status "rolled_back" reads the receipt once more.
ReportRolledBack(p) ==
  /\ step[p] = "report"
  /\ Stands /\ IsAuthentic
  /\ signature' = receipt
  /\ rolledBack' = receipt
  /\ To(p, "leave")
  /\ UNCHANGED <<databaseVars, intent, receipt, bound, stuck, processVars>>

Finish(p) ==
  \/ UnlinkIntent(p, "written", "bind")
  \/ ReleaseGuard(p) \/ ReleaseFails(p)
  \/ Confirm(p)
  \/ Undo(p)
  \/ RemoveSource(p, "clear", "restore")
  \/ RestoreDatabase(p, "restore", "restore_sidecar")
  \/ RestoreSidecar(p, "restore_sidecar", "drop_intent")
  \/ UnlinkIntent(p, "drop_intent", "leave")
  \/ GiveUp(p)
  \/ Reread(p) \/ ReportRolledBack(p)
  \/ step[p] = "leave" /\ Return(p)

Crash(p) == step[p] # "idle" /\ Return(p)

-----------------------------------------------------------------------------
(* Shadow cycles *)

\* A cycle that finds no database creates one; what cycles commit to a
\* database that is not locked does not matter here.
Create ==
  /\ source = Nothing /\ made < MaxDatabases
  /\ made' = made + 1
  /\ source' = made'
  /\ UNCHANGED <<backup, sidecar, audited, intent, receipt, reportVars, step, processVars>>

\* A connection to the first database writes its log, or the last one that
\* closes removes it.
Log ==
  /\ source = 1 /\ holder[1] = Nothing
  /\ sidecar \in {"source", Nothing}
  /\ sidecar' \in {"source", Nothing} \ {sidecar}
  /\ UNCHANGED <<source, backup, made, audited, intent, receipt, reportVars, step,
                 processVars>>

Forward(p) ==
  \/ Lock(p) \/ AuditView(p) \/ Intend(p) \/ Move(p) \/ MoveSidecar(p)
  \/ MoveSidecarFails(p) \/ Guard(p) \/ WriteReceipt(p)
  \/ BindReceipt(p) \/ SignReceipt(p) \/ Raise(p)

RollbackNext ==
  \/ \E p \in Rollbacks, i \in RollbackIds : Begin(p, i)
  \/ \E p \in Rollbacks : Unguard(p) \/ Forward(p) \/ Finish(p) \/ Crash(p)
  \/ Create \/ Log

RollbackSpec == RollbackInit /\ [][RollbackNext]_rollbackVars

-----------------------------------------------------------------------------
(* Properties *)

\* "Recoverably remove the shadow DB": the database that was there first is
\* at its path or in a backup, whatever fails, crashes and is retried.
DatabaseIsRecoverable ==
  source = 1 \/ \E i \in RollbackIds : backup[i] = 1

\* What was reported as rolled back stays so: the receipt that was reported is
\* there, its backup holds a database that is not at the path any more, no
\* guard blocks the path, and no sidecar stayed behind for the next database.
ReportIsTrue ==
  rolledBack # Nothing =>
    /\ receipt = rolledBack
    /\ backup[rolledBack] \in Databases \ {source}
    /\ source \notin Rollbacks
    /\ backup[rolledBack] = 1 => sidecar # "source"

\* A guard whose call is over blocks the path for every other program.  Its
\* rollback has a receipt, or a call with its id will find what it needs to
\* remove the guard and bring the database back; or the guard could not be
\* removed when the intent was already gone, and the database is in the backup.
AbandonedGuardIsRecoverable ==
  source \in Rollbacks /\ step[source] = "idle" =>
    \/ receipt # Nothing
    \/ \E i \in RollbackIds : NeedsRecovery(i)
    \/ \E i \in stuck : backup[i] # Nothing
=============================================================================
