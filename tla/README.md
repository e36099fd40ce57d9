# Verification of agentic-os

This directory holds TLA+ modules for the Python package `src/src/agentic_os`,
the TLC configurations that check them on small instances and proofs that TLAPS
checks for every instance. File and line references are to the repository's
source (`runtime_dispatch.py:783` is line 783 of
`src/src/agentic_os/runtime_dispatch.py`).

## 1. Inventory

agentic-os keeps its control state in one SQLite file, `control.db`, beside the
files that stay authoritative. There is no server: every operation is a Python
function that opens the database, runs one or a few `BEGIN IMMEDIATE`
transactions and returns. Processes interact only through the database, the
file system and the OpenClaw Gateway, so every transaction is an atomic step and
everything between two transactions can be interleaved, crash or time out. Only
the soak monitor, one of the scripts, runs for long; its state is in files.

| Component | State | Operations | Interacts with | What is hard |
|---|---|---|---|---|
| Runtime dispatch, `runtime_dispatch.py` | `spawn_requests`, `leases`, `external_rpc_intents`, `runtime_dispatch_bindings`, `sessions` | `dispatch_with_metadata`, `release_owned_lease` | adapter (Gateway calls between transactions), reconciliation (same rows), budget ledger (a strict prior reserve) | at most one spawn per slot under crashes, unknown outcomes and late answers |
| Reconciliation, `reconciliation.py` | the same rows | `reconcile_unknown_metadata` | adapter listings, dispatch | stale listings, concurrent passes, slow callers behind the grace period |
| OpenClaw adapter, `openclaw_adapter.py`, `metadata*.py` | in memory: owned leases, quarantined lease ids, attestation | acquire, release, adopt, list, spawn, status, result, refresh | transport | which error means "not called", which "perhaps called" |
| Runtime attestation, `runtime_attestation.py` | none of its own, clock and challenge | attest, check currency | adapter | expiry during a call |
| Budget ledger, `budgets.py`, SQL 0003-0008, 0015 | `run_budgets` counters, `budget_events`, `budget_settlements` | reserve, release, consume, retry decrement and restore, human attention, settle | dispatch rows as proof, trusted gate clock | idempotent replay, rounding, counters against the event log |
| Legacy money import, `legacy_import.py` | batches, quarantines, promotions | `import_legacy_terminal_usage` | settlement | replay of a changed payload, partial quarantine |
| Dual-write shadow, `shadow.py` | `runs`, `artifact_projections`, `workflow_authority`, the artifact file | backfill, `dual_write_shadow_artifact`, audits | file system | database and file change in separate steps |
| DB authority canary, `db_authority_canary.py` | the same, plus rollback proofs | canary write, rollback | file system, controller | crash between prepare and finalize, rollback against open runs |
| DB authority controller, `db_authority_controller.py` | none of its own | synthetic expansion and its rollback | canary, pass gates | proof bound to one projection set |
| Heartbeat shadow, `heartbeat_shadow.py` | receipts, the control database file itself | shadow cycle, dual write, soak samples, forced rollback | file system | a file moved in steps, guard directory, recovery intent |
| Pass gates, goal runs, trust, SLO audits | `approvals`, `gate_runs`, `goal_runs`, `trust_observations`, `slo_audits` | record a gate, a goal run, an audit, a promotion | evidence files, each other's rows | single-use approvals, evidence changing under a transaction |
| Predicates, `predicates.py` | none | evaluate a predicate document | repository files | three-valued reading of evidence, bounds |
| Migrations, `migrations.py`, 16 SQL files | `schema_migrations`, `slo_queries` | apply, verify | everyone | hash drift, two processes migrating |
| Soak monitor, `heartbeat-shadow-soak-monitor.py` | receipts, journal, snapshot ledger and envelope, one file each | start, run, stop, status, rollback | heartbeat shadow | files written one after the other, two clocks, restarts |
| Live session probe, `openclaw-live-accepted-session-probe.py` | in memory: leases to release, unresolved ones, the session | `run_probe` | Gateway | answers lost, late, unproven or about other leases |
| Runtime catalog, `openclaw-tool-capability-preflight.py` | in memory: digests, payload; the evidence file | one capture | the installed OpenClaw, the worktree | files replaced while they are read |
| Metadata probe, `metadata_dispatch.py` | in memory: identity books | acquire, release, spawn, status, list, result | adapter | replays answered with other identities |
| CLI, privacy preflight, SLO texts, contract probes | none | argument parsing, path checks, isolated Gateways | | input and output only |

What makes each of them correct:

- dispatch: one spawn call per (run, phase, agent), answers only for sessions
  that exist, releases only of leases without a spawn, verdicts that are never
  overwritten, no intent open for ever;
- adapter: an owned lease has one owner, a quarantined id is never used again,
  no call with an attestation known to be stale;
- budgets: counters equal the log, no spawn over-spends or is left underfunded,
  a replayed call changes nothing, a settled spawn has nothing outstanding;
- shadow and canary: a finalized run has its file with the recorded digest, a
  prepared run can always be finalized by a replay of the same call, file
  authority is never overwritten;
- heartbeat rollback: the database is at its place or in the backup and never
  in neither or both, and what is reported as rolled back is so;
- gates, goals and trust: an approval is consumed once, and active trust rests
  on audits after which nothing they read has changed;
- attestation: none is used longer than its lifetime allows, whatever is done
  to the wall clock;
- migrations: each takes effect once, in order, and is recorded with its effect;
- legacy import: a batch is imported whole, with its exact money, or not at all;
- soak monitor: a report of completion covers the whole soak, sample by sample;
- probes: a report is true of what the Gateway holds, a catalog describes files
  that were together, an identity belongs to one intent.

`PROJECT.json` lists the components with their status and the hazards with the
lines where they bite.

## 2. Plan

All steps of the plan are carried out:

1. Runtime dispatch with reconciliation and the Gateway: abstract specification
   `SpawnArbiter`, inductive invariants and their proofs.
2. Dual-write shadow: the file-and-rows protocol with crashes and concurrent
   writers, shown to implement the abstract `ArtifactRegister`; the DB authority
   canary and its controller, which create their files the same way
   (`ArtifactFile`), implement the same register and add a rollback.
3. Heartbeat rollback: move, guard, receipt, signature, report and recovery, one
   file operation at a time.
4. Budget ledger: a run with several spawns, all operations and the settlement,
   shown to implement the abstract `SpawnAccounts`.
5. Adapter ownership and quarantine, attestation, and the metadata probe.
6. Approvals across pass gates and goal runs, audits and trust promotion.
7. Legacy import, soak monitor and migrations; of the scripts, the live session
   probe and the capture of the runtime catalog.

Theorems about all of them follow the same order (section 5). What could follow:
two soak monitors on one state directory; the predicates; which refusals of the
legacy import are unavoidable.

## 3. Modules

| Module | Models |
|---|---|
| `DispatchStore` | the rows a dispatch owns, the queries over them and the row updates of `runtime_dispatch.py` |
| `Gateway` | external: calls on the wire, the Gateway's leases and sessions |
| `RuntimeDispatch` | `dispatch_with_metadata` and `release_owned_lease` as processes |
| `Reconciliation` | `reconcile_unknown_metadata` as processes |
| `DispatchSystem` | all of them with the clock; properties, fairness, refinement mapping |
| `SpawnArbiter` | the abstract specification of dispatching |
| `DispatchInvariant` | the inductive invariants |
| `DispatchProofs`, `ReleaseProofs` | theorems and proofs |
| `MCDispatch` | small instances |
| `ArtifactFile` | `_atomic_create_file` of `shadow.py` and the processes inside it |
| `DualWrite` | `dual_write_shadow_artifact`, `backfill_file_authority_shadow`; properties, fairness, refinement mapping |
| `ArtifactRegister` | the abstract specification of recording artifacts |
| `DualWriteProofs` | theorems and proofs |
| `MCDualWrite` | small instances |
| `BudgetAmounts` | amounts, and what tokens have to cost |
| `BudgetLedger` | `budgets.py`: events, counters, settlements of one run; refinement mapping |
| `SpawnAccounts` | the abstract specification of the ledger: one account per spawn |
| `BudgetProofs`, `AccountProofs` | theorems and proofs about the ledger and about the accounts |
| `MCBudget` | a small instance |
| `DbCanary` | `db_authority_canary.py`, `db_authority_controller.py` |
| `ForcedRollback` | `force_heartbeat_file_authority_rollback` of `heartbeat_shadow.py`, and the monitor's `rollback` command that calls it |
| `RuntimeAttestation` | the lifetime rules of `runtime_attestation.py` |
| `AdapterOwnership` | the caches of `OpenClawAdapter` |
| `MetadataProbe` | the books of `MetadataDispatchProbe` |
| `TrustChain` | `pass_gates.py`, `goal_runs.py`, `slo_audits.py`, `trust_promotion.py` and their triggers |
| `MigrationRuns` | `apply_migrations` and `verify_database_connection` |
| `LegacyImport` | `legacy_import.py` |
| `SoakMonitor` | `heartbeat-shadow-soak-monitor.py` and the soak receipt rules of `heartbeat_shadow.py` |
| `LiveProbe` | `run_probe` of `openclaw-live-accepted-session-probe.py` |
| `RuntimeCatalog` | the capture of `openclaw-tool-capability-preflight.py` |
| `AuthorityProofs` | theorems and proofs about the canary and the forced rollback |
| `TrustProofs` | the same about trust, migrations, attestation and the adapter |
| `ControlProofs` | the same about the probes, the catalog, the soak monitor and the legacy import, and about the parts together |
| `ControlPlane` | the eleven parts from `DbCanary` to `RuntimeCatalog`, one at a time |
| `MCControlPlane` | small instances of them |

### How the dispatch modules correspond to the code

A *request* is one `DispatchRequest`. The immutable
`runtime_dispatch_bindings` row ties its spawn request, its lease and its three
intents together one-to-one, so the rows are functions of the request:
`acquire`, `spawn` and `release` are the states of its three
`external_rpc_intents` rows, `lease` is `leases.state`, `reason` classifies
`spawn_requests.ambiguity_reason` by whether it matches the pattern the slot
guard looks for. A *slot* is a (run, phase, agent). `overdue` holds the requests
whose newest intents are older than `PENDING_RPC_RECONCILE_GRACE_MS`.

A caller is one process inside `dispatch_with_metadata`; `step` says between
which transactions or calls it is. One transaction is one action, one Gateway
call is two (it leaves, it is answered), and each `except` branch is an action
of its own. `CallerStops` is a killed process or an exception outside the caught
classes (a `RuntimeAttestationError` out of the transport, an sqlite error in a
handler). A pass lists sessions and leases at its start (`StartPass`,
`ListLeases`), then goes through the phases release, acquire, unproven, spawn,
cleanup; `Advance` runs the next candidate query and each item is one
transaction against the lists of the start. `due` keeps, for each pass, the
pending intents that were older than the cutoff when it started.

The Gateway is used through its calls only. A call on the wire is applied at
any later time or never, once (idempotency keys), and whether its caller still
waits makes no difference. An action that records an answer needs the call to
have been applied; an uncertain outcome needs nothing.

Abstractions:

- `spawn_requests.state` is not a variable: each transaction that moves the
  sessions_spawn intent moves it under the same condition. The states `failed`
  (intents), `release_not_required` (leases) and `completed` are in the schema
  but never written by this code.
- The acquire and spawn intents of a request are requested in one transaction
  (the spawn's time at most one millisecond past its reserve event), the release
  intent only when both have left `pending`, so one overdue flag per request is
  enough. It is cleared when a younger intent is inserted.
- The identity checks of the first transaction (`runtime_dispatch.py:454-704`)
  refuse a request whose keys belong to other rows; with one row set per request
  they have nothing to refuse.
- The local clock and the Gateway's clock end a lease at any time.
- Whether an observation is malformed, missing or duplicated is data of the
  listing: the unmatched branch is always possible, the matched one only for
  what was listed. `CleanupUnmatched` includes the contract errors of
  `adopt_verified_lease_ownership`.
- Persisting an answer may fail for reasons inside SQLite; the handler then does
  what the uncertain branch does, which is always possible.
- The quarantine of a lease id needs a Gateway that hands out an id twice, and
  is `AdapterOwnership`'s.
- The orphan phase (`reconciliation.py:546-554`) selects acquire intents without
  lease, which the first transaction never leaves behind.

`ObjectResponses` states what the transport promises: TRUE if an answer is
always a JSON object. `_transport_response` raises `AdapterContractError` for
any other answer, after the call, and `dispatch_with_metadata` takes a contract
error of `sessions_spawn` for a call that was refused.

### How the dual-write modules correspond to the code

A first dual write is three steps in two transactions: `Prepare` commits the
`prepared` run and its projection (`shadow.py:763-906`), the file is created
outside of any transaction (`Link`, then the directory sync and the removal of
the temporary file), `BeginFinalize` and `CommitFinalize` are the transaction
that rehashes the file and finalizes the run (`shadow.py:910-929`). A retry of a
prepared run (`Recover`) does everything in one transaction, which `lock` keeps
open while the file is created. The two ends of a finalizing transaction are
separate actions because the file is not protected by the database: another
process can change it between the check and the commit. `LateCallFails` is a
call that raises after the link, upon which the target is removed
(`shadow.py:298`, `:311`); `Stop` is a killed process, or a call that raises and
leaves the target alone. `LateFailures` says whether such failures happen.

`file` holds the content of each path, a digest standing for its content. Paths
in `Edited` belong to programs that change them at will (`Edit`); the others,
the *artifacts*, are written by dual writes only. `rows` are the
`artifact_projections` of a run; they all have the authority mode of their run,
`source`. `mode` is the mode of the one workflow that is modelled.

`Backfill` hashes its artifacts before its transaction and is one action here.
That loses nothing: nothing but another backfill of the same run can come
between the hashes and a commit that succeeds (a dual write would have changed
the mode, and the commit would refuse), and the same rows result if the whole
backfill happens when the file is hashed. Several artifacts count as several
backfills of the same run.

Abstractions:

- Identities (workflow, prepare key, risk class, timestamps) are fixed by the
  run; a call with other identities raises before it changes anything.
- Runs in `file_authority` mode and the counter `open_file_authority_runs`,
  which can only forbid a promotion, are written by none of these functions.
- Exact replays of finalized runs and the audits change nothing; what they would
  report is `FinalizedKeepsArtifact`.
- The checkpoint after the last commit moves no row, and a failure there is a
  `Stop` after the commit.
- A power loss that undoes a directory entry before `_fsync_directory` is not
  modelled; processes die, the system does not.
- The canary and the heartbeat rollback, which take a workflow out of these
  modes or move the whole database away, are `DbCanary` and `ForcedRollback`.

### How the budget modules correspond to the code

The ledger is the sequence `log` of `budget_events` in the order of
`event_sequence`, with the `settlements` beside it. What a spawn has outstanding
(`Net`) and what it has used (`NetUse`) are computed from the log, as the
queries of `budgets.py` do; `reserved` and `consumed` are the counters of
`run_budgets`, which the code updates on their own. Each call is one transaction
and one action. A call that repeats a recorded key with the recorded payload is
answered from the log and changes nothing, so it is no action; one that brings
another payload, or a source that was counted before, is refused by `Fresh`. A
settlement inserts up to four events whose keys it derives from the caller's,
and an event without amounts when nothing was used and nothing is left.

`stage` and `run` are rows of other components: the ledger only reads them, and
`RecordIntent`, `RecordAcceptance`, `Complete` and `MoveRun` let them move on at
any time. `SpawnAccounts` forgets the log: an account holds, spends, gets back
and is closed. The refinement maps `held` to `Net` and `spent` to `NetUse`.

Known and estimated usage are not told apart, the columns compared on a replay
are in the call's identity, and the trusted clock only refuses calls.

### How the control-plane parts correspond to the code

The parts share no state, so `ControlPlane` chooses one of them in its first
state, and only that part moves; the others keep their initial states, and the
view of the run leaves them out. Each part's module has its own specification
(`CanarySpec`, `RollbackSpec`, ...), which the theorems are about.

- `DbCanary`: a first write or a retry is a transaction, the creation of the
  file (`ArtifactFile`), and a finalizing transaction whose two ends are
  separate actions, because the file is not protected by the database. A
  rollback is the same: it hashes the artifacts of the workflow, then commits
  (`BeginRollback`, `CommitRollback`). Workflows in `Controlled` are written
  through the controller, with the guards it adds: one run, and the evidence of
  a verifier, read before the call (`Verified`: it was there at some time) and
  again in the last transaction. Session rows and evidence are written by others
  at any time. Cutover evidence, risk and deadlines only refuse calls.
- `ForcedRollback`: the `rollback` command of the soak monitor, the only caller
  in the repository, with `force_heartbeat_file_authority_rollback` under it.
  Every move, unlink, directory and written file is a step of its own, and
  `step` says which comes next. After each the process may die or the operation
  may fail, and what the `except` and `finally` clauses do then are steps as
  well, which may fail in turn: the receipt may be there although its writing
  raised (`WriteReceipt`), the guard may not be removed (`ReleaseFails`, with
  the rollbacks it happened to in `stuck`), the receipt may not be unlinked
  (`Undo`), the clean-up may end half-way (`GiveUp`). The receipt path is an
  argument of the function; the monitor passes the one of its state directory,
  so there is one `receipt`. Its hash is bound to the authentication intent
  (`bound`), then signed (`signature`); a command that finds a receipt reads it
  again (`Reread`), and `rolledBack` is the receipt that was last reported.
  `source` is what is at the path of the database: a database, or the guard
  directory of a process. A database lock belongs to the database, not to its
  path, and `holder` keeps it while the file moves. Shadow cycles create a
  database where they find none. One sidecar stands for `-wal` and `-shm`, which
  are moved alike.
- `RuntimeAttestation`: both clocks are numbers; the wall clock is set at will,
  the monotonic one passes. `AttestationCurrent` is the question every
  application call asks.
- `AdapterOwnership`: calls are synchronous, so a call with its answer is one
  action, and the Gateway answers with any identity. `claims` and `accepted` are
  history: for whom the Gateway named a lease since its last release, and which
  spawns returned. A lapse of the attestation between call and answer loses the
  answer. Another identity at a refresh removes the adapter for good.
- `MetadataProbe`: what the probe keeps by key and by identity; an answer may
  carry any metadata, and only answers that are returned are steps.
- `TrustChain`: each writer is one transaction that reads the evidence artifact
  again right before its commit, hence one action. `stale` holds the workflows
  that logged an input after an audit, as the triggers and the input log of the
  migrations record it; times are set freely.
- `MigrationRuns`: a migration is one transaction; the reads around it are
  steps, and a process that knows fewer migrations raises when it sees more.
- `LegacyImport`: reading the source, promoting all rows of a batch in one
  transaction, recording a quarantine in another. Money is digits and exponent,
  with the sign, converted by `Microusd` as the code does. The runtime settles
  the same identities meanwhile. A row has two identities, its idempotency key
  and its dedupe hash, each compared by itself (`legacy_import.py:639-654`); they
  are one key here, so rows that share only one of the two are not explored.
- `SoakMonitor`: five files written one after the other, a process that may die
  between any two writes, a wall clock that is set and a monotonic one that
  starts again at a reboot. `status` reads the envelope and later writes back
  what it read (`ReadStatus`, `WriteStatus`). Signatures vouch for what the
  monitor wrote, so they always verify. A verdict the other files do not support
  raises and leaves the envelope as it was, except that a run which starts on an
  unsupported "running" fails closed (`WriteVerdict`).
- `LiveProbe`: acquire and spawn answers may be lost, may lack the metadata that
  proves whose they are, and may name aliases; a lost acquire may take effect
  later. The cleanup releases what is proven to be of this run, one lease at a
  time, and the report says what it could not confirm. A keyboard interrupt
  during the cleanup, after which nothing is reported, is not modelled.
- `RuntimeCatalog`: the installed executable and its sources are replaced file
  by file while the preflight takes digests, calls and scans. `todo` lists the
  steps left; a `tools.catalog` that fails leads to the other order of checks. A
  content that comes back unnoticed is excluded (versions only grow): no
  comparison of digests could see it. The binding to the worktree is taken after
  the program itself was imported.

## 4. What the runs check

| Run | Instance | Properties |
|---|---|---|
| `dispatch_slot` | 3 requests, one slot, 2 callers, 1 pass, any answers | `OneSpawnPerSlot`, `DispatchInv`, `SlotHandover`, `ImplementsArbiter` |
| `dispatch_passes` | 2 requests, one slot, 1 caller, 2 passes | `ReleaseOnlyUnspawned`, `AcceptedSpawnHasProof`, `AnswerHasSession`, `VerdictIsFinal` |
| `dispatch_progress` | 2 requests, one slot, 1 caller, 1 reliable pass, fair | `IntentsAreResolved` |
| `expired_slot` | 2 requests, one slot, 1 caller, 1 pass | violates `TerminalFailureFreesSlot` |
| `released_spawned` | the same, answers of any kind | violates `ReleaseOnlyUnspawned` |
| `release_unreconciled` | 1 request, fair, reliable pass | violates `ReleasesAreReconciled` |
| `shadow_races` | 2 processes, 3 runs, an artifact and an edited file, no late failures | `ShadowInv`, `ImplementsRegister` |
| `shadow_recovery` | 1 process that retries, 1 that may stop for good, 2 runs on one path, late failures, fair | `ArtifactHasEvidence`, `PreparedIsSettled` |
| `shadow_unlink` | 2 processes, 1 run, late failures | violates `FinalizedKeepsArtifact` |
| `budget_ledger` | 2 spawns, 4 keys, 5 amounts, prices 1.5 and 0.5, at most 5 events | `TypeOK`, `CountersMatchLedger`, `WithinLimit`, `CostCovered`, `SourceCountedOnce`, `SettlementIsExact`, `UnknownFreezesRun`, `ImplementsAccounts` |
| `control_plane` | the eleven parts, see below | `ControlTypeOK` and the 17 properties below |
| `rollback_twice` | 2 processes with one rollback id, 3 databases | violates `DatabaseIsRecoverable` |

Dispatching:

- `OneSpawnPerSlot`: whatever dies, times out or answers late, no second
  `sessions_spawn` call leaves for a slot. It rests on `PotentiallyLive`: every
  row that may still call keeps the slot closed. `DispatchInv` is the inductive
  invariant that shows it, with the types.
- `SlotHandover`: a slot is given to a new dispatch only when the earlier ones
  are over at the Gateway too, not just in the database.
- `ImplementsArbiter`: callers, passes, crashes and Gateway together refine
  `SpawnArbiter`, where a slot admits one request at a time, a withdrawn request
  never calls and a verdict is given once. `admitted` is the set of requests
  with rows, `withdrawn` those that match the guard's exception, `called` and
  `started` come from the Gateway, `verdict` from the spawn row.
- `ReleaseOnlyUnspawned`: a release is prepared only if no spawn call left or
  can still leave. Two passes and a slow caller are what could break it: the
  cleanup query reads rows another process is about to change.
- `VerdictIsFinal`: accepted, reconciled and human review of a spawn, the
  closed lease states and a settled release are never overwritten.
- `AcceptedSpawnHasProof`, `AnswerHasSession`: an acceptance, whether recorded
  by the caller or reconstructed by a pass from its listing, has a session and a
  held lease behind it; an answer by replay too.
- `IntentsAreResolved`: no intent is pending or unknown for ever.

Artifacts:

- `FinalizedKeepsArtifact`: a finalized dual write can be replayed and audited
  for ever: its run has one projection and its artifact the recorded content. It
  is a conjunct of `ShadowInv`, the inductive invariant that shows it.
- `ArtifactHasEvidence`: no interruption leaves a file at an artifact's path
  without the run that recorded exactly this content.
- `ImplementsRegister`: the protocol refines `ArtifactRegister`. There a run
  declares its artifact once and before it exists, only declared content is
  written and never over another, a run is sealed while its artifact is there,
  and only an artifact that no sealed run declares is taken back. The mapping
  restricts files and runs to artifacts.
- `PreparedIsSettled`: with exact retries, a prepared run is finalized, or a
  competing run has given the artifact another content.
- `CanaryImplementsRegister`: canary writes refine the same register, across
  workflows.
- `RolledBackIsClosed`: once a workflow is back in file authority none of its
  runs is open, and its artifacts are the recorded ones, although writers in the
  middle of a call looked at the mode before the rollback.
- `ControlledRunIsProven`: a controlled run is finalized only while its
  verifier's evidence is there.

Budgets:

- `CountersMatchLedger`: the counters, which are updated on their own, are what
  the log says, spawn by spawn.
- `WithinLimit`, `CostCovered`: the run stays within its budget, and no sequence
  of partial releases, uses and restores leaves a reservation that cannot pay
  for its own tokens, or usage recorded too cheaply.
- `SourceCountedOnce`, `SettlementIsExact`: a source of usage is counted once,
  as an event or in a settlement, and the derived events of a settlement add up
  to what it says, with nothing left outstanding.
- `UnknownFreezesRun`: unknown usage is final.
- `ImplementsAccounts`: every call is one legal movement of one account.

Heartbeat shadow:

- `DatabaseIsRecoverable`: after every failure and crash the first database is
  at its place or in a backup.
- `ReportIsTrue`: what the monitor reported as rolled back has its receipt and a
  database with its sidecar in the backup, and nothing blocks the path. A
  receipt alone says less (section 6), which is why the command reads the files
  again before it reports.
- `AbandonedGuardIsRecoverable`: a guard left behind has a receipt, or what a
  retry needs to remove it; or its removal failed when the recovery intent was
  already gone. Such a guard stays until somebody removes it, and the database
  is in the backup.
- `CompleteIsEarned`: an envelope that says complete has a passing, archived
  sample for every interval of the soak on both clocks, whatever was killed,
  restarted, stopped, rolled back or set back meanwhile.

Adapter, attestation, probes:

- `UseIsBounded`: no attestation is used longer than its lifetime and the skew,
  on a clock nobody sets.
- `CallsUseOwnLease`, `SessionsAreDistinct`: a lease id given out twice is never
  used again, and no two spawns are told the same session.
- `IdentitiesAreStable`: the same for the metadata probe, over replays, reads
  and releases.
- `LiveReportIsTrue`: a pass means one lease, gone, and one session; every lease
  that an answer to an acquire named is gone, listed as unresolved, or the
  report says that not all is released.
- `CatalogIsBound`: the sources a catalog lists are the ones every scan read, the
  executable the one every call was made with, and the commit it is written for
  the only one there was since the binding.

Gates, migrations, imports:

- `TrustIsCurrent`: behind active trust every query has a passed audit after
  which nothing of the run's workflow was written, whatever the clocks showed.
- `ApprovalIsUsedOnce`: one approval, one gate or goal run.
- `MigrationsRunOnce`: the scripts that took effect are the first of the
  manifest, each once and in order, and exactly these are recorded.
- `ImportIsExact`: a batch is whole or absent, its money exact, and no identity
  is explained by two raw rows.

`ControlTypeOK` is the type invariant of the part that moves; for the live probe
it also says that a release is tried only for leases that are to be released.

### Bounds

Two requests suffice to compete; the third lets a slot be handed on twice. Two
callers give a live rival and a late one, two passes give the race between
listings and cleanups. Each process is cyclic and nothing but these sets bounds
the state space, so the dispatch runs are complete for their instance. Deadlock
is checked in all of them: an idle pass can always start.

For the dual write, two contents and two runs make a contest for a path, the
third run comes after it is decided; the edited path is what backfills and
promotions need. Deadlock is not checked where nothing is edited: once all runs
are finalized, or the workflow is in file authority, no call changes anything.

For the budget, two spawns compete for one limit, and `MaxSequence` = 5 is enough
for a reserve, a use, a restore and a settlement, or for two spawns with a
settlement; the prices make a single token cost a fraction, so that splitting an
amount changes its rounded cost. The run ends when `MaxSequence` is reached, so
deadlock is not checked, as in the code the ledger ends there
(`_MAX_EVENT_SEQUENCE`).

For the control plane:

- canary: 2 processes, 3 runs in a free and a controlled workflow, an artifact
  and an edited file, 2 contents;
- forced rollback: 1 process that is called again and again with 2 rollback
  ids, 3 databases (`MaxDatabases`), so that a recreated one is moved as well;
  two processes are in `rollback_twice`;
- attestation: lifetime 2, skew 1, clocks up to 4 (`LastTick`), past the longest
  possible use;
- adapter and metadata probe: 2 identities or keys, 2 owners, 2 leases, 2
  sessions, which is every collision of two requests;
- trust: 2 queries, 3 audits, 2 approvals, 2 goal runs, 2 clock values
  (`LastTime`); the audited workflow is the run's own, as inputs of the others
  can only make a promotion refuse;
- migrations: 3 processes, one of an older release that knows one migration less;
- legacy import: 2 importers, 2 batches, 3 raw rows of which a source holds up
  to two (`MaxRows`): one amount written in two ways and another amount.
  Amounts over the maximum and inexact ones are covered by the assumption
  `ConversionIsExact`, which TLC evaluates over all decimals of up to three
  digits and six exponents;
- soak: interval 1, duration 2, clocks up to 3 (`LastReading`), so that a soak
  may complete, be late, or be overtaken on one clock only;
- live probe: 3 leases, any of which an earlier run may have left, 2
  sessions;
- catalog: 2 sources, 2 versions of each file and of the worktree
  (`MaxVersion`).

Several parts end (a batch or a probe is done, a clock or a version is at its
bound), so deadlock is not checked. The parts share model values, and each is
symmetric in the three pairs that are permuted.

### Fairness

`FairSpec` of `DispatchSystem` assumes that the passes in `Reliable` take their
steps (they are not killed, and start again when they have ended) and that time
passes. The repository has no scheduler: `reconcile_unknown_metadata` is run by
the operator or a cron job, and running it again and again is what its README
expects. Nothing is assumed of callers, of other passes or of the Gateway: calls
may stay on the wire for ever.

`FairSpec` of `DualWrite` assumes that a process inside a call goes on or dies
(its transaction ends either way), and that the process in `Reliable` retries
each prepared run and does not fail at the same point for ever: strong fairness
of its steps, because other processes may hold the database or a call may fail
any number of times in between. The README calls for the exact retry
(`src/README.md:137-139`); who retries is the operator.

The other parts have safety properties only: nothing in the code makes an
operator call them again.

### What the violation runs show

- `expired_slot`: a lease that expired locally before the spawn call leaves the
  reason "spawn blocked by locally expired allow lease", which the guard's
  pattern `spawn blocked by allow lease%` does not match. The slot stays closed,
  while the README says that terminal pre-spawn failures do not occupy it.
- `released_spawned`: with a transport that answers `sessions_spawn` with
  something else than an object, the lease of a call that was made is released.
- `release_unreconciled`: an open release is always sent to human review; no
  pass completes it, although the README says release-pending leases are
  reconciled from exact release metadata.
- `shadow_unlink`: a writer has linked its file; an exact retry in another
  process finds it and goes to finalize the run; then the directory sync of the
  first writer fails and it removes the target. The run is finalized, its
  artifact is gone, and the exact replay the README calls a no-op raises.
- `rollback_twice`: a second call with the same rollback id takes the guard of a
  call that is still under way for one left behind, because it looks at the
  files only (`heartbeat_shadow.py:951-958`). The first call puts the database
  back, and the removal the second one meant for the guard
  (`heartbeat_shadow.py:978`) unlinks the database. With one process at a time
  the same property holds in `control_plane`.

## 5. Proofs

Each theorem is about the specification of its component, for all values of the
constants that the named assumptions admit; TLC evaluates the assumptions in
every run of the module. Every safety property of a passing run is a theorem.
`ShadowInv`, the inductive invariant of the dual writes, is an invariant of
`shadow_races` itself.

Three hypotheses of theorems are no assumptions of the modules, because the code
does not make sure of them. Each is needed, and a run shows it:

| Hypothesis | Says | Without it |
|---|---|---|
| `ObjectResponses` | the transport answers with JSON objects only | `released_spawned`, `ReleaseOnlyUnspawned` |
| `OneWriterIfLate` | no call after a link fails, or one process writes | `shadow_unlink`, `FinalizedKeepsArtifact` |
| `OneProcess` | one process at a time forces a rollback | `rollback_twice`, `DatabaseIsRecoverable` |

### Dispatch

`DispatchProofs` and `ReleaseProofs` prove, for all sets of requests, slots,
callers and passes:

| Theorem | Statement | From |
|---|---|---|
| `TypeCorrect` | `Spec => []TypeOK` | |
| `SlotInvariant`, `SpawnIsUniquePerSlot` | `Spec => []OneSpawnPerSlot` | `DispatchInv` |
| `VerdictsAreFinal` | `Spec => VerdictIsFinal` | `RowsInsertedTogether` |
| `AnswersAreGrounded` | `Spec => []AnswerHasSession` | `AnswerInv` |
| `HandoverInvariant`, `HandoverIsSafe` | `Spec => SlotHandover` | `HandoverInv` |
| `DispatchImplementsArbiter` | `Spec => ImplementsArbiter` | `DispatchInv`, `HandoverInv` |
| `LeaseInvariant`, `ReleaseIsSafe` | `Spec => []ReleaseOnlyUnspawned` | `ReleaseInv`, `ObjectResponses` |
| `AcceptanceIsProven` | `Spec => []AcceptedSpawnHasProof` | `ReleaseInv`, `ObjectResponses` |

`OneSpawnPerSlot` is not inductive: it says nothing of callers that are about to
call. `DispatchInv` adds that a request is worked on by one caller
(`OneCallerPerRequest`), which has not called before (`NotYetCalled`); that a
request that has called or may call has a row without the reason that frees the
slot (`MayCallIsLive`); and that at most one request of a slot is such
(`OneMayCallPerSlot`). The decisive step is `Begin`: its guard
`NoPotentiallyLiveRival` and `MayCallIsLive` exclude a rival that may call. All
other steps are *calm*: they make no request newly able to call and block none
that may, which `CalmKeepsInv` turns into preservation.

`HandoverInv` follows the lease from its acquire call to its end: the call leaves
once (`AcquireLeavesOnce`), a caller that waits for it has sent it
(`AcquiringHasLeft`), a lease the rows know exists at the Gateway
(`KnownLeaseExists`), a release call has its intent (`ReleaseCallIsPrepared`), and
a lease the rows call over is over there too (`EndedLeaseIsOver`). It needs no
hypothesis on the transport. The simulation of `SpawnArbiter` goes action by action
(`CallerSimulates`, `ReleaseSimulates`, `ItemSimulates`): a transaction that lets
a request in, its spawn call, the session that appears, and every verdict are
one step of the arbiter, the release that frees a slot is its `Withdraw`, and
all else stutters.

`ReleaseInv` carries through the passes what the cleanup query read: items of a
cleanup are blocked before their call (`CleanupItemsBlocked`, which with
`MayCallIsLive` excludes a call), a pass that releases works on such an item,
items of the spawn phase still have their lease proof, listed sessions exist.
Without `ObjectResponses` the step `SpawnRefused` releases a lease whose call
was made.

### Dual writes and the canary

`DualWriteProofs` and the first half of `AuthorityProofs` prove, for all sets of
processes, workflows, runs, paths and contents:

| Theorem | Statement | From |
|---|---|---|
| `RowsInvariant`, `NoUnrecordedArtifact` | `Spec => []ArtifactHasEvidence` | `RowsInv` |
| `ShadowInvariant`, `FinalizedArtifactStays` | `Spec => []FinalizedKeepsArtifact` | `ShadowInv`, `OneWriterIfLate` |
| `RegisterIsImplemented` | `Spec => ImplementsRegister` | the same |
| `CanaryRowsInvariant`, `RollbackIsFinal` | `CanarySpec => []RolledBackIsFinal` | `CanaryRowsInv` |
| `ControlledRunsAreProven` | `CanarySpec => ControlledRunIsProven` | `CanaryRowsInv` |
| `CanaryInvariant`, `RollbackCloses` | `CanarySpec => []RolledBackIsClosed` | `CanaryInv`, `OneWriterIfLate` |
| `CanaryRegisterIsImplemented` | `CanarySpec => CanaryImplementsRegister` | the same |

Both invariants have two halves. The first is about rows, positions of processes
and the lock, and is inductive whatever fails: a run has its one projection, a
process writes what the row of its run declares (`JobsAreDeclared`,
`WritesProjection`), and what the holder of the lock has checked still holds
(`CheckedHoldsLock`, `HashedHoldsLock`). The second half is about files and needs
`OneWriterIfLate`. `FinalizedKeepsArtifact` is not inductive: a commit relies on
a file that was looked at earlier. `ShadowInv` adds that from its link or its
check to its commit the file is there (`LinkedFileIsThere`), and that no
finalized run depends on a link that can still be taken back
(`LinkedIsUnsealed`). The decisive steps are `Link`, which creates only where
nothing was, so that nobody relied on the path, and `CommitFinalize`, where the
hypothesis excludes a late failure of another process. The refinements are
proved action by action: every step is a step of `ArtifactRegister` or leaves
the mapped state alone.

### The forced rollback

The second half of `AuthorityProofs` proves under `OneProcess`:
`DatabaseStaysRecoverable` (`[]DatabaseIsRecoverable`), `ReportStaysTrue`
(`[]ReportIsTrue`) and `GuardsAreRecoverable` (`[]AbandonedGuardIsRecoverable`),
from `RollbackInv`: for every step a call can be at, where the database, its
sidecar, the guard, the recovery intent and the receipt are (`CallInv`), and what
a guard stands beside: a receipt, an intent whose backup is there, or, where its
removal failed, the backup (`GuardHasReason`). A report
stays true because it needs the receipt, its backup and a free path together,
and nothing after it takes one of them away: a call that meets a receipt does no
more than read it.

### Budgets

`BudgetProofs` proves, for any finite set of spawns and any calls, amounts,
prices and limits: `LedgerIsConsistent` (`[]BudgetInv`), and from it
`LedgerIsTyped`, `CountersAreTheLedger` (`CountersMatchLedger`),
`CostStaysCovered` (`CostCovered`), `TokensArePaidFor` (the recorded and the held
cost are at least the exact price of all tokens, roundings included:
`RoundedUpPays`, `FundedPays`), `SourcesCountOnce`, `SettlementsStayExact`
(`SettlementIsExact`), `BudgetIsNeverExceeded` (`WithinLimit`),
`UnknownUsageFreezes` (`UnknownFreezesRun`) and `LedgerImplementsAccounts`
(`ImplementsAccounts`).

`LedgerInv` says of the log, the settlements and the counters together what each
call needs to keep them so: links name known events, a settled spawn has
completed, no source counts twice, counters are sums of entries. `BudgetInv`
adds the invariant of the abstract accounts, and that the run's own use is
funded. A call is first taken apart into the entries it appends (`ClientCall`,
`SettlementCall`), then what one entry does to every sum is computed
(`SumsOfAppend`), and both together give the counters and the movement of one
account (`ReserveStep` to `SettleStep`).

The sums are recursive functions over the length of the log and over the set of
spawns. What they compute is proved by induction, from the fact that a non-empty
set of naturals has a least element (`LeastNatural`, `Inductive`): existence and
uniqueness first (`SumsExist`, `PartialExists`), then the recursion equations
(`SumIs`, `TotalIs`), then how a change of one summand changes a sum.

`BudgetAssumption` includes that keys of clients are not derived keys: the code
forms the key of a settlement's event from the settlement's with a NUL between,
and looks for no NUL in the keys it is given.

`AccountProofs` proves of the abstract accounts `AccountsStayFunded`
(`AccountsSpec => []AccountsFunded`) and `ClosedStaysEmpty`. What is given back
or used leaves a funded rest by its guard; that two funded amounts are funded
together is the subadditivity of rounding up (`CeilingOfSum`, `RoundedUpOfSum`,
`FundedOfSum`).

### Trust, migrations, attestation, adapter

`TrustProofs` proves without hypotheses:

- `TrustStaysCurrent`, `ApprovalsAreSingleUse`: `TrustSpec => []TrustIsCurrent`
  and `[]ApprovalIsUsedOnce`, from `TrustInv`, which adds that a consumed
  approval names its user (`GateApprovalIsConsumed`, `GoalApprovalIsConsumed`);
- `MigrationsRunInOrder`: `MigrationSpec => []MigrationsRunOnce`. A process may
  work with an old reading of what is recorded; `SnapshotsAreRecorded` says that
  the reading is never too large, so that a version that is still missing in its
  own transaction is the next one;
- `AttestationUseIsBounded`: `AttestationSpec => []UseIsBounded`, from what the
  attestor checked when it accepted (`DeadlineIsAccepted`): the deadline is the
  remaining lifetime on the monotonic clock, and the issue time is at most the
  skew after the acceptance;
- `CallsAreOwn`, `SessionsStayDistinct`: `AdapterSpec => []CallsUseOwnLease` and
  `[]SessionsAreDistinct`. Until the adapter is removed, a lease that is not in
  quarantine was named for its cached owner only, or for nobody
  (`ClaimsAreCached`); the session caches agree with the answers.

### Probes, soak monitor, legacy import

`ControlProofs` proves without hypotheses:

- `IdentitiesStayStable`: `MetadataSpec => []IdentitiesAreStable`, from
  `MetadataInv`: the books agree in both directions with what was answered;
- `LiveReportStaysTrue`: `LiveSpec => []LiveReportIsTrue`, from `LiveInv`: one
  lease and one session per probe, and a report that stays what it was;
- `CatalogStaysBound`: `CatalogSpec => []CatalogIsBound`, from `CatalogInv`. Its
  core is `WellPlanned`, what a list of steps still to do has to contain, and
  lemmas about tails of such lists; `DigestsAreOldest` ties every later reading
  of a file to the first one;
- `CompleteStaysEarned`: `SoakSpec => []CompleteIsEarned`, from `SoakInv`: the
  samples of the core receipt follow each other without a gap from the start on
  and the last one decides its status (`CoreIsChained`), every step of the
  monitor finds what it was reached with (`StepsAgree`), and a complete envelope
  stands on a complete core, journal and snapshot ledger (`CompleteIsFinal`);
- `ImportStaysExact`: `LegacySpec => []ImportIsExact`, from `LegacyInv`. That the
  integer written down is the exact amount (`MicrousdIsExact`) is an induction
  over the digits and over the zeros that an exponent moves (`SpelledIs`,
  `TenToIs`, `ZerosMove`);
- `MoneyIsConverted`: the conversion of money (`Microusd`) gives the exact amount
  whenever there is one within the limit and refuses whenever there is none, for
  any digits that do not begin with a zero. The second half rests on two facts
  about decimal digits: as many digits spell a number that is as long
  (`SpelledIsLong`), and a multiple of a power of ten ends in that many zeros
  (`MultipleEndsInZeros`), so that neither the early check of the first digit's
  exponent nor the count of trailing zeros refuses an amount that fits;
- `PartsKeepTypes`: `ControlSpec => []ControlTypeOK`, from the invariants of all
  parts;
- `PartsAreThemselves`: `ControlSpec` implies the specification of every part, so
  that what is proved of `CanarySpec`, `TrustSpec` and the others holds of what
  the run `control_plane` checks.

### Only model-checked

`IntentsAreResolved` and `PreparedIsSettled`: liveness under fairness is out of
the prover's reach. Every other property of the passing runs is a theorem.

## 6. Not modelled

- Predicates: an evaluation without state whose document grammar would be
  transliterated.
- The command line, the privacy preflight and the SLO query texts, which keep no
  state.
- The shadow cycle and the heartbeat dual write, as far as they only call
  `shadow.py` and audit parity.
- `agentic_os_runtime_source_contract.py`, a tokenizer of JavaScript.
- The isolated Gateways that the contract probes start, and how their processes
  are cleaned up: that all of them are gone cannot be stated of this code, which
  polls a tree of processes (a fork after the last poll, or a reused process id,
  escapes it).
- The persistent attestation path, which the code disables
  (`_require_trusted_persistent_lifecycle_boundary` always raises).
- Two soak monitors on one state directory. Nothing forbids them; they
  interleave in every file.
- A power loss, which may undo a link or a rename before its directory is
  synced; the moment between the last comparison of an evidence file and the
  commit; the exact contents of identities, metadata, timestamps and digests.

Met while modelling, and stated by no property: a receipt with status "pass" may
stand beside the database that was put back, when the sync of its directory fails
after it was replaced (`heartbeat_shadow.py:230-235`; the call does not know of it,
`:1868-1869`) or when it cannot be unlinked (`:1903-1906`), while
`test_heartbeat_shadow.py:1027` expects none after a rollback that was taken back.
`ForcedRollback` has both ways (`WriteReceipt`, `Undo`), `ReportIsTrue` holds in
spite of them, and every later rollback refuses until somebody removes the
receipt. A retry with the same rollback id after a crash that left the audit
snapshot raises (`heartbeat_shadow.py:654`); a database that is recreated during
a rollback is unlinked without its sidecars (`heartbeat_shadow.py:882`); a lease
that a duplicate acquire was given, and that no answer named, stays held until
its time is over although the live probe reports `released: true`
(`docs/agentic-os-production-adaptation.md:56`).
