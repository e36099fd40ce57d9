------------------------------ MODULE DualWrite ------------------------------
(***************************************************************************)
(* shadow.py: file artifacts with parity evidence in SQLite.  A dual write *)
(* commits a prepared run with its projection, creates the file, and       *)
(* commits the run as finalized; an exact retry takes up a prepared run    *)
(* inside one transaction.  Backfill records the files that are there, and *)
(* a workflow is promoted from backfill to dual write when all of its      *)
(* recorded files are still what was recorded.  One workflow is modelled.  *)
(***************************************************************************)
EXTENDS ArtifactFile

CONSTANT Reliable   \* processes that retry until they succeed

ASSUME ReliableAssumption == Reliable \subseteq Writers

VARIABLES
  mode,     \* workflow_authority.mode, "none" without a row
  state,    \* runs.state, "none" without a row
  source,   \* runs.authority_mode and the source of the run's projections
  rows      \* artifact_projections of each run

rowVars == <<mode, state, source, rows>>
vars == <<fileVars, rowVars>>

Mode == {"none", "file_authority", "file_authority_shadow", "dual_write_shadow"}

RowTypeOK ==
  /\ mode \in Mode
  /\ state \in [Runs -> {"none", "prepared", "finalized"}]
  /\ source \in [Runs -> Mode]
  /\ rows \in [Runs -> SUBSET (Paths \X Contents)]

Init ==
  /\ FileInit
  /\ mode \in {"none", "file_authority"}
  /\ state = [r \in Runs |-> "none"]
  /\ source = [r \in Runs |-> "none"]
  /\ rows = [r \in Runs |-> {}]

IsDual(r)   == source[r] = "dual_write_shadow"
IsShadow(r) == source[r] = "file_authority_shadow"

-----------------------------------------------------------------------------
(* Workflow modes *)

\* _assert_workflow_shadow_parity raises nothing.
ShadowParity ==
  /\ \E r \in Runs : IsShadow(r)
  /\ \A r \in Runs : IsShadow(r) => \A i \in rows[r] : file[i[1]] = i[2]

MayDualWrite(newWorkflow) ==
  \/ mode = "dual_write_shadow"
  \/ mode = "file_authority_shadow" /\ ShadowParity
  \/ mode = "none" /\ newWorkflow

MayBackfill == mode # "dual_write_shadow"

-----------------------------------------------------------------------------
(* dual_write_shadow_artifact *)

\* Mutant: a run that has a projection gets another one.
PrepareMore(w, j, newWorkflow) ==
  /\ at[w] = "idle" /\ lock = Nobody
  /\ file[j.path] = Absent
  /\ MayDualWrite(newWorkflow)
  /\ mode'   = "dual_write_shadow"
  /\ state'  = [state  EXCEPT ![j.run] = "prepared"]
  /\ source' = [source EXCEPT ![j.run] = "dual_write_shadow"]
  /\ rows'   = [rows   EXCEPT ![j.run] = @ \cup {<<j.path, j.sha>>}]
  /\ job'    = [job    EXCEPT ![w] = j]
  /\ Goto(w, "create")
  /\ UNCHANGED <<file, lock>>

\* First transaction of a first write.
Prepare(w, j, newWorkflow) ==
  /\ at[w] = "idle" /\ lock = Nobody
  /\ rows[j.run] = {}
  /\ file[j.path] = Absent
  /\ MayDualWrite(newWorkflow)
  /\ mode'   = "dual_write_shadow"
  /\ state'  = [state  EXCEPT ![j.run] = "prepared"]
  /\ source' = [source EXCEPT ![j.run] = "dual_write_shadow"]
  /\ rows'   = [rows   EXCEPT ![j.run] = {<<j.path, j.sha>>}]
  /\ job'    = [job    EXCEPT ![w] = j]
  /\ Goto(w, "create")
  /\ UNCHANGED <<file, lock>>

\* Mutant: a retry may bring another content.
ReplayOfPath(j) == IsDual(j.run) /\ \E c \in Contents : rows[j.run] = {<<j.path, c>>}

\* The row of the run is the projection of this call, and its only one.
ExactReplay(j) == IsDual(j.run) /\ rows[j.run] = {<<j.path, j.sha>>}

\* Mutant: a retry refuses the file of the interrupted write.
RecoverAbsent(w, j) ==
  /\ at[w] = "idle" /\ lock = Nobody
  /\ ExactReplay(j)
  /\ state[j.run] = "prepared"
  /\ file[j.path] = Absent
  /\ Goto(w, "create")
  /\ job'  = [job EXCEPT ![w] = j]
  /\ lock' = w
  /\ UNCHANGED <<file, rowVars>>

\* An exact retry of a prepared run keeps its transaction open to the end.
\* (A replay of a finalized run reads only; every other replay raises.)
Recover(w, j) ==
  /\ at[w] = "idle" /\ lock = Nobody
  /\ ExactReplay(j)
  /\ state[j.run] = "prepared"
  /\ \/ /\ file[j.path] = j.sha
        /\ Goto(w, "checked")
     \/ /\ file[j.path] = Absent
        /\ Goto(w, "create")
  /\ job'  = [job EXCEPT ![w] = j]
  /\ lock' = w
  /\ UNCHANGED <<file, rowVars>>

\* Last transaction of a first write.
BeginFinalize(w) ==
  /\ at[w] = "created" /\ lock = Nobody
  /\ file[job[w].path] = job[w].sha
  /\ state[job[w].run] = "prepared"
  /\ Goto(w, "checked")
  /\ lock' = w
  /\ UNCHANGED <<file, job, rowVars>>

\* A recovery commits without reading again the file it has created.
CommitFinalize(w) ==
  /\ lock = w
  /\ at[w] \in {"created", "checked"}
  /\ state' = [state EXCEPT ![job[w].run] = "finalized"]
  /\ Leave(w)
  /\ UNCHANGED <<file, mode, source, rows>>

-----------------------------------------------------------------------------
(* backfill_file_authority_shadow, one transaction *)

Backfill(r, S) ==
  /\ lock = Nobody
  /\ MayBackfill
  /\ \A p \in S : file[p] # Absent
  /\ state[r] = "none" \/ IsShadow(r)
  /\ \A i \in rows[r] : i[1] \in S => i[2] = file[i[1]]
  /\ mode'   = "file_authority_shadow"
  /\ state'  = [state  EXCEPT ![r] = "finalized"]
  /\ source' = [source EXCEPT ![r] = "file_authority_shadow"]
  /\ rows'   = [rows   EXCEPT ![r] = @ \cup {<<p, file[p]>> : p \in S}]
  /\ UNCHANGED fileVars

-----------------------------------------------------------------------------
CreateStep(w) == Link(w) \/ LateCallsSucceed(w) \/ LateCallFails(w)

\* What a process does once it is inside the call.
Continue(w) ==
  \/ CreateStep(w) /\ UNCHANGED rowVars
  \/ BeginFinalize(w)
  \/ CommitFinalize(w)
  \/ Stop(w) /\ UNCHANGED rowVars

Next ==
  \/ \E w \in Writers, j \in Job :
       Recover(w, j) \/ \E newWorkflow \in BOOLEAN : Prepare(w, j, newWorkflow)
  \/ \E w \in Writers : Continue(w)
  \/ \E r \in Runs, S \in (SUBSET Paths) \ {{}} : Backfill(r, S)
  \/ \E p \in Edited : Edit(p) /\ UNCHANGED rowVars

Spec == Init /\ [][Next]_vars

-----------------------------------------------------------------------------
(* Properties *)

Artifacts == Paths \ Edited

TypeOK == FileTypeOK /\ RowTypeOK

\* A finalized dual write can be replayed and audited: its run holds one
\* projection, and an artifact that no other program edits has the recorded
\* content.  Until then dual_write_shadow_artifact and audit_dual_write_shadow
\* would report a missing or drifted artifact.
FinalizedKeepsArtifact ==
  \A r \in Runs : IsDual(r) /\ state[r] = "finalized" =>
    \E p \in Paths, c \in Contents :
      rows[r] = {<<p, c>>} /\ (p \in Artifacts => file[p] = c)

\* No file appears at the path of an artifact without a run that has recorded
\* exactly this content, whichever calls were interrupted: the order of the
\* prepare transaction and the link.
ArtifactHasEvidence ==
  \A p \in Artifacts : file[p] # Absent =>
    \E r \in Runs : IsDual(r) /\ rows[r] = {<<p, file[p]>>}

-----------------------------------------------------------------------------
(* The inductive invariant behind FinalizedKeepsArtifact. *)

\* A run has rows, a dual run exactly one, and only dual runs are prepared.
RunsMatchRows ==
  \A r \in Runs :
    /\ (rows[r] = {}) <=> (state[r] = "none")
    /\ state[r] = "prepared" => IsDual(r)
    /\ IsDual(r) => \E p \in Paths, c \in Contents : rows[r] = {<<p, c>>}

\* A process writes what the row of its run says.
JobsAreDeclared ==
  \A w \in Writers : at[w] # "idle" => job[w] \in Job /\ ExactReplay(job[w])

\* From its link to its commit a process can rely on the file.
LinkedFileIsThere ==
  \A w \in Writers : at[w] \in {"linked", "created", "checked"} =>
    (job[w].path \in Artifacts => file[job[w].path] = job[w].sha)

\* While a link can be taken back, no finalized run depends on it.
LinkedIsUnsealed ==
  LateFailures =>
    \A w \in Writers, r \in Runs, c \in Contents :
      at[w] = "linked" /\ IsDual(r) /\ state[r] = "finalized"
        /\ job[w].path \in Artifacts
        => <<job[w].path, c>> \notin rows[r]

\* Inductive whatever fails: the rows, what processes write and what files show.
RowsInv ==
  /\ TypeOK
  /\ RunsMatchRows
  /\ JobsAreDeclared
  /\ ArtifactHasEvidence

\* What every reachable state of the protocol satisfies, if a call after the
\* link cannot fail or there is one process: see shadow_unlink.
ShadowInv ==
  /\ RowsInv
  /\ LinkedFileIsThere
  /\ LinkedIsUnsealed
  /\ FinalizedKeepsArtifact

-----------------------------------------------------------------------------
(* Refinement and liveness *)

OnArtifact(r) == \E p \in Artifacts, c \in Contents : <<p, c>> \in rows[r]

Content  == [p \in Artifacts |-> file[p]]
Declared == [r \in Runs |-> IF IsDual(r) /\ OnArtifact(r) THEN rows[r] ELSE {}]
Sealed   == {r \in Runs : IsDual(r) /\ OnArtifact(r) /\ state[r] = "finalized"}

Register == INSTANCE ArtifactRegister WITH
  content <- Content, declared <- Declared, sealed <- Sealed

\* Dual writes, retries, backfills and interruptions implement the register:
\* nothing is overwritten, and nothing sealed is taken back.
ImplementsRegister == Register!Spec

\* Every process inside a call goes on or dies; a reliable one retries, and
\* does not fail at the same point forever.
Fairness ==
  /\ \A w \in Writers : WF_vars(Continue(w))
  /\ \A w \in Reliable :
       /\ \A j \in Job : SF_vars(Recover(w, j))
       /\ SF_vars(Link(w) /\ UNCHANGED rowVars)
       /\ SF_vars(LateCallsSucceed(w) /\ UNCHANGED rowVars)
       /\ SF_vars(CommitFinalize(w))

FairSpec == Spec /\ Fairness

\* The exact retry of an interrupted dual write ends with a finalized run,
\* unless a competing run gave the artifact another content.
PreparedIsSettled ==
  \A r \in Runs, p \in Artifacts, c \in Contents :
    state[r] = "prepared" /\ rows[r] = {<<p, c>>}
      ~> state[r] = "finalized" \/ file[p] \notin {c, Absent}
=============================================================================
