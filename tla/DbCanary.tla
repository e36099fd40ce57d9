------------------------------ MODULE DbCanary ------------------------------
(***************************************************************************)
(* db_authority_canary.py and db_authority_controller.py: artifacts        *)
(* written with the database as their authority, and the rollback of a     *)
(* workflow to file authority.  A first write or a retry commits the       *)
(* prepared run, creates the file outside any transaction, and commits the *)
(* run as finalized; a rollback hashes all artifacts of the workflow and   *)
(* changes its mode in one transaction.  Writes to a controlled workflow   *)
(* go through the controller: one run, with the evidence of an independent *)
(* verifier.  Calls whose arguments do not match the recorded cutover      *)
(* evidence, projection or keys raise and change nothing, and so do first  *)
(* writes after the rollback deadline; only calls that match are modelled. *)
(***************************************************************************)
EXTENDS ArtifactFile

CONSTANTS
  Workflows,
  Controlled,     \* workflows only the expansion controller may write to
  WorkflowOf,     \* runs.workflow
  NoWorkflow      \* no rollback under way

ASSUME CanaryAssumption ==
  /\ Controlled \subseteq Workflows
  /\ WorkflowOf \in [Runs -> Workflows]
  /\ NoWorkflow \notin Workflows

VARIABLES
  authority,  \* workflow_authority.mode, "none" without a row
  canary,     \* runs.state, "none" without a row
  projection, \* artifact_projections of each run
  evidence,   \* runs with a persisted, independent verifier run
  proved,     \* runs that had one at some time
  sessions,   \* runs with rows in a session-control table
  hashed      \* workflow whose artifacts the rollback holding the lock has hashed

canaryVars == <<authority, canary, projection, evidence, proved, sessions, hashed>>
canaryPart == <<fileVars, canaryVars>>

CanaryTypeOK ==
  /\ FileTypeOK
  /\ authority \in [Workflows -> {"none", "canary", "rolled_back"}]
  /\ canary \in [Runs -> {"none", "prepared", "finalized"}]
  /\ projection \in [Runs -> SUBSET (Paths \X Contents)]
  /\ evidence \subseteq proved /\ proved \subseteq Runs
  /\ sessions \subseteq Runs
  /\ hashed \in Workflows \cup {NoWorkflow}

CanaryInit ==
  /\ FileInit
  /\ authority = [f \in Workflows |-> "none"]
  /\ canary = [r \in Runs |-> "none"]
  /\ projection = [r \in Runs |-> {}]
  /\ evidence = {}
  /\ proved = {}
  /\ sessions = {}
  /\ hashed = NoWorkflow

RunsOf(f) == {r \in Runs : WorkflowOf[r] = f /\ canary[r] # "none"}

IsControlled(r) == WorkflowOf[r] \in Controlled

-----------------------------------------------------------------------------
(* Checks inside the transactions *)

\* _assert_no_real_session_control, for the whole workflow when controlled
NoSessionControl(r) ==
  /\ r \notin sessions
  /\ IsControlled(r) => RunsOf(WorkflowOf[r]) \cap sessions = {}

\* _assert_single_workflow_projection_set
SingleProjectionSet(j) ==
  LET others == RunsOf(WorkflowOf[j.run])
  IN  others = {} \/ (others = {j.run} /\ projection[j.run] = {<<j.path, j.sha>>})

MayWrite(j) ==
  /\ NoSessionControl(j.run)
  /\ IsControlled(j.run) => SingleProjectionSet(j)

\* _ensure_canary_workflow
EnsureWorkflow(f) ==
  /\ authority[f] \in {"none", "canary"}
  /\ authority' = [authority EXCEPT ![f] = "canary"]

\* The path belongs to no other canary run, of any workflow.
PathIsFree(j) ==
  \A r \in Runs \ {j.run}, c \in Contents : <<j.path, c>> \notin projection[r]

\* The controller reads the verifier's evidence on a connection of its own:
\* that it was there at some time is all the transactions know of it.
Verified(r) == IsControlled(r) => r \in proved

-----------------------------------------------------------------------------
(* Writing *)

\* The transaction of a first write.
Prepare(w, j) ==
  /\ at[w] = "idle" /\ lock = Nobody
  /\ Verified(j.run)
  /\ canary[j.run] = "none"
  /\ MayWrite(j)
  /\ EnsureWorkflow(WorkflowOf[j.run])
  /\ PathIsFree(j)
  /\ file[j.path] = Absent
  /\ canary' = [canary EXCEPT ![j.run] = "prepared"]
  /\ projection' = [projection EXCEPT ![j.run] = {<<j.path, j.sha>>}]
  /\ job' = [job EXCEPT ![w] = j]
  /\ Goto(w, "create")
  /\ UNCHANGED <<file, lock, evidence, proved, sessions, hashed>>

\* Mutant: a retry may bring another content.
ProjectionOfPath(j) == \E c \in Contents : projection[j.run] = {<<j.path, c>>}

\* _assert_projection_matches
ProjectionMatches(j) == projection[j.run] = {<<j.path, j.sha>>}

\* The transaction of a retry changes nothing and is over before the file is
\* looked at.
Recover(w, j) ==
  /\ at[w] = "idle" /\ lock = Nobody
  /\ Verified(j.run)
  /\ canary[j.run] = "prepared"
  /\ MayWrite(j)
  /\ authority[WorkflowOf[j.run]] = "canary"
  /\ ProjectionMatches(j)
  /\ job' = [job EXCEPT ![w] = j]
  /\ Goto(w, "create")
  /\ UNCHANGED <<file, lock, canaryVars>>

\* The artifact of an earlier attempt is taken as it is.
FindArtifact(w) ==
  /\ at[w] = "create"
  /\ file[job[w].path] = job[w].sha
  /\ Goto(w, "created")
  /\ UNCHANGED <<file, job, lock, canaryVars>>

\* Mutant: the verifier's evidence is read before the call only.
MayFinalizeVerified(w) == MayWrite(job[w])

\* The checks of the last transaction; the controller adds its own.
MayFinalize(w) ==
  /\ MayWrite(job[w])
  /\ IsControlled(job[w].run) => job[w].run \in evidence

BeginFinalize(w) ==
  /\ at[w] = "created" /\ lock = Nobody
  /\ MayFinalize(w)
  /\ canary[job[w].run] = "prepared"
  /\ file[job[w].path] = job[w].sha
  /\ Goto(w, "checked")
  /\ lock' = w
  /\ UNCHANGED <<file, job, canaryVars>>

CommitFinalize(w) ==
  /\ lock = w /\ at[w] = "checked"
  /\ canary' = [canary EXCEPT ![job[w].run] = "finalized"]
  /\ Leave(w)
  /\ UNCHANGED <<file, authority, projection, evidence, proved, sessions, hashed>>

-----------------------------------------------------------------------------
(* Rollback *)

\* Mutant: a run that is prepared only does not count.
FinalRunsAreClosed(f) ==
  /\ RunsOf(f) # {}
  /\ \A r \in RunsOf(f) : r \notin sessions /\ projection[r] # {}

\* Every canary run of the workflow is finalized with one projection, and no
\* session is under its control.
RunsAreClosed(f) ==
  /\ RunsOf(f) # {}
  /\ f \in Controlled => \E r \in Runs : RunsOf(f) = {r}
  /\ \A r \in RunsOf(f) :
       /\ canary[r] = "finalized"
       /\ r \notin sessions
       /\ \E i \in Paths \X Contents : projection[r] = {i}

\* The artifacts are hashed inside the transaction.
BeginRollback(w, f) ==
  /\ at[w] = "idle" /\ lock = Nobody
  /\ authority[f] = "canary"
  /\ RunsAreClosed(f)
  /\ \A r \in RunsOf(f) : \A i \in projection[r] : file[i[1]] = i[2]
  /\ hashed' = f
  /\ lock' = w
  /\ UNCHANGED <<file, at, job, authority, canary, projection, evidence, proved, sessions>>

CommitRollback(w) ==
  /\ lock = w /\ hashed # NoWorkflow
  /\ authority' = [authority EXCEPT ![hashed] = "rolled_back"]
  /\ hashed' = NoWorkflow
  /\ lock' = Nobody
  /\ UNCHANGED <<file, at, job, canary, projection, evidence, proved, sessions>>

\* The process dies, or the transaction is rolled back.
AbortRollback(w) ==
  /\ lock = w /\ hashed # NoWorkflow
  /\ hashed' = NoWorkflow
  /\ lock' = Nobody
  /\ UNCHANGED <<file, at, job, authority, canary, projection, evidence, proved, sessions>>

-----------------------------------------------------------------------------
(* Rows other components write *)

\* Session-control rows may name any run that exists.
SessionAppears(r) ==
  /\ lock = Nobody
  /\ canary[r] # "none"
  /\ sessions' = sessions \cup {r}
  /\ UNCHANGED <<fileVars, authority, canary, projection, evidence, proved, hashed>>

\* The row of a verifier run is written, rewritten or deleted.
EvidenceChanges(r) ==
  /\ lock = Nobody
  /\ IsControlled(r)
  /\ evidence' \in {evidence \cup {r}, evidence \ {r}}
  /\ proved' = proved \cup evidence'
  /\ UNCHANGED <<fileVars, authority, canary, projection, sessions, hashed>>

Continue(w) ==
  \/ (Link(w) \/ LateCallsSucceed(w) \/ LateCallFails(w) \/ Stop(w)) /\ UNCHANGED canaryVars
  \/ FindArtifact(w)
  \/ BeginFinalize(w)
  \/ CommitFinalize(w)

CanaryNext ==
  \/ \E w \in Writers, j \in Job : Prepare(w, j) \/ Recover(w, j)
  \/ \E w \in Writers : Continue(w) \/ CommitRollback(w) \/ AbortRollback(w)
  \/ \E w \in Writers, f \in Workflows : BeginRollback(w, f)
  \/ \E r \in Runs : SessionAppears(r) \/ EvidenceChanges(r)
  \/ \E p \in Edited : Edit(p) /\ UNCHANGED canaryVars

CanarySpec == CanaryInit /\ [][CanaryNext]_canaryPart

-----------------------------------------------------------------------------
(* Properties *)

\* A workflow that was rolled back is closed: however writers, crashes and the
\* rollback interleave, none of its runs is open or opened again, and its
\* artifacts are the recorded ones unless another program edits them.
RolledBackIsClosed ==
  \A f \in Workflows : authority[f] = "rolled_back" =>
    \A r \in RunsOf(f) :
      /\ canary[r] = "finalized"
      /\ \A i \in projection[r] : i[1] \notin Edited => file[i[1]] = i[2]

\* The controlled workflow has one run, and that run is finalized only while
\* the verifier's evidence is there, although it was read long before.
ControlledRunIsProven ==
  [][\A r \in Runs : IsControlled(r) /\ canary[r] # "finalized" /\ canary'[r] = "finalized"
       => r \in evidence /\ RunsOf(WorkflowOf[r]) = {r}]_canaryPart

OnArtifact(r) == \A i \in projection[r] : i[1] \notin Edited

CanaryContent  == [p \in Paths \ Edited |-> file[p]]
CanaryDeclared == [r \in Runs |-> IF OnArtifact(r) THEN projection[r] ELSE {}]
CanarySealed   == {r \in Runs : OnArtifact(r) /\ canary[r] = "finalized"}

Register == INSTANCE ArtifactRegister WITH
  Artifacts <- Paths \ Edited,
  content <- CanaryContent, declared <- CanaryDeclared, sealed <- CanarySealed

\* Canary writes implement the register of artifacts too: nothing is
\* overwritten, and nothing sealed is taken back.  (Register!Spec, with the
\* steps of other components recognised before a step of the register is
\* looked for.)
CanaryImplementsRegister ==
  Register!Init /\ [][UNCHANGED canaryPart \/ Register!Next]_(Register!registerVars)

-----------------------------------------------------------------------------
(* The inductive invariant behind these properties *)

\* A run has a row with its one projection, or none.
RunHasProjection ==
  \A r \in Runs :
    IF canary[r] = "none" THEN projection[r] = {}
    ELSE \E p \in Paths, c \in Contents : projection[r] = {<<p, c>>}

\* A process writes what its run declares.
WritesProjection ==
  \A w \in Writers : at[w] # "idle" => job[w] \in Job /\ ProjectionMatches(job[w])

\* From its link to its commit a process can rely on its artifact.
LinkedArtifactIsThere ==
  \A w \in Writers :
    at[w] \in {"linked", "created", "checked"} /\ job[w].path \notin Edited
      => file[job[w].path] = job[w].sha

FinalizedArtifactIsThere ==
  \A r \in Runs : canary[r] = "finalized" =>
    \A i \in projection[r] : i[1] \notin Edited => file[i[1]] = i[2]

\* While a link can be taken back, no finalized run depends on it.
LinkedIsOpen ==
  LateFailures =>
    \A w \in Writers, r \in Runs, c \in Contents :
      at[w] = "linked" /\ job[w].path \notin Edited /\ canary[r] = "finalized"
        => <<job[w].path, c>> \notin projection[r]

\* What the last transaction checked still holds when it commits.
CheckedHoldsLock ==
  \A w \in Writers : at[w] = "checked" => lock = w /\ MayFinalize(w)

\* What the rollback hashed cannot be opened before it commits.
HashedHoldsLock ==
  hashed # NoWorkflow =>
    /\ lock \in Writers /\ at[lock] = "idle"
    /\ authority[hashed] = "canary"
    /\ \A r \in RunsOf(hashed) : canary[r] = "finalized"

RolledBackIsFinal ==
  \A f \in Workflows : authority[f] = "rolled_back" =>
    \A r \in RunsOf(f) : canary[r] = "finalized"

\* Inductive whatever fails: rows, positions and locks.
CanaryRowsInv ==
  /\ CanaryTypeOK
  /\ RunHasProjection
  /\ WritesProjection
  /\ CheckedHoldsLock
  /\ HashedHoldsLock
  /\ RolledBackIsFinal

\* Inductive if a call after the link cannot fail, or there is one process.
CanaryInv ==
  /\ CanaryRowsInv
  /\ LinkedArtifactIsThere
  /\ FinalizedArtifactIsThere
  /\ LinkedIsOpen
=============================================================================
