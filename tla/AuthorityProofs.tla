---------------------------- MODULE AuthorityProofs ----------------------------
(***************************************************************************)
(* Proofs about the two ways authority moves between files and database:   *)
(* what artifacts written under database authority can rely on, and what a *)
(* rollback to file authority leaves behind; and what the forced rollback  *)
(* of the heartbeat shadow leaves behind.  They hold for every set of      *)
(* processes, workflows, runs, paths and contents.  As for dual writes,    *)
(* what the canary's results say about files needs one process where a     *)
(* call may fail after the link; what they say about rows does not.        *)
(***************************************************************************)
EXTENDS DbCanary, ForcedRollback, TLAPS

-----------------------------------------------------------------------------
(* The canary: rows, positions and locks, whatever fails *)

LEMMA CanaryRowsInit == CanaryInit => CanaryRowsInv
BY ArtifactAssumption, CanaryAssumption
   DEF CanaryInit, FileInit, CanaryRowsInv, CanaryTypeOK, FileTypeOK, At, RunHasProjection,
       WritesProjection, CheckedHoldsLock, HashedHoldsLock, RolledBackIsFinal, RunsOf

\* Preparing opens a run of a workflow that is not rolled back and that no
\* rollback is hashing.
LEMMA PrepareKeepsRows ==
  ASSUME CanaryRowsInv, NEW w \in Writers, NEW j \in Job, Prepare(w, j)
  PROVE  CanaryRowsInv'
<1> USE ArtifactAssumption, CanaryAssumption
    DEF CanaryRowsInv, CanaryTypeOK, FileTypeOK, Job, Prepare, EnsureWorkflow, Goto, RunsOf
<1>1. CanaryTypeOK'
  <2>1. j.run \in Runs /\ j.path \in Paths /\ j.sha \in Contents
    OBVIOUS
  <2>2. projection' \in [Runs -> SUBSET (Paths \X Contents)]
    <3>1. {<<j.path, j.sha>>} \in SUBSET (Paths \X Contents)
      BY <2>1
    <3>2. QED
      BY <2>1, <3>1
  <2>3. authority' \in [Workflows -> {"none", "canary", "rolled_back"}]
    BY <2>1
  <2>4. FileTypeOK'
    BY DEF At
  <2>5. QED
    BY <2>1, <2>2, <2>3, <2>4
<1>2. \A r \in Runs : r # j.run => projection'[r] = projection[r] /\ canary'[r] = canary[r]
  OBVIOUS
<1>3. /\ j.run \in Runs /\ j.path \in Paths /\ j.sha \in Contents
      /\ canary[j.run] = "none" /\ projection[j.run] = {}
      /\ projection'[j.run] = {<<j.path, j.sha>>} /\ canary'[j.run] = "prepared"
      /\ lock = Nobody /\ lock' = Nobody /\ file' = file /\ evidence' = evidence
  BY DEF RunHasProjection
<1>4. RunHasProjection'
  <2>1. ASSUME NEW r \in Runs, r # j.run
        PROVE  IF canary'[r] = "none" THEN projection'[r] = {}
               ELSE \E p \in Paths, c \in Contents : projection'[r] = {<<p, c>>}
    BY <1>2, <2>1 DEF RunHasProjection
  <2>2. \E p \in Paths, c \in Contents : projection'[j.run] = {<<p, c>>}
    <3>1. projection'[j.run] = {<<j.path, j.sha>>} /\ j.path \in Paths /\ j.sha \in Contents
      BY <1>3
    <3>2. QED
      BY <3>1, Zenon
  <2>3. QED
    BY <1>3, <2>1, <2>2 DEF RunHasProjection
<1>5. WritesProjection'
  <2>1. job'[w] = j /\ ProjectionMatches(j)'
    BY <1>3 DEF ProjectionMatches
  <2>2. ASSUME NEW v \in Writers, v # w, at'[v] # "idle"
        PROVE  job'[v] = job[v] /\ job[v] \in Job /\ ProjectionMatches(job[v])'
    <3>1. job'[v] = job[v] /\ job[v] \in Job /\ ProjectionMatches(job[v])
      BY <2>2 DEF WritesProjection
    <3>2. job[v].run # j.run
      BY <1>3, <3>1 DEF ProjectionMatches
    <3>3. QED
      BY <1>2, <3>1, <3>2 DEF ProjectionMatches
  <2>3. QED
    BY <2>1, <2>2 DEF WritesProjection
<1>6. CheckedHoldsLock'
  BY <1>3 DEF CheckedHoldsLock
<1>7. HashedHoldsLock'
  BY <1>3 DEF HashedHoldsLock
<1>8. RolledBackIsFinal'
  <2>1. authority'[WorkflowOf[j.run]] = "canary"
    BY <1>3
  <2>2. ASSUME NEW f \in Workflows, authority'[f] = "rolled_back",
               NEW r \in Runs, WorkflowOf[r] = f, canary'[r] # "none"
        PROVE  canary'[r] = "finalized"
    <3>1. f # WorkflowOf[j.run] /\ authority[f] = "rolled_back"
      BY <2>1, <2>2
    <3>2. QED
      BY <1>2, <2>2, <3>1 DEF RolledBackIsFinal
  <2>3. QED
    BY <2>2 DEF RolledBackIsFinal
<1>9. QED
  BY <1>1, <1>4, <1>5, <1>6, <1>7, <1>8

LEMMA RecoverKeepsRows ==
  ASSUME CanaryRowsInv, NEW w \in Writers, NEW j \in Job, Recover(w, j)
  PROVE  CanaryRowsInv'
<1> USE ArtifactAssumption
    DEF CanaryRowsInv, CanaryTypeOK, FileTypeOK, Recover, Goto, canaryVars, RunsOf
<1>1. CanaryTypeOK' /\ RunHasProjection'
  BY DEF At, RunHasProjection
<1>2. WritesProjection'
  BY DEF WritesProjection, ProjectionMatches
<1>3. CheckedHoldsLock'
  BY DEF CheckedHoldsLock
<1>4. HashedHoldsLock'
  BY DEF HashedHoldsLock
<1>5. RolledBackIsFinal'
  BY DEF RolledBackIsFinal
<1>6. QED
  BY <1>1, <1>2, <1>3, <1>4, <1>5

\* What does not depend on files, links and positions of processes.
LEMMA RowsKeepTheirs ==
  ASSUME CanaryRowsInv, UNCHANGED canaryVars
  PROVE  RunHasProjection' /\ RolledBackIsFinal'
BY DEF CanaryRowsInv, RunHasProjection, RolledBackIsFinal, RunsOf, canaryVars

LEMMA LinkKeepsRows ==
  ASSUME CanaryRowsInv, NEW w \in Writers, Link(w), UNCHANGED canaryVars
  PROVE  CanaryRowsInv'
<1> USE ArtifactAssumption
    DEF CanaryRowsInv, CanaryTypeOK, FileTypeOK, Job, Link, Goto, canaryVars
<1>1. job[w] \in Job
  BY DEF WritesProjection
<1>2. CanaryTypeOK'
  BY <1>1 DEF At
<1>3. WritesProjection'
  BY DEF WritesProjection, ProjectionMatches
<1>4. CheckedHoldsLock'
  <2>1. ASSUME NEW v \in Writers, MayFinalize(v)
        PROVE  MayFinalize(v)'
    BY <2>1 DEF MayFinalize, MayWrite, NoSessionControl, SingleProjectionSet, IsControlled,
                RunsOf
  <2>2. \A v \in Writers : at'[v] = "checked" => at[v] = "checked"
    OBVIOUS
  <2>3. QED
    BY <2>1, <2>2 DEF CheckedHoldsLock
<1>5. HashedHoldsLock'
  BY DEF HashedHoldsLock, RunsOf
<1>6. QED
  BY <1>2, <1>3, <1>4, <1>5, RowsKeepTheirs

\* The steps of a process that leave the rows alone, but for the link: only
\* its own position, its job and its lock change.
LEMMA PositionsKeepRows ==
  ASSUME CanaryRowsInv, NEW w \in Writers,
         \/ (LateCallsSucceed(w) \/ LateCallFails(w) \/ Stop(w)) /\ UNCHANGED canaryVars
         \/ FindArtifact(w)
         \/ BeginFinalize(w)
  PROVE  CanaryRowsInv'
<1> USE ArtifactAssumption
    DEF CanaryRowsInv, CanaryTypeOK, FileTypeOK, LateCallsSucceed, LateCallFails, Stop,
        FindArtifact, BeginFinalize, Leave, Goto, canaryVars
<1>1. CanaryTypeOK'
  BY DEF At, WritesProjection, Job
<1>2. WritesProjection'
  BY DEF WritesProjection, ProjectionMatches
<1>3. CheckedHoldsLock'
  <2>1. ASSUME NEW v \in Writers, at'[v] = "checked"
        PROVE  lock' = v /\ job'[v] = job[v] /\ MayFinalize(v)
    <3>1. CASE v = w
      BY <2>1, <3>1
    <3>2. CASE v # w
      <4>1. at'[v] = at[v] /\ job'[v] = job[v]
        BY <3>2
      <4>2. lock = v /\ MayFinalize(v)
        BY ONLY <2>1, <4>1, CheckedHoldsLock DEF CheckedHoldsLock
      <4>3. lock' = v
        BY <3>2, <4>2
      <4>4. QED
        BY ONLY <4>1, <4>2, <4>3
    <3>3. QED
      BY ONLY <3>1, <3>2
  <2>2. ASSUME NEW v \in Writers, job'[v] = job[v], MayFinalize(v)
        PROVE  MayFinalize(v)'
    <3>1. UNCHANGED canaryVars
      OBVIOUS
    <3>2. QED
      BY ONLY <2>2, <3>1 DEF canaryVars, MayFinalize, MayWrite, NoSessionControl,
         SingleProjectionSet, IsControlled, RunsOf
  <2>3. QED
    BY ONLY <2>1, <2>2 DEF CheckedHoldsLock
<1>4. HashedHoldsLock'
  BY DEF HashedHoldsLock, RunsOf
<1>5. QED
  BY <1>1, <1>2, <1>3, <1>4, RowsKeepTheirs

\* The process that seals its run is the only one inside a transaction: no
\* rollback is under way.
LEMMA CommitFinalizeKeepsRows ==
  ASSUME CanaryRowsInv, NEW w \in Writers, CommitFinalize(w)
  PROVE  CanaryRowsInv'
<1> USE ArtifactAssumption, CanaryAssumption
    DEF CanaryRowsInv, CanaryTypeOK, FileTypeOK, Job, CommitFinalize, Leave, Goto
<1>1. job[w] \in Job /\ ProjectionMatches(job[w])
  BY DEF WritesProjection
<1>2. /\ \A r \in Runs : r # job[w].run => canary'[r] = canary[r]
      /\ canary'[job[w].run] = "finalized"
      /\ projection' = projection /\ authority' = authority
  BY <1>1
<1>3. CanaryTypeOK'
  BY <1>1 DEF At
<1>4. RunHasProjection'
  <2>1. canary[job[w].run] # "none"
    BY <1>1 DEF RunHasProjection, ProjectionMatches
  <2>2. QED
    BY <1>1, <1>2, <2>1 DEF RunHasProjection
<1>5. WritesProjection'
  BY DEF WritesProjection, ProjectionMatches
<1>6. CheckedHoldsLock'
  <2>1. \A v \in Writers : v # w => at[v] # "checked"
    BY DEF CheckedHoldsLock
  <2>2. QED
    BY <2>1 DEF CheckedHoldsLock
<1>7. HashedHoldsLock'
  BY DEF HashedHoldsLock
<1>8. RolledBackIsFinal'
  BY <1>1, <1>2 DEF RolledBackIsFinal, RunsOf, RunHasProjection, ProjectionMatches
<1>9. QED
  BY <1>3, <1>4, <1>5, <1>6, <1>7, <1>8

\* A rollback begins when nobody is inside another transaction, and while it
\* holds the lock no run of the workflow is opened.
LEMMA RollbackKeepsRows ==
  ASSUME CanaryRowsInv, NEW w \in Writers,
         \/ \E f \in Workflows : BeginRollback(w, f)
         \/ CommitRollback(w)
         \/ AbortRollback(w)
  PROVE  CanaryRowsInv'
<1> USE ArtifactAssumption, CanaryAssumption DEF CanaryRowsInv, CanaryTypeOK, FileTypeOK
<1>1. UNCHANGED <<file, at, job, canary, projection, evidence, proved, sessions>>
  BY DEF BeginRollback, CommitRollback, AbortRollback
<1>2. CanaryTypeOK'
  BY DEF BeginRollback, CommitRollback, AbortRollback
<1>3. RunHasProjection' /\ WritesProjection'
  BY <1>1 DEF RunHasProjection, WritesProjection, ProjectionMatches
<1>4. CheckedHoldsLock'
  <2>1. \A v \in Writers : at[v] # "checked"
    BY DEF CheckedHoldsLock, HashedHoldsLock, BeginRollback, CommitRollback, AbortRollback
  <2>2. QED
    BY <1>1, <2>1 DEF CheckedHoldsLock
<1>5. HashedHoldsLock'
  BY <1>1 DEF HashedHoldsLock, RunsAreClosed, RunsOf, BeginRollback, CommitRollback,
     AbortRollback
<1>6. RolledBackIsFinal'
  BY <1>1 DEF RolledBackIsFinal, HashedHoldsLock, RunsOf, BeginRollback, CommitRollback,
     AbortRollback
<1>7. QED
  BY <1>2, <1>3, <1>4, <1>5, <1>6

LEMMA OthersKeepRows ==
  ASSUME CanaryRowsInv, NEW r \in Runs, SessionAppears(r) \/ EvidenceChanges(r)
  PROVE  CanaryRowsInv'
<1> USE ArtifactAssumption DEF CanaryRowsInv, CanaryTypeOK, FileTypeOK
<1>1. /\ UNCHANGED <<file, at, job, lock, authority, canary, projection, hashed>>
      /\ lock = Nobody
  BY DEF SessionAppears, EvidenceChanges, fileVars
<1>2. CanaryTypeOK'
  BY <1>1 DEF SessionAppears, EvidenceChanges
<1>3. RunHasProjection' /\ WritesProjection' /\ RolledBackIsFinal'
  BY <1>1 DEF RunHasProjection, WritesProjection, ProjectionMatches, RolledBackIsFinal, RunsOf
<1>4. CheckedHoldsLock' /\ HashedHoldsLock'
  BY <1>1 DEF CheckedHoldsLock, HashedHoldsLock
<1>5. QED
  BY <1>2, <1>3, <1>4

LEMMA EditKeepsRows ==
  ASSUME CanaryRowsInv, NEW p \in Edited, Edit(p), UNCHANGED canaryVars
  PROVE  CanaryRowsInv'
<1> USE ArtifactAssumption DEF CanaryRowsInv, CanaryTypeOK, FileTypeOK, Edit, canaryVars
<1>1. PICK x \in Contents \cup {Absent} : file' = [file EXCEPT ![p] = x]
  OBVIOUS
<1>2. CanaryTypeOK' /\ WritesProjection'
  BY <1>1 DEF WritesProjection, ProjectionMatches
<1>3. CheckedHoldsLock' /\ HashedHoldsLock'
  BY DEF CheckedHoldsLock, MayFinalize, MayWrite, NoSessionControl, SingleProjectionSet,
     IsControlled, HashedHoldsLock, RunsOf
<1>4. QED
  BY <1>2, <1>3, RowsKeepTheirs

LEMMA CanaryRowsStep ==
  ASSUME CanaryRowsInv, [CanaryNext]_canaryPart
  PROVE  CanaryRowsInv'
<1>1. CASE \E w \in Writers, j \in Job : Prepare(w, j) \/ Recover(w, j)
  BY <1>1, PrepareKeepsRows, RecoverKeepsRows
<1>2. CASE \E w \in Writers : Continue(w)
  BY <1>2, LinkKeepsRows, PositionsKeepRows, CommitFinalizeKeepsRows DEF Continue
<1>3. CASE \E w \in Writers : \/ CommitRollback(w) \/ AbortRollback(w)
                              \/ \E f \in Workflows : BeginRollback(w, f)
  BY <1>3, RollbackKeepsRows
<1>4. CASE \E r \in Runs : SessionAppears(r) \/ EvidenceChanges(r)
  BY <1>4, OthersKeepRows
<1>5. CASE \E p \in Edited : Edit(p) /\ UNCHANGED canaryVars
  BY <1>5, EditKeepsRows
<1>6. CASE UNCHANGED canaryPart
  BY <1>6 DEF canaryPart, fileVars, canaryVars, CanaryRowsInv, CanaryTypeOK, FileTypeOK,
     RunHasProjection, WritesProjection, ProjectionMatches, CheckedHoldsLock, MayFinalize,
     MayWrite, NoSessionControl, SingleProjectionSet, IsControlled, HashedHoldsLock,
     RolledBackIsFinal, RunsOf
<1>7. QED
  BY <1>1, <1>2, <1>3, <1>4, <1>5, <1>6 DEF CanaryNext

\* A run and its one projection, the processes and their jobs, the lock and
\* what its holder has checked fit together through every interleaving of
\* writes, retries, interruptions and rollbacks, also where a call after a
\* link fails.
THEOREM CanaryRowsInvariant == CanarySpec => []CanaryRowsInv
<1>1. CanaryRowsInv /\ [CanaryNext]_canaryPart => CanaryRowsInv'
  BY CanaryRowsStep
<1>2. QED
  BY CanaryRowsInit, <1>1, PTL DEF CanarySpec

\* Whatever fails, no run of a workflow that was rolled back is open, and none
\* is opened again.
THEOREM RollbackIsFinal == CanarySpec => []RolledBackIsFinal
<1>1. CanaryRowsInv => RolledBackIsFinal
  BY DEF CanaryRowsInv
<1>2. QED
  BY <1>1, CanaryRowsInvariant, PTL

\* What ControlledRunIsProven says of one step.
SealIsProven ==
  \A r \in Runs : IsControlled(r) /\ canary[r] # "finalized" /\ canary'[r] = "finalized"
    => r \in evidence /\ RunsOf(WorkflowOf[r]) = {r}

LEMMA SealStep ==
  ASSUME CanaryRowsInv, [CanaryNext]_canaryPart
  PROVE  SealIsProven
<1> USE DEF CanaryRowsInv, CanaryTypeOK
<1>1. CASE \E w \in Writers : CommitFinalize(w)
  <2>1. PICK w \in Writers : CommitFinalize(w)
    BY <1>1
  <2>2. /\ job[w] \in Job /\ ProjectionMatches(job[w])
        /\ MayFinalize(w)
    BY <2>1 DEF CommitFinalize, WritesProjection, CheckedHoldsLock
  <2>3. job[w].run \in Runs /\ canary[job[w].run] # "none"
    BY <2>2 DEF Job, RunHasProjection, ProjectionMatches
  <2>4. \A r \in Runs : r # job[w].run => canary'[r] = canary[r]
    BY <2>1 DEF CommitFinalize
  <2>5. IsControlled(job[w].run) =>
          /\ job[w].run \in evidence
          /\ RunsOf(WorkflowOf[job[w].run]) = {job[w].run}
    BY <2>2, <2>3 DEF MayFinalize, MayWrite, SingleProjectionSet, RunsOf
  <2>6. QED
    BY <2>4, <2>5 DEF SealIsProven
<1>2. CASE \E w \in Writers, j \in Job : Prepare(w, j)
  <2>1. \A r \in Runs : canary'[r] = canary[r] \/ canary'[r] = "prepared"
    BY <1>2 DEF Prepare
  <2>2. QED
    BY <2>1 DEF SealIsProven
<1>3. CASE canary' = canary
  BY <1>3 DEF SealIsProven
<1>4. QED
  BY <1>1, <1>2, <1>3 DEF CanaryNext, Recover, Continue, Link, LateCallsSucceed,
     LateCallFails, Stop, FindArtifact, BeginFinalize, BeginRollback, CommitRollback,
     AbortRollback, SessionAppears, EvidenceChanges, canaryPart, canaryVars

\* The controlled workflow has one run, and that run is finalized only while
\* the verifier's evidence is there, although the controller read it long
\* before on a connection of its own.
THEOREM ControlledRunsAreProven == CanarySpec => ControlledRunIsProven
<1>1. CanaryRowsInv /\ [CanaryNext]_canaryPart => SealIsProven
  BY SealStep
<1>2. QED
  BY <1>1, CanaryRowsInvariant, PTL DEF CanarySpec, ControlledRunIsProven, SealIsProven

-----------------------------------------------------------------------------
(* The canary's files, where nobody takes back what another relies on *)

OneWriterIfLate == LateFailures => \A v, w \in Writers : v = w

ArtifactsHold == LinkedArtifactIsThere /\ FinalizedArtifactIsThere /\ LinkedIsOpen

LEMMA ArtifactsHoldInit == CanaryInit => ArtifactsHold
BY DEF CanaryInit, FileInit, ArtifactsHold, LinkedArtifactIsThere, FinalizedArtifactIsThere,
       LinkedIsOpen

\* Steps that change no file and link and finalize nothing.
LEMMA OthersKeepArtifacts ==
  ASSUME CanaryInv, file' = file,
         \A v \in Writers :
           \/ at'[v] \in {"idle", "create"}
           \/ job'[v] = job[v] /\ at'[v] = at[v]
           \/ job'[v] = job[v] /\ at[v] = "linked" /\ at'[v] = "created"
           \/ job'[v] = job[v] /\ at[v] = "created" /\ at'[v] = "checked"
           \/ at'[v] = "created" /\ file[job'[v].path] = job'[v].sha,
         \A r \in Runs : canary'[r] = "finalized" =>
           canary[r] = "finalized" /\ projection'[r] = projection[r]
  PROVE  ArtifactsHold'
<1> USE DEF CanaryInv
<1>1. LinkedArtifactIsThere'
  BY DEF LinkedArtifactIsThere
<1>2. FinalizedArtifactIsThere'
  BY DEF FinalizedArtifactIsThere
<1>3. LinkedIsOpen'
  BY DEF LinkedIsOpen
<1>4. QED
  BY <1>1, <1>2, <1>3 DEF ArtifactsHold

LEMMA LinkKeepsArtifacts ==
  ASSUME CanaryInv, NEW w \in Writers, Link(w), UNCHANGED canaryVars
  PROVE  ArtifactsHold'
<1> USE ArtifactAssumption
    DEF CanaryInv, CanaryRowsInv, CanaryTypeOK, FileTypeOK, Job, Link, Goto, canaryVars
<1>1. job[w] \in Job /\ ProjectionMatches(job[w]) /\ file[job[w].path] = Absent
  BY DEF WritesProjection
<1>2. \A p \in Paths : p # job[w].path => file'[p] = file[p]
  BY <1>1
<1>3. file'[job[w].path] = job[w].sha
  BY <1>1
<1>4. LinkedArtifactIsThere'
  BY <1>1, <1>2, <1>3 DEF LinkedArtifactIsThere, WritesProjection
<1>5. ASSUME NEW r \in Runs, canary[r] = "finalized", NEW c \in Contents,
             job[w].path \notin Edited
      PROVE  <<job[w].path, c>> \notin projection[r]
  <2>1. ASSUME <<job[w].path, c>> \in projection[r]
        PROVE  FALSE
    <3>1. file[job[w].path] = c
      BY <1>5, <2>1 DEF FinalizedArtifactIsThere
    <3>2. QED
      BY <1>1, <3>1
  <2>2. QED
    BY <2>1
<1>6. FinalizedArtifactIsThere'
  <2>1. ASSUME NEW r \in Runs, canary[r] = "finalized", NEW i \in projection[r],
               i[1] \notin Edited
        PROVE  file'[i[1]] = i[2]
    <3>1. i \in Paths \X Contents /\ file[i[1]] = i[2]
      BY <2>1 DEF FinalizedArtifactIsThere
    <3>2. i[1] # job[w].path
      BY <1>1, <3>1
    <3>3. QED
      BY <1>2, <3>1, <3>2
  <2>2. QED
    BY <2>1 DEF FinalizedArtifactIsThere
<1>7. LinkedIsOpen'
  BY <1>5 DEF LinkedIsOpen
<1>8. QED
  BY <1>4, <1>6, <1>7 DEF ArtifactsHold

\* The file taken back is the only process's own, and no finalized run's.
LEMMA LateCallFailsKeepsArtifacts ==
  ASSUME OneWriterIfLate, CanaryInv, NEW w \in Writers, LateCallFails(w),
         UNCHANGED canaryVars
  PROVE  ArtifactsHold'
<1> USE ArtifactAssumption
    DEF CanaryInv, CanaryRowsInv, CanaryTypeOK, FileTypeOK, Job, LateCallFails, Leave, Goto,
        canaryVars
<1>1. job[w] \in Job /\ at[w] = "linked" /\ LateFailures
  BY DEF WritesProjection
<1>2. \A v \in Writers : v = w
  BY <1>1 DEF OneWriterIfLate
<1>3. \A p \in Paths : p # job[w].path => file'[p] = file[p]
  BY <1>1
<1>4. LinkedArtifactIsThere' /\ LinkedIsOpen'
  BY <1>2 DEF LinkedArtifactIsThere, LinkedIsOpen
<1>5. FinalizedArtifactIsThere'
  <2>1. ASSUME NEW r \in Runs, canary[r] = "finalized", NEW i \in projection[r],
               i[1] \notin Edited
        PROVE  file'[i[1]] = i[2]
    <3>1. i \in Paths \X Contents /\ file[i[1]] = i[2]
      BY <2>1 DEF FinalizedArtifactIsThere
    <3>2. i = <<i[1], i[2]>> /\ i[2] \in Contents
      BY <3>1
    <3>3. i[1] # job[w].path
      BY <1>1, <2>1, <3>2 DEF LinkedIsOpen
    <3>4. QED
      BY <1>3, <3>1, <3>3
  <2>2. QED
    BY <2>1 DEF FinalizedArtifactIsThere
<1>6. QED
  BY <1>4, <1>5 DEF ArtifactsHold

\* The process that seals its run has the artifact.
LEMMA CommitFinalizeKeepsArtifacts ==
  ASSUME OneWriterIfLate, CanaryInv, NEW w \in Writers, CommitFinalize(w)
  PROVE  ArtifactsHold'
<1> USE ArtifactAssumption, CanaryAssumption
    DEF CanaryInv, CanaryRowsInv, CanaryTypeOK, FileTypeOK, Job, CommitFinalize, Leave, Goto
<1>1. /\ job[w] \in Job /\ ProjectionMatches(job[w])
      /\ job[w].path \notin Edited => file[job[w].path] = job[w].sha
  BY DEF WritesProjection, LinkedArtifactIsThere
<1>2. /\ \A r \in Runs : r # job[w].run => canary'[r] = canary[r]
      /\ projection' = projection /\ file' = file
  BY <1>1
<1>3. LinkedArtifactIsThere'
  BY DEF LinkedArtifactIsThere
<1>4. FinalizedArtifactIsThere'
  BY <1>1, <1>2 DEF FinalizedArtifactIsThere, ProjectionMatches
<1>5. LinkedIsOpen'
  <2>1. LateFailures => \A v \in Writers : at'[v] = "idle"
    BY DEF OneWriterIfLate
  <2>2. QED
    BY <2>1 DEF LinkedIsOpen
<1>6. QED
  BY <1>3, <1>4, <1>5 DEF ArtifactsHold

LEMMA EditKeepsArtifacts ==
  ASSUME CanaryInv, NEW p \in Edited, Edit(p), UNCHANGED canaryVars
  PROVE  ArtifactsHold'
<1> USE ArtifactAssumption
    DEF CanaryInv, CanaryRowsInv, CanaryTypeOK, FileTypeOK, Edit, canaryVars
<1>1. PICK x \in Contents \cup {Absent} : file' = [file EXCEPT ![p] = x]
  OBVIOUS
<1>2. \A a \in Paths \ Edited : file'[a] = file[a]
  BY <1>1
<1>3. LinkedIsOpen'
  BY <1>1 DEF LinkedIsOpen
<1>4. LinkedArtifactIsThere'
  BY <1>2 DEF LinkedArtifactIsThere, WritesProjection, Job
<1>5. FinalizedArtifactIsThere'
  BY <1>2 DEF FinalizedArtifactIsThere
<1>6. QED
  BY <1>3, <1>4, <1>5 DEF ArtifactsHold

LEMMA ArtifactsHoldStep ==
  ASSUME OneWriterIfLate, CanaryInv, [CanaryNext]_canaryPart
  PROVE  ArtifactsHold'
<1>1. ASSUME NEW w \in Writers, NEW j \in Job, Prepare(w, j) \/ Recover(w, j)
      PROVE  ArtifactsHold'
  <2>1. file' = file
    BY <1>1 DEF Prepare, Recover
  <2>2. \A v \in Writers : \/ at'[v] = "create"
                           \/ job'[v] = job[v] /\ at'[v] = at[v]
    BY <1>1 DEF Prepare, Recover, Goto, CanaryInv, CanaryRowsInv, CanaryTypeOK, FileTypeOK
  <2>3. \A r \in Runs : canary'[r] = "finalized" =>
          canary[r] = "finalized" /\ projection'[r] = projection[r]
    BY <1>1 DEF Prepare, Recover, Job, CanaryInv, CanaryRowsInv, CanaryTypeOK, canaryVars
  <2>4. QED
    BY <2>1, <2>2, <2>3, OthersKeepArtifacts
<1>2. ASSUME NEW w \in Writers,
             \/ (LateCallsSucceed(w) \/ Stop(w)) /\ UNCHANGED canaryVars
             \/ FindArtifact(w)
             \/ BeginFinalize(w)
      PROVE  ArtifactsHold'
  <2>1. file' = file /\ UNCHANGED <<canary, projection>>
    BY <1>2 DEF LateCallsSucceed, Stop, FindArtifact, BeginFinalize, canaryVars
  <2>2. \A v \in Writers : v # w => job'[v] = job[v] /\ at'[v] = at[v]
    BY <1>2 DEF LateCallsSucceed, Stop, FindArtifact, BeginFinalize, Leave, Goto, CanaryInv,
       CanaryRowsInv, CanaryTypeOK, FileTypeOK
  <2>3. \/ at'[w] = "idle"
        \/ job'[w] = job[w] /\ at[w] = "linked" /\ at'[w] = "created"
        \/ job'[w] = job[w] /\ at[w] = "created" /\ at'[w] = "checked"
        \/ at'[w] = "created" /\ file[job'[w].path] = job'[w].sha
    BY <1>2 DEF LateCallsSucceed, Stop, FindArtifact, BeginFinalize, Leave, Goto, CanaryInv,
       CanaryRowsInv, CanaryTypeOK, FileTypeOK
  <2>4. QED
    BY <2>1, <2>2, <2>3, OthersKeepArtifacts
<1>3. CASE UNCHANGED <<file, at, job, canary, projection>>
  BY <1>3, OthersKeepArtifacts
<1>4. CASE \E w \in Writers : \/ CommitRollback(w) \/ AbortRollback(w)
                              \/ \E f \in Workflows : BeginRollback(w, f)
  BY <1>3, <1>4 DEF CommitRollback, AbortRollback, BeginRollback
<1>5. CASE \E r \in Runs : SessionAppears(r) \/ EvidenceChanges(r)
  BY <1>3, <1>5 DEF SessionAppears, EvidenceChanges, fileVars
<1>6. CASE UNCHANGED canaryPart
  BY <1>3, <1>6 DEF canaryPart, fileVars, canaryVars
<1>7. QED
  BY <1>1, <1>2, <1>4, <1>5, <1>6, LinkKeepsArtifacts, LateCallFailsKeepsArtifacts,
     CommitFinalizeKeepsArtifacts, EditKeepsArtifacts DEF CanaryNext, Continue

\* Every reachable state of canary writes, their retries, interruptions and
\* rollbacks satisfies the inductive invariant.
THEOREM CanaryInvariant ==
  ASSUME OneWriterIfLate
  PROVE  CanarySpec => []CanaryInv
<1>1. CanaryInit => CanaryInv
  BY CanaryRowsInit, ArtifactsHoldInit DEF ArtifactsHold, CanaryInv
<1>2. CanaryInv /\ [CanaryNext]_canaryPart => CanaryInv'
  BY CanaryRowsStep, ArtifactsHoldStep DEF ArtifactsHold, CanaryInv
<1>3. QED
  BY <1>1, <1>2, PTL DEF CanarySpec

\* A workflow that was rolled back is closed: none of its runs is open or
\* opened again, and its artifacts are the recorded ones unless another
\* program edits them.
THEOREM RollbackCloses ==
  ASSUME OneWriterIfLate
  PROVE  CanarySpec => []RolledBackIsClosed
<1>1. CanaryInv => RolledBackIsClosed
  BY DEF CanaryInv, CanaryRowsInv, RolledBackIsFinal, FinalizedArtifactIsThere,
         RolledBackIsClosed, RunsOf
<1>2. QED
  BY <1>1, CanaryInvariant, PTL

-----------------------------------------------------------------------------
(* Canary writes implement the register *)

LEMMA RegisterInit == CanaryInit => Register!Init
BY DEF CanaryInit, FileInit, Register!Init, CanaryContent, CanaryDeclared, CanarySealed,
       OnArtifact

LEMMA RegisterStutter ==
  ASSUME \A p \in Paths \ Edited : file'[p] = file[p], UNCHANGED <<canary, projection>>
  PROVE  UNCHANGED Register!registerVars
<1>1. CanaryContent' = CanaryContent
  BY DEF CanaryContent
<1>2. CanaryDeclared' = CanaryDeclared /\ CanarySealed' = CanarySealed
  BY DEF CanaryDeclared, CanarySealed, OnArtifact
<1>3. QED
  BY <1>1, <1>2 DEF Register!registerVars

LEMMA PrepareDeclares ==
  ASSUME CanaryInv, NEW w \in Writers, NEW j \in Job, Prepare(w, j)
  PROVE  Register!Next \/ UNCHANGED Register!registerVars
<1>1. /\ j.run \in Runs /\ j.path \in Paths /\ j.sha \in Contents
      /\ projection[j.run] = {} /\ file[j.path] = Absent /\ file' = file
      /\ canary[j.run] = "none" /\ canary'[j.run] = "prepared"
      /\ projection'[j.run] = {<<j.path, j.sha>>}
  BY DEF Prepare, Job, CanaryInv, CanaryRowsInv, CanaryTypeOK, RunHasProjection
<1>2. \A r \in Runs : r # j.run => projection'[r] = projection[r] /\ canary'[r] = canary[r]
  BY DEF Prepare, CanaryInv, CanaryRowsInv, CanaryTypeOK
<1>3. CanaryContent' = CanaryContent
  BY <1>1 DEF CanaryContent
<1>4. CanarySealed' = CanarySealed
  BY <1>1, <1>2 DEF CanarySealed, OnArtifact
<1>5. CASE j.path \notin Edited
  <2>1. CanaryDeclared[j.run] = {} /\ CanaryContent[j.path] = Absent
    BY <1>1, <1>5 DEF CanaryDeclared, CanaryContent
  <2>2. CanaryDeclared' = [CanaryDeclared EXCEPT ![j.run] = {<<j.path, j.sha>>}]
    <3>1. \A r \in Runs : r # j.run => OnArtifact(r)' = OnArtifact(r)
      BY <1>2 DEF OnArtifact
    <3>2. OnArtifact(j.run)'
      BY <1>1, <1>5 DEF OnArtifact
    <3>3. QED
      BY <1>1, <1>2, <3>1, <3>2 DEF CanaryDeclared
  <2>3. Register!Declare(j.run, j.path, j.sha)
    BY <1>3, <1>4, <2>1, <2>2 DEF Register!Declare
  <2>4. QED
    BY <1>1, <1>5, <2>3 DEF Register!Next
<1>6. CASE j.path \in Edited
  <2>1. ~OnArtifact(j.run)'
    BY <1>1, <1>6 DEF OnArtifact
  <2>2. CanaryDeclared' = CanaryDeclared
    <3>1. \A r \in Runs : r # j.run => OnArtifact(r)' = OnArtifact(r)
      BY <1>2 DEF OnArtifact
    <3>2. QED
      BY <1>1, <1>2, <2>1, <3>1 DEF CanaryDeclared
  <2>3. QED
    BY <1>3, <1>4, <2>2 DEF Register!registerVars
<1>7. QED
  BY <1>5, <1>6

LEMMA LinkWrites ==
  ASSUME CanaryInv, NEW w \in Writers, Link(w), UNCHANGED canaryVars
  PROVE  Register!Next \/ UNCHANGED Register!registerVars
<1> USE DEF CanaryInv, CanaryRowsInv, CanaryTypeOK, FileTypeOK, canaryVars
<1>1. /\ job[w] \in Job /\ ProjectionMatches(job[w]) /\ file[job[w].path] = Absent
      /\ file' = [file EXCEPT ![job[w].path] = job[w].sha]
  BY DEF Link, WritesProjection
<1>2. job[w].run \in Runs /\ job[w].path \in Paths /\ job[w].sha \in Contents
  BY <1>1 DEF Job
<1>3. CASE job[w].path \notin Edited
  <2>1. <<job[w].path, job[w].sha>> \in CanaryDeclared[job[w].run]
    BY <1>1, <1>2, <1>3 DEF CanaryDeclared, ProjectionMatches, OnArtifact
  <2>2. CanaryContent[job[w].path] = Absent
    BY <1>1, <1>2, <1>3 DEF CanaryContent
  <2>3. CanaryContent' = [CanaryContent EXCEPT ![job[w].path] = job[w].sha]
    BY <1>1, <1>3 DEF CanaryContent
  <2>4. CanaryDeclared' = CanaryDeclared /\ CanarySealed' = CanarySealed
    BY DEF CanaryDeclared, CanarySealed, OnArtifact
  <2>5. Register!Write(job[w].run, job[w].path, job[w].sha)
    BY <2>1, <2>2, <2>3, <2>4 DEF Register!Write
  <2>6. QED
    BY <1>2, <1>3, <2>5 DEF Register!Next
<1>4. CASE job[w].path \in Edited
  <2>1. \A p \in Paths \ Edited : file'[p] = file[p]
    BY <1>1, <1>4
  <2>2. QED
    BY <2>1, RegisterStutter
<1>5. QED
  BY <1>3, <1>4

LEMMA LateFailureTakesBack ==
  ASSUME CanaryInv, NEW w \in Writers, LateCallFails(w), UNCHANGED canaryVars
  PROVE  Register!Next \/ UNCHANGED Register!registerVars
<1> USE DEF CanaryInv, CanaryRowsInv, CanaryTypeOK, FileTypeOK, canaryVars
<1>1. /\ job[w] \in Job /\ at[w] = "linked" /\ LateFailures
      /\ file' = [file EXCEPT ![job[w].path] = Absent]
  BY DEF LateCallFails, WritesProjection
<1>2. job[w].path \in Paths
  BY <1>1 DEF Job
<1>3. CASE job[w].path \notin Edited
  <2>1. \A r \in CanarySealed, c \in Contents : <<job[w].path, c>> \notin CanaryDeclared[r]
    BY <1>1, <1>3 DEF CanarySealed, CanaryDeclared, LinkedIsOpen
  <2>2. CanaryContent' = [CanaryContent EXCEPT ![job[w].path] = Absent]
    BY <1>1, <1>3 DEF CanaryContent
  <2>3. CanaryDeclared' = CanaryDeclared /\ CanarySealed' = CanarySealed
    BY DEF CanaryDeclared, CanarySealed, OnArtifact
  <2>4. Register!TakeBack(job[w].path)
    BY <2>1, <2>2, <2>3 DEF Register!TakeBack
  <2>5. QED
    BY <1>2, <1>3, <2>4 DEF Register!Next
<1>4. CASE job[w].path \in Edited
  <2>1. \A p \in Paths \ Edited : file'[p] = file[p]
    BY <1>1, <1>4
  <2>2. QED
    BY <2>1, RegisterStutter
<1>5. QED
  BY <1>3, <1>4

LEMMA CommitSeals ==
  ASSUME CanaryInv, NEW w \in Writers, CommitFinalize(w)
  PROVE  Register!Next \/ UNCHANGED Register!registerVars
<1> USE DEF CanaryInv, CanaryRowsInv, CanaryTypeOK, FileTypeOK
<1>1. job[w] \in Job /\ ProjectionMatches(job[w])
  BY DEF CommitFinalize, WritesProjection
<1>2. job[w].run \in Runs /\ job[w].path \in Paths /\ job[w].sha \in Contents
  BY <1>1 DEF Job
<1>3. \A r \in Runs : canary'[r] = IF r = job[w].run THEN "finalized" ELSE canary[r]
  BY DEF CommitFinalize
<1>4. file' = file /\ projection' = projection
  BY DEF CommitFinalize
<1>5. CanaryContent' = CanaryContent /\ CanaryDeclared' = CanaryDeclared
  BY <1>4 DEF CanaryContent, CanaryDeclared, OnArtifact
<1>6. CASE job[w].path \notin Edited
  <2>1. CanaryContent[job[w].path] = job[w].sha
    BY <1>2, <1>6 DEF CanaryContent, CommitFinalize, LinkedArtifactIsThere
  <2>2. OnArtifact(job[w].run)
    BY <1>1, <1>6 DEF ProjectionMatches, OnArtifact
  <2>3. <<job[w].path, job[w].sha>> \in CanaryDeclared[job[w].run]
    BY <1>1, <1>2, <2>2 DEF CanaryDeclared, ProjectionMatches
  <2>4. CanarySealed' = CanarySealed \cup {job[w].run}
    BY <1>2, <1>3, <1>4, <2>2 DEF CanarySealed, OnArtifact
  <2>5. Register!Seal(job[w].run)
    BY <1>2, <1>5, <1>6, <2>1, <2>3, <2>4 DEF Register!Seal
  <2>6. QED
    BY <1>2, <2>5 DEF Register!Next
<1>7. CASE job[w].path \in Edited
  <2>1. ~OnArtifact(job[w].run)
    BY <1>1, <1>7 DEF ProjectionMatches, OnArtifact
  <2>2. CanarySealed' = CanarySealed
    BY <1>3, <1>4, <2>1 DEF CanarySealed, OnArtifact
  <2>3. QED
    BY <1>5, <2>2 DEF Register!registerVars
<1>8. QED
  BY <1>6, <1>7

LEMMA RegisterStep ==
  ASSUME CanaryInv, [CanaryNext]_canaryPart
  PROVE  [Register!Next]_(Register!registerVars)
<1>1. CASE \E w \in Writers, j \in Job : Prepare(w, j)
  BY <1>1, PrepareDeclares
<1>2. CASE \E w \in Writers : (Link(w) \/ LateCallFails(w)) /\ UNCHANGED canaryVars
  BY <1>2, LinkWrites, LateFailureTakesBack
<1>3. CASE \E w \in Writers : CommitFinalize(w)
  BY <1>3, CommitSeals
<1>4. CASE \E p \in Edited : Edit(p) /\ UNCHANGED canaryVars
  <2>1. \A p \in Paths \ Edited : file'[p] = file[p]
    BY <1>4 DEF Edit, CanaryInv, CanaryRowsInv, CanaryTypeOK, FileTypeOK
  <2>2. UNCHANGED <<canary, projection>>
    BY <1>4 DEF canaryVars
  <2>3. QED
    BY <2>1, <2>2, RegisterStutter
<1>5. CASE UNCHANGED <<file, canary, projection>>
  BY <1>5, RegisterStutter
<1>6. QED
  BY <1>1, <1>2, <1>3, <1>4, <1>5 DEF CanaryNext, Recover, Continue, LateCallsSucceed,
     Stop, FindArtifact, BeginFinalize, BeginRollback, CommitRollback, AbortRollback,
     SessionAppears, EvidenceChanges, canaryPart, fileVars, canaryVars

\* Canary and controlled writes, their retries and interruptions, and the
\* rollbacks only do to artifacts what the register allows: nothing is
\* overwritten, and nothing sealed is taken back.
THEOREM CanaryRegisterIsImplemented ==
  ASSUME OneWriterIfLate
  PROVE  CanarySpec => CanaryImplementsRegister
<1>1. CanaryInv /\ [CanaryNext]_canaryPart
        => [UNCHANGED canaryPart \/ Register!Next]_(Register!registerVars)
  BY RegisterStep
<1>2. QED
  BY <1>1, CanaryInvariant, RegisterInit, PTL DEF CanarySpec, CanaryImplementsRegister

-----------------------------------------------------------------------------
(* The forced rollback of the heartbeat shadow *)

\* One process at a time forces a rollback.  Nothing in the code makes sure of
\* it: with two of them a receipt may name a backup that is gone, and a guard
\* may stay behind that no call removes.
OneProcess == \A p, q \in Rollbacks : p = q

\* Every database that was created is in one place at most.
DatabasesAreDistinct ==
  /\ source \in Databases => source <= made /\ \A i \in RollbackIds : backup[i] # source
  /\ \A i \in RollbackIds : backup[i] # Nothing => backup[i] <= made
  /\ \A i, j \in RollbackIds : backup[i] = backup[j] /\ backup[i] # Nothing => i = j

\* What a call relies on.  The path still holds the database it has locked ...
PathHoldsDatabase(p) ==
  step[p] \in {"audit", "intend", "move"} => source \in Databases /\ BackupIsFree(rid[p])

\* ... or its guard ...
PathHoldsGuard(p) ==
  step[p] \in {"unguard", "verify", "written", "bind", "sign", "release", "unwind"} =>
    source = p

\* ... or is free or taken by a database that was created meanwhile ...
PathIsLeft(p) ==
  step[p] \in {"recover", "move_sidecar", "guard", "confirm", "restore"} =>
    source = Nothing \/ (source \in Databases /\ source # 1)

\* ... or still holds a guard that could not be removed ...
PathIsCleared(p) == step[p] \in {"undo", "clear"} => source # 1

\* ... and has no guard when the intent is dropped.
PathIsUnguarded(p) ==
  step[p] \in {"recover_sidecar", "recover_intent", "restore_sidecar", "drop_intent"} =>
    source \notin Rollbacks

\* The backup is there until it is moved back.
BackupIsThere(p) ==
  step[p] \in {"unguard", "recover", "move_sidecar", "guard", "verify", "unwind", "written",
               "bind", "sign", "release", "confirm", "undo", "clear", "restore"} =>
    backup[rid[p]] # Nothing

IntentIsThere(p) ==
  step[p] \in {"move", "move_sidecar", "guard", "verify"} => rid[p] \in intent

\* A guard loses the intent when there is a receipt, and the receipt only when
\* its removal has failed.
GuardIsKnown(p) ==
  /\ step[p] = "written" => receipt # Nothing
  /\ step[p] = "undo" /\ source \in Rollbacks => rid[p] \in stuck

\* Nothing but a report is left to do once a receipt was reported.
ReportEndsRollback(p) ==
  rolledBack # Nothing => step[p] \in {"idle", "reread", "report", "leave"}

CallInv(p) ==
  /\ step[p] # "idle" => rid[p] \in RollbackIds
  /\ PathHoldsDatabase(p) /\ PathHoldsGuard(p) /\ PathIsLeft(p) /\ PathIsCleared(p)
  /\ PathIsUnguarded(p) /\ BackupIsThere(p) /\ IntentIsThere(p)
  /\ GuardIsKnown(p) /\ ReportEndsRollback(p)

GuardHasReason ==
  source \in Rollbacks =>
    receipt # Nothing \/ \E i \in intent \cup stuck : backup[i] # Nothing

RollbackInv ==
  /\ RollbackTypeOK
  /\ DatabasesAreDistinct
  /\ \A p \in Rollbacks : CallInv(p)
  /\ GuardHasReason
  /\ DatabaseIsRecoverable
  /\ ReportIsTrue

LEMMA RollbackInitInv == RollbackInit => RollbackInv
  BY RollbackAssumption
  DEF RollbackInit, RollbackInv, RollbackTypeOK, DatabasesAreDistinct, CallInv, Steps,
      PathHoldsDatabase, PathHoldsGuard, PathIsLeft, PathIsCleared, PathIsUnguarded,
      BackupIsThere, IntentIsThere, GuardIsKnown, ReportEndsRollback, GuardHasReason,
      DatabaseIsRecoverable, ReportIsTrue, Databases

\* What a call relies on concerns the one process only.
LEMMA OneCallSuffices ==
  ASSUME OneProcess, NEW p \in Rollbacks, RollbackTypeOK', DatabasesAreDistinct', CallInv(p)',
         GuardHasReason', DatabaseIsRecoverable', ReportIsTrue'
  PROVE  RollbackInv'
<1>1. \A q \in Rollbacks : q = p
  BY DEF OneProcess
<1> QED BY <1>1 DEF RollbackInv

\* Begin, and the recovery of a guard that was left behind
LEMMA UnguardKeepsInv ==
  ASSUME OneProcess, RollbackInv, NEW p \in Rollbacks,
         Unguard(p) \/ \E i \in RollbackIds : Begin(p, i)
  PROVE  RollbackInv'
<1> USE RollbackAssumption
    DEF RollbackInv, RollbackTypeOK, DatabasesAreDistinct, CallInv, Steps,
        PathHoldsDatabase, PathHoldsGuard, PathIsLeft, PathIsCleared, PathIsUnguarded,
        BackupIsThere, IntentIsThere, GuardIsKnown, ReportEndsRollback, GuardHasReason,
        DatabaseIsRecoverable, ReportIsTrue, Databases, To, OneProcess,
        diskVars, databaseVars, reportVars, processVars
<1>1. ASSUME NEW i \in RollbackIds, Begin(p, i)
      PROVE  RollbackInv'
  BY <1>1 DEF Begin, NeedsRecovery
<1>2. CASE RemoveSource(p, "unguard", "recover")
  BY <1>2 DEF RemoveSource
<1>3. CASE RestoreDatabase(p, "recover", "recover_sidecar")
  BY <1>3 DEF RestoreDatabase
<1>4. CASE RestoreSidecar(p, "recover_sidecar", "recover_intent")
  BY <1>4 DEF RestoreSidecar
<1>5. CASE UnlinkIntent(p, "recover_intent", "check")
  BY <1>5 DEF UnlinkIntent
<1> QED BY ONLY <1>1, <1>2, <1>3, <1>4, <1>5,
           Unguard(p) \/ \E i \in RollbackIds : Begin(p, i) DEF Unguard

\* A move whose sidecar does not follow is taken back.
LEMMA MoveSidecarFailsKeepsInv ==
  ASSUME OneProcess, RollbackInv, NEW p \in Rollbacks, MoveSidecarFails(p)
  PROVE  RollbackInv'
<1> USE RollbackAssumption
    DEF RollbackInv, RollbackTypeOK, DatabasesAreDistinct, CallInv, Steps,
        PathHoldsDatabase, PathHoldsGuard, PathIsLeft, PathIsCleared, PathIsUnguarded,
        BackupIsThere, IntentIsThere, GuardIsKnown, ReportEndsRollback, GuardHasReason,
        DatabaseIsRecoverable, ReportIsTrue, Databases, To, OneProcess,
        diskVars, databaseVars, reportVars, processVars
<1>1. step[p] = "move_sidecar" /\ rid[p] \in RollbackIds /\ backup[rid[p]] \in Databases
  BY MoveSidecarFails(p) DEF MoveSidecarFails
<1>2. RollbackTypeOK'
  BY <1>1 DEF MoveSidecarFails
<1>3. DatabasesAreDistinct'
  <2>1. /\ made' = made /\ source' = backup[rid[p]]
        /\ \A i \in RollbackIds : backup'[i] = IF i = rid[p] THEN Nothing ELSE backup[i]
    BY DEF MoveSidecarFails
  <2>2. /\ \A i \in RollbackIds : backup[i] # Nothing => backup[i] <= made
        /\ \A i, j \in RollbackIds : backup[i] = backup[j] /\ backup[i] # Nothing => i = j
        /\ backup[rid[p]] # Nothing
    BY <1>1
  <2> QED BY ONLY <1>1, <2>1, <2>2 DEF DatabasesAreDistinct
<1>4. CallInv(p)'
  <2>1. step'[p] = "drop_intent" /\ rid' = rid /\ rolledBack' = rolledBack
    BY <1>1 DEF MoveSidecarFails
  <2>2. source' \notin Rollbacks /\ rolledBack = Nothing
    BY <1>1 DEF MoveSidecarFails
  <2> QED BY ONLY <1>1, <2>1, <2>2
<1>5. GuardHasReason' /\ DatabaseIsRecoverable' /\ ReportIsTrue'
  BY <1>1 DEF MoveSidecarFails
<1> QED BY ONLY <1>2, <1>3, <1>4, <1>5, OneCallSuffices, OneProcess, p \in Rollbacks

LEMMA ForwardKeepsInv ==
  ASSUME OneProcess, RollbackInv, NEW p \in Rollbacks, Forward(p)
  PROVE  RollbackInv'
<1> USE RollbackAssumption
    DEF RollbackInv, RollbackTypeOK, DatabasesAreDistinct, CallInv, Steps,
        PathHoldsDatabase, PathHoldsGuard, PathIsLeft, PathIsCleared, PathIsUnguarded,
        BackupIsThere, IntentIsThere, GuardIsKnown, ReportEndsRollback, GuardHasReason,
        DatabaseIsRecoverable, ReportIsTrue, Databases, To, OneProcess,
        diskVars, databaseVars, reportVars, processVars
<1>1. CASE Lock(p)
  BY <1>1 DEF Lock, BackupIsFree
<1>2. CASE AuditView(p)
  BY <1>2 DEF AuditView, BackupIsFree
<1>3. CASE Intend(p)
  BY <1>3 DEF Intend, BackupIsFree
<1>4. CASE Move(p)
  BY <1>4 DEF Move, BackupIsFree
<1>5. CASE MoveSidecar(p)
  BY <1>5 DEF MoveSidecar
<1>6. CASE Guard(p)
  BY <1>6 DEF Guard
<1>7. CASE WriteReceipt(p)
  BY <1>7 DEF WriteReceipt
<1>8. CASE BindReceipt(p)
  BY <1>8 DEF BindReceipt
<1>9. CASE SignReceipt(p)
  BY <1>9 DEF SignReceipt
<1>10. CASE Raise(p)
  BY <1>10 DEF Raise
<1> QED BY ONLY <1>1, <1>2, <1>3, <1>4, <1>5, <1>6, <1>7, <1>8, <1>9, <1>10,
           MoveSidecarFailsKeepsInv, OneProcess, RollbackInv, Forward(p) DEF Forward

\* Taking back, reporting and returning, or dying on the way
LEMMA FinishKeepsInv ==
  ASSUME OneProcess, RollbackInv, NEW p \in Rollbacks, Finish(p) \/ Crash(p)
  PROVE  RollbackInv'
<1> USE RollbackAssumption
    DEF RollbackInv, RollbackTypeOK, DatabasesAreDistinct, CallInv, Steps,
        PathHoldsDatabase, PathHoldsGuard, PathIsLeft, PathIsCleared, PathIsUnguarded,
        BackupIsThere, IntentIsThere, GuardIsKnown, ReportEndsRollback, GuardHasReason,
        DatabaseIsRecoverable, ReportIsTrue, Databases, To, OneProcess,
        diskVars, databaseVars, reportVars, processVars
<1>1. CASE UnlinkIntent(p, "written", "bind")
  BY <1>1 DEF UnlinkIntent
<1>2. CASE ReleaseGuard(p)
  BY <1>2 DEF ReleaseGuard
<1>3. CASE ReleaseFails(p)
  BY <1>3 DEF ReleaseFails
<1>4. CASE Confirm(p)
  BY <1>4 DEF Confirm
<1>5. CASE Undo(p)
  BY <1>5 DEF Undo
<1>6. CASE RemoveSource(p, "clear", "restore")
  BY <1>6 DEF RemoveSource
<1>7. CASE RestoreDatabase(p, "restore", "restore_sidecar")
  BY <1>7 DEF RestoreDatabase
<1>8. CASE RestoreSidecar(p, "restore_sidecar", "drop_intent")
  BY <1>8 DEF RestoreSidecar
<1>9. CASE UnlinkIntent(p, "drop_intent", "leave")
  BY <1>9 DEF UnlinkIntent
<1>10. CASE GiveUp(p)
  BY <1>10 DEF GiveUp
<1>11. CASE Reread(p)
  BY <1>11 DEF Reread
<1>12. CASE ReportRolledBack(p)
  BY <1>12 DEF ReportRolledBack, Stands
<1>13. CASE Return(p)
  BY <1>13 DEF Return, Unlock
<1> QED BY ONLY <1>1, <1>2, <1>3, <1>4, <1>5, <1>6, <1>7, <1>8, <1>9, <1>10, <1>11, <1>12,
           <1>13, Finish(p) \/ Crash(p) DEF Finish, Crash

\* A shadow cycle may take the path while it is free.
LEMMA CycleKeepsInv ==
  ASSUME OneProcess, RollbackInv, Create \/ Log \/ UNCHANGED rollbackVars
  PROVE  RollbackInv'
<1> USE RollbackAssumption
    DEF RollbackInv, RollbackTypeOK, DatabasesAreDistinct, CallInv, Steps,
        PathHoldsDatabase, PathHoldsGuard, PathIsLeft, PathIsCleared, PathIsUnguarded,
        BackupIsThere, IntentIsThere, GuardIsKnown, ReportEndsRollback, GuardHasReason,
        DatabaseIsRecoverable, ReportIsTrue, Databases, OneProcess,
        diskVars, databaseVars, reportVars, processVars
<1>1. CASE Create
  <2>1. RollbackTypeOK' /\ DatabasesAreDistinct' /\ GuardHasReason'
    BY <1>1 DEF Create
  <2>2. DatabaseIsRecoverable' /\ ReportIsTrue'
    BY <1>1 DEF Create
  <2>3. ASSUME NEW p \in Rollbacks PROVE CallInv(p)'
    BY <1>1 DEF Create
  <2> QED BY ONLY <2>1, <2>2, <2>3 DEF RollbackInv
<1>2. CASE Log
  <2>1. RollbackTypeOK' /\ DatabasesAreDistinct' /\ GuardHasReason'
    BY <1>2 DEF Log
  <2>2. DatabaseIsRecoverable' /\ ReportIsTrue'
    BY <1>2 DEF Log
  <2>3. ASSUME NEW p \in Rollbacks PROVE CallInv(p)'
    BY <1>2 DEF Log, BackupIsFree
  <2> QED BY ONLY <2>1, <2>2, <2>3 DEF RollbackInv
<1>3. CASE UNCHANGED rollbackVars
  BY <1>3 DEF rollbackVars, BackupIsFree
<1> QED BY ONLY <1>1, <1>2, <1>3, Create \/ Log \/ UNCHANGED rollbackVars

LEMMA RollbackStep ==
  OneProcess /\ RollbackInv /\ [RollbackNext]_rollbackVars => RollbackInv'
BY UnguardKeepsInv, ForwardKeepsInv, FinishKeepsInv, CycleKeepsInv DEF RollbackNext

LEMMA RollbackInvHolds ==
  ASSUME OneProcess
  PROVE  RollbackSpec => []RollbackInv
<1>1. RollbackInv /\ [RollbackNext]_rollbackVars => RollbackInv'
  BY RollbackStep
<1> QED BY <1>1, RollbackInitInv, PTL DEF RollbackSpec

\* However a call of force_heartbeat_file_authority_rollback of
\* heartbeat_shadow.py fails, dies between two file operations and is repeated
\* with any rollback ids, the database that was there first is at its path or
\* in a backup: for any number of rollbacks and of databases created meanwhile.
THEOREM DatabaseStaysRecoverable ==
  ASSUME OneProcess
  PROVE  RollbackSpec => []DatabaseIsRecoverable
<1>1. RollbackInv => DatabaseIsRecoverable
  BY DEF RollbackInv
<1> QED BY <1>1, RollbackInvHolds, PTL

\* What the monitor reports as "rolled_back" is so and stays so, whichever
\* receipts of failed or interrupted calls it finds: the receipt names a backup
\* whose database is not in use, and nothing of it blocks or misleads the path.
THEOREM ReportStaysTrue ==
  ASSUME OneProcess
  PROVE  RollbackSpec => []ReportIsTrue
<1>1. RollbackInv => ReportIsTrue
  BY DEF RollbackInv
<1> QED BY <1>1, RollbackInvHolds, PTL

\* A guard that a call left behind is covered by a receipt, or
\* _recover_abandoned_rollback_source_guard of a later call with the id of its
\* rollback finds what it needs to remove it; only a guard that could not be
\* removed after the receipt may lack both, and its backup holds a database.
THEOREM GuardsAreRecoverable ==
  ASSUME OneProcess
  PROVE  RollbackSpec => []AbandonedGuardIsRecoverable
<1>1. RollbackInv => AbandonedGuardIsRecoverable
  BY DEF RollbackInv, RollbackTypeOK, GuardHasReason, AbandonedGuardIsRecoverable,
         NeedsRecovery
<1> QED BY <1>1, RollbackInvHolds, PTL
=============================================================================
