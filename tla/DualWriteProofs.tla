--------------------------- MODULE DualWriteProofs ---------------------------
(***************************************************************************)
(* What recorded artifacts can rely on, for every set of processes, runs,  *)
(* paths and contents.  That an artifact has evidence holds whatever fails *)
(* in between.  That a finalized artifact stays needs OneWriterIfLate:     *)
(* shadow_unlink shows what two processes and a failing call after the     *)
(* link do.                                                                *)
(***************************************************************************)
EXTENDS DualWrite, TLAPS

-----------------------------------------------------------------------------
(* Rows, processes and files, whatever fails *)

LEMMA RowsInvInit == Init => RowsInv
BY ArtifactAssumption
   DEF Init, FileInit, RowsInv, TypeOK, FileTypeOK, RowTypeOK, Mode, At, RunsMatchRows,
       JobsAreDeclared, ArtifactHasEvidence, Artifacts, IsDual

\* Preparing adds a dual run whose artifact does not exist.
LEMMA PrepareKeepsRows ==
  ASSUME RowsInv, NEW w \in Writers, NEW j \in Job, NEW b \in BOOLEAN,
         Prepare(w, j, b)
  PROVE  RowsInv'
<1> USE ArtifactAssumption
    DEF RowsInv, TypeOK, FileTypeOK, RowTypeOK, Job, Artifacts, IsDual, Prepare, Goto
<1>1. TypeOK'
  BY DEF At, Mode
<1>2. \A r \in Runs : r # j.run => /\ rows'[r] = rows[r]
                                  /\ source'[r] = source[r]
                                  /\ state'[r] = state[r]
  OBVIOUS
<1>3. /\ j.run \in Runs /\ j.path \in Paths /\ j.sha \in Contents
      /\ rows'[j.run] = {<<j.path, j.sha>>}
      /\ source'[j.run] = "dual_write_shadow"
      /\ state'[j.run] = "prepared"
  OBVIOUS
<1>4. RunsMatchRows'
  <2>1. ASSUME NEW r \in Runs
        PROVE  /\ (rows'[r] = {}) <=> (state'[r] = "none")
               /\ state'[r] = "prepared" => source'[r] = "dual_write_shadow"
    <3>1. CASE r = j.run
      BY ONLY <1>3, <3>1
    <3>2. CASE r # j.run
      BY ONLY RunsMatchRows, r \in Runs, <1>2, <3>2 DEF RunsMatchRows, IsDual
    <3>3. QED
      BY ONLY <3>1, <3>2
  <2>2. ASSUME NEW r \in Runs, source'[r] = "dual_write_shadow"
        PROVE  \E p \in Paths, c \in Contents : rows'[r] = {<<p, c>>}
    <3>1. CASE r = j.run
      <4>1. rows'[r] = {<<j.path, j.sha>>} /\ j.path \in Paths /\ j.sha \in Contents
        BY <3>1, <1>3
      <4>2. QED
        BY <4>1, Zenon
    <3>2. CASE r # j.run
      BY <3>2, <2>2, <1>2 DEF RunsMatchRows
    <3>3. QED
      BY <3>1, <3>2
  <2>3. QED
    BY <2>1, <2>2 DEF RunsMatchRows
<1>5. JobsAreDeclared'
  <2>1. job'[w] = j /\ ExactReplay(j)'
    BY <1>3 DEF ExactReplay
  <2>2. ASSUME NEW v \in Writers, v # w, at[v] # "idle"
        PROVE  job'[v] = job[v] /\ job[v] \in Job /\ ExactReplay(job[v])'
    <3>1. job[v] \in Job /\ ExactReplay(job[v])
      BY <2>2 DEF JobsAreDeclared
    <3>2. job[v].run # j.run
      BY <3>1 DEF ExactReplay
    <3>3. QED
      BY <2>2, <3>1, <3>2, <1>2 DEF ExactReplay
  <2>3. QED
    BY <2>1, <2>2 DEF JobsAreDeclared
<1>6. ArtifactHasEvidence'
  <2>1. ASSUME NEW p \in Artifacts, file[p] # Absent
        PROVE  \E r \in Runs : IsDual(r)' /\ rows'[r] = {<<p, file[p]>>}
    <3>1. PICK r \in Runs : IsDual(r) /\ rows[r] = {<<p, file[p]>>}
      BY <2>1 DEF ArtifactHasEvidence
    <3>2. r # j.run
      BY <3>1
    <3>3. QED
      BY <3>1, <3>2, <1>2
  <2>2. QED
    BY <2>1 DEF ArtifactHasEvidence
<1>7. QED
  BY <1>1, <1>4, <1>5, <1>6

\* Steps that leave the files and the rows alone.
LEMMA PositionsKeepRows ==
  ASSUME RowsInv, NEW w \in Writers,
         \/ \E j \in Job : Recover(w, j)
         \/ (LateCallsSucceed(w) \/ Stop(w)) /\ UNCHANGED rowVars
         \/ BeginFinalize(w)
  PROVE  RowsInv'
<1> USE ArtifactAssumption
    DEF RowsInv, TypeOK, FileTypeOK, RowTypeOK, Recover, LateCallsSucceed, Stop,
        BeginFinalize, Leave, Goto, rowVars
<1>1. file' = file /\ UNCHANGED rowVars
  OBVIOUS
<1>2. FileTypeOK'
  BY DEF At
<1>3. RunsMatchRows' /\ ArtifactHasEvidence'
  BY <1>1 DEF RunsMatchRows, ArtifactHasEvidence, IsDual
<1>4. \A v \in Writers : at'[v] # "idle" =>
         \/ at[v] # "idle" /\ job'[v] = job[v]
         \/ job'[v] \in Job /\ ExactReplay(job'[v])
  OBVIOUS
<1>5. JobsAreDeclared'
  BY <1>1, <1>4 DEF JobsAreDeclared, ExactReplay, IsDual
<1>6. QED
  BY <1>1, <1>2, <1>3, <1>5

\* A link creates the file of a declared artifact.
LEMMA LinkKeepsRows ==
  ASSUME RowsInv, NEW w \in Writers, Link(w), UNCHANGED rowVars
  PROVE  RowsInv'
<1> USE ArtifactAssumption
    DEF RowsInv, TypeOK, FileTypeOK, RowTypeOK, Job, Artifacts, IsDual, Link, Goto, rowVars
<1>1. job[w] \in Job /\ ExactReplay(job[w])
  BY DEF JobsAreDeclared
<1>2. \A p \in Paths : p # job[w].path => file'[p] = file[p]
  BY <1>1
<1>3. file'[job[w].path] = job[w].sha
  BY <1>1
<1>4. TypeOK'
  BY <1>1 DEF At, Mode
<1>5. RunsMatchRows' /\ JobsAreDeclared'
  BY DEF RunsMatchRows, JobsAreDeclared, ExactReplay
<1>6. ArtifactHasEvidence'
  BY <1>1, <1>2, <1>3 DEF ArtifactHasEvidence, ExactReplay
<1>7. QED
  BY <1>4, <1>5, <1>6

\* A failure after the link takes the file back: less to be shown.
LEMMA LateCallFailsKeepsRows ==
  ASSUME RowsInv, NEW w \in Writers, LateCallFails(w), UNCHANGED rowVars
  PROVE  RowsInv'
<1> USE ArtifactAssumption
    DEF RowsInv, TypeOK, FileTypeOK, RowTypeOK, Job, Artifacts, IsDual, LateCallFails,
        Leave, Goto, rowVars
<1>1. job[w] \in Job
  BY DEF JobsAreDeclared
<1>2. \A p \in Paths : file'[p] = file[p] \/ file'[p] = Absent
  BY <1>1
<1>3. TypeOK'
  BY <1>1 DEF At, Mode
<1>4. RunsMatchRows' /\ JobsAreDeclared'
  BY DEF RunsMatchRows, JobsAreDeclared, ExactReplay
<1>5. ArtifactHasEvidence'
  BY <1>2 DEF ArtifactHasEvidence
<1>6. QED
  BY <1>3, <1>4, <1>5

LEMMA CommitFinalizeKeepsRows ==
  ASSUME RowsInv, NEW w \in Writers, CommitFinalize(w)
  PROVE  RowsInv'
<1> USE ArtifactAssumption
    DEF RowsInv, TypeOK, FileTypeOK, RowTypeOK, Job, Artifacts, IsDual, CommitFinalize,
        Leave, Goto
<1>1. job[w] \in Job /\ ExactReplay(job[w])
  BY DEF JobsAreDeclared
<1>2. TypeOK'
  BY <1>1 DEF At, Mode
<1>3. RunsMatchRows'
  <2>1. \A r \in Runs : r # job[w].run => state'[r] = state[r]
    BY <1>1
  <2>2. state'[job[w].run] = "finalized" /\ rows[job[w].run] # {}
    BY <1>1 DEF ExactReplay
  <2>3. state[job[w].run] # "none"
    BY <1>1, <2>2 DEF RunsMatchRows
  <2>4. QED
    BY <2>1, <2>2, <2>3 DEF RunsMatchRows
<1>4. JobsAreDeclared' /\ ArtifactHasEvidence'
  BY DEF JobsAreDeclared, ExactReplay, ArtifactHasEvidence
<1>5. QED
  BY <1>2, <1>3, <1>4

\* Backfills leave dual runs alone.
LEMMA BackfillKeepsRows ==
  ASSUME RowsInv, NEW r \in Runs, NEW S \in (SUBSET Paths) \ {{}}, Backfill(r, S)
  PROVE  RowsInv'
<1> USE ArtifactAssumption
    DEF RowsInv, TypeOK, FileTypeOK, RowTypeOK, Job, Artifacts, IsDual, Backfill, fileVars
<1>1. ~IsDual(r)
  BY DEF IsShadow, RunsMatchRows
<1>2. \A s \in Runs : s # r => /\ rows'[s] = rows[s]
                               /\ source'[s] = source[s]
                               /\ state'[s] = state[s]
  OBVIOUS
<1>3. source'[r] = "file_authority_shadow" /\ state'[r] = "finalized"
  OBVIOUS
<1>4. {<<p, file[p]>> : p \in S} \in SUBSET (Paths \X Contents)
  OBVIOUS
<1>5. rows'[r] # {}
  <2>1. PICK p \in S : TRUE
    OBVIOUS
  <2>2. <<p, file[p]>> \in rows'[r]
    BY <2>1
  <2>3. QED
    BY <2>2
<1>6. TypeOK'
  BY <1>4 DEF At, Mode
<1>7. RunsMatchRows'
  BY <1>2, <1>3, <1>5 DEF RunsMatchRows
<1>8. JobsAreDeclared'
  BY <1>1, <1>2 DEF JobsAreDeclared, ExactReplay
<1>9. ArtifactHasEvidence'
  BY <1>1, <1>2 DEF ArtifactHasEvidence
<1>10. QED
  BY <1>6, <1>7, <1>8, <1>9

LEMMA EditKeepsRows ==
  ASSUME RowsInv, NEW p \in Edited, Edit(p), UNCHANGED rowVars
  PROVE  RowsInv'
<1> USE ArtifactAssumption
    DEF RowsInv, TypeOK, FileTypeOK, RowTypeOK, Job, Artifacts, IsDual, Edit, rowVars
<1>1. PICK x \in Contents \cup {Absent} : file' = [file EXCEPT ![p] = x]
  OBVIOUS
<1>2. \A a \in Artifacts : file'[a] = file[a]
  BY <1>1
<1>3. TypeOK'
  BY <1>1 DEF At, Mode
<1>4. RunsMatchRows' /\ JobsAreDeclared'
  BY DEF RunsMatchRows, JobsAreDeclared, ExactReplay
<1>5. ArtifactHasEvidence'
  BY <1>2 DEF ArtifactHasEvidence
<1>6. QED
  BY <1>3, <1>4, <1>5

LEMMA RowsInvStep ==
  ASSUME RowsInv, [Next]_vars
  PROVE  RowsInv'
<1>1. CASE \E w \in Writers, j \in Job, b \in BOOLEAN : Prepare(w, j, b)
  BY <1>1, PrepareKeepsRows
<1>2. CASE \E w \in Writers : \/ \E j \in Job : Recover(w, j)
                              \/ (LateCallsSucceed(w) \/ Stop(w)) /\ UNCHANGED rowVars
                              \/ BeginFinalize(w)
  BY <1>2, PositionsKeepRows
<1>3. CASE \E w \in Writers : (Link(w) \/ LateCallFails(w)) /\ UNCHANGED rowVars
  BY <1>3, LinkKeepsRows, LateCallFailsKeepsRows
<1>4. CASE \E w \in Writers : CommitFinalize(w)
  BY <1>4, CommitFinalizeKeepsRows
<1>5. CASE \E r \in Runs, S \in (SUBSET Paths) \ {{}} : Backfill(r, S)
  BY <1>5, BackfillKeepsRows
<1>6. CASE \E p \in Edited : Edit(p) /\ UNCHANGED rowVars
  BY <1>6, EditKeepsRows
<1>7. CASE UNCHANGED vars
  BY <1>7 DEF RowsInv, TypeOK, FileTypeOK, RowTypeOK, Job, Artifacts, IsDual, vars, fileVars,
     rowVars, RunsMatchRows, JobsAreDeclared, ExactReplay, ArtifactHasEvidence
<1>8. QED
  BY <1>1, <1>2, <1>3, <1>4, <1>5, <1>6, <1>7 DEF Next, Continue, CreateStep

\* The recorded runs, what processes write and what files show stay consistent
\* through every interleaving and interruption of dual writes, retries and
\* backfills, also where a call after a link fails.
THEOREM RowsInvariant == Spec => []RowsInv
<1>1. RowsInv /\ [Next]_vars => RowsInv'
  BY RowsInvStep
<1>2. QED
  BY RowsInvInit, <1>1, PTL DEF Spec

\* No call, however it ends and whoever else is writing, leaves a file at an
\* artifact's path without the run that recorded it.
THEOREM NoUnrecordedArtifact == Spec => []ArtifactHasEvidence
<1>1. RowsInv => ArtifactHasEvidence
  BY DEF RowsInv
<1>2. QED
  BY RowsInvariant, <1>1, PTL

-----------------------------------------------------------------------------
(* Finalized artifacts, where nobody takes back what another relies on *)

OneWriterIfLate == LateFailures => \A v, w \in Writers : v = w

FilesHold == LinkedFileIsThere /\ LinkedIsUnsealed /\ FinalizedKeepsArtifact

LEMMA FilesHoldInit == Init => FilesHold
BY DEF Init, FileInit, FilesHold, LinkedFileIsThere, LinkedIsUnsealed,
       FinalizedKeepsArtifact, IsDual

\* Steps that change no file, no row of a dual run that is finalized, and link
\* nothing.
LEMMA OthersKeepFiles ==
  ASSUME ShadowInv, file' = file,
         \A v \in Writers :
           \/ at'[v] \in {"idle", "create"}
           \/ job'[v] = job[v] /\ at'[v] = at[v]
           \/ job'[v] = job[v] /\ at[v] = "linked" /\ at'[v] = "created"
           \/ job'[v] = job[v] /\ at[v] = "created" /\ at'[v] = "checked"
           \/ at'[v] = "checked" /\ file[job'[v].path] = job'[v].sha,
         \A r \in Runs : IsDual(r)' /\ state'[r] = "finalized" =>
           IsDual(r) /\ state[r] = "finalized" /\ rows'[r] = rows[r]
  PROVE  FilesHold'
<1> USE DEF ShadowInv
<1>1. LinkedFileIsThere'
  BY DEF LinkedFileIsThere
<1>2. LinkedIsUnsealed'
  BY DEF LinkedIsUnsealed
<1>3. FinalizedKeepsArtifact'
  BY DEF FinalizedKeepsArtifact
<1>4. QED
  BY <1>1, <1>2, <1>3 DEF FilesHold

LEMMA LinkKeepsFiles ==
  ASSUME ShadowInv, NEW w \in Writers, Link(w), UNCHANGED rowVars
  PROVE  FilesHold'
<1> USE ArtifactAssumption
    DEF ShadowInv, RowsInv, TypeOK, FileTypeOK, RowTypeOK, Job, Artifacts, IsDual, Link,
        Goto, rowVars
<1>1. job[w] \in Job /\ ExactReplay(job[w]) /\ file[job[w].path] = Absent
  BY DEF JobsAreDeclared
<1>2. \A p \in Paths : p # job[w].path => file'[p] = file[p]
  BY <1>1
<1>3. file'[job[w].path] = job[w].sha
  BY <1>1
<1>4. LinkedFileIsThere'
  BY <1>1, <1>2, <1>3 DEF LinkedFileIsThere, JobsAreDeclared
<1>5. \A r \in Runs, p \in Artifacts, c \in Contents :
        IsDual(r) /\ state[r] = "finalized" /\ <<p, c>> \in rows[r] => file[p] = c
  BY DEF FinalizedKeepsArtifact
<1>6. LinkedIsUnsealed'
  BY <1>1, <1>5 DEF LinkedIsUnsealed
<1>7. FinalizedKeepsArtifact'
  BY <1>1, <1>2, <1>3 DEF FinalizedKeepsArtifact
<1>8. QED
  BY <1>4, <1>6, <1>7 DEF FilesHold

\* The file that is taken back is the only process's own, and unsealed.
LEMMA LateCallFailsKeepsFiles ==
  ASSUME OneWriterIfLate, ShadowInv, NEW w \in Writers, LateCallFails(w),
         UNCHANGED rowVars
  PROVE  FilesHold'
<1> USE ArtifactAssumption
    DEF ShadowInv, RowsInv, TypeOK, FileTypeOK, RowTypeOK, Job, Artifacts, IsDual,
        LateCallFails, Leave, Goto, rowVars
<1>1. job[w] \in Job /\ at[w] = "linked" /\ LateFailures
  BY DEF JobsAreDeclared
<1>2. \A v \in Writers : v = w
  BY <1>1 DEF OneWriterIfLate
<1>3. \A p \in Paths : p # job[w].path => file'[p] = file[p]
  BY <1>1
<1>4. \A r \in Runs, c \in Contents :
        IsDual(r) /\ state[r] = "finalized" /\ job[w].path \in Artifacts
          => <<job[w].path, c>> \notin rows[r]
  BY <1>1 DEF LinkedIsUnsealed
<1>5. LinkedFileIsThere' /\ LinkedIsUnsealed'
  BY <1>2 DEF LinkedFileIsThere, LinkedIsUnsealed
<1>6. FinalizedKeepsArtifact'
  <2>1. ASSUME NEW r \in Runs, IsDual(r), state[r] = "finalized"
        PROVE  \E p \in Paths, c \in Contents :
                 rows[r] = {<<p, c>>} /\ (p \in Artifacts => file'[p] = c)
    <3>1. PICK p \in Paths, c \in Contents :
                 rows[r] = {<<p, c>>} /\ (p \in Artifacts => file[p] = c)
      BY <2>1 DEF FinalizedKeepsArtifact
    <3>2. p \in Artifacts => p # job[w].path
      BY <2>1, <3>1, <1>4
    <3>3. QED
      BY <3>1, <3>2, <1>3
  <2>2. QED
    BY <2>1 DEF FinalizedKeepsArtifact
<1>7. QED
  BY <1>5, <1>6 DEF FilesHold

\* The process that seals its run has the file, and nobody can take it back.
LEMMA CommitFinalizeKeepsFiles ==
  ASSUME OneWriterIfLate, ShadowInv, NEW w \in Writers, CommitFinalize(w)
  PROVE  FilesHold'
<1> USE ArtifactAssumption
    DEF ShadowInv, RowsInv, TypeOK, FileTypeOK, RowTypeOK, Job, Artifacts, IsDual,
        CommitFinalize, Leave, Goto
<1>1. job[w] \in Job /\ ExactReplay(job[w])
  BY DEF JobsAreDeclared
<1>2. job[w].path \in Artifacts => file[job[w].path] = job[w].sha
  BY DEF LinkedFileIsThere
<1>3. LinkedFileIsThere'
  BY DEF LinkedFileIsThere
<1>4. LinkedIsUnsealed'
  <2>1. LateFailures => \A v \in Writers : at'[v] = "idle"
    BY DEF OneWriterIfLate
  <2>2. QED
    BY <2>1 DEF LinkedIsUnsealed
<1>5. FinalizedKeepsArtifact'
  <2>1. \A r \in Runs : r # job[w].run => state'[r] = state[r]
    BY <1>1
  <2>2. QED
    BY <1>1, <1>2, <2>1 DEF FinalizedKeepsArtifact, ExactReplay
<1>6. QED
  BY <1>3, <1>4, <1>5 DEF FilesHold

LEMMA EditKeepsFiles ==
  ASSUME ShadowInv, NEW p \in Edited, Edit(p), UNCHANGED rowVars
  PROVE  FilesHold'
<1> USE ArtifactAssumption
    DEF ShadowInv, RowsInv, TypeOK, FileTypeOK, RowTypeOK, Job, Artifacts, IsDual, Edit,
        rowVars
<1>1. PICK x \in Contents \cup {Absent} : file' = [file EXCEPT ![p] = x]
  OBVIOUS
<1>2. \A a \in Artifacts : file'[a] = file[a]
  BY <1>1
<1>3. LinkedIsUnsealed'
  BY DEF LinkedIsUnsealed
<1>4. LinkedFileIsThere'
  BY <1>2 DEF LinkedFileIsThere
<1>5. FinalizedKeepsArtifact'
  BY <1>2 DEF FinalizedKeepsArtifact
<1>6. QED
  BY <1>3, <1>4, <1>5 DEF FilesHold

LEMMA FilesHoldStep ==
  ASSUME OneWriterIfLate, ShadowInv, [Next]_vars
  PROVE  FilesHold'
<1>1. ASSUME NEW w \in Writers, NEW j \in Job, NEW b \in BOOLEAN, Prepare(w, j, b)
      PROVE  FilesHold'
  <2>1. file' = file
    BY <1>1 DEF Prepare
  <2>2. \A v \in Writers : \/ job'[v] = job[v] /\ at'[v] = at[v]
                           \/ at'[v] = "create"
    BY <1>1 DEF Prepare, Goto, ShadowInv, RowsInv, TypeOK, FileTypeOK
  <2>3. \A r \in Runs : r # j.run => /\ rows'[r] = rows[r]
                                    /\ source'[r] = source[r]
                                    /\ state'[r] = state[r]
    BY <1>1 DEF Prepare, ShadowInv, RowsInv, TypeOK, RowTypeOK
  <2>4. state'[j.run] = "prepared"
    BY <1>1 DEF Prepare, Job, ShadowInv, RowsInv, TypeOK, RowTypeOK
  <2>5. QED
    BY <2>1, <2>2, <2>3, <2>4, OthersKeepFiles DEF IsDual
<1>2. ASSUME NEW w \in Writers,
             \/ \E j \in Job : Recover(w, j)
             \/ (LateCallsSucceed(w) \/ Stop(w)) /\ UNCHANGED rowVars
             \/ BeginFinalize(w)
      PROVE  FilesHold'
  <2>1. file' = file /\ UNCHANGED rowVars
    BY <1>2 DEF Recover, LateCallsSucceed, Stop, BeginFinalize
  <2>2. \A v \in Writers : v # w => job'[v] = job[v] /\ at'[v] = at[v]
    BY <1>2 DEF Recover, LateCallsSucceed, Stop, BeginFinalize, Leave, Goto, ShadowInv,
       RowsInv, TypeOK, FileTypeOK
  <2>3. \/ at'[w] \in {"idle", "create"}
        \/ job'[w] = job[w] /\ at[w] = "linked" /\ at'[w] = "created"
        \/ job'[w] = job[w] /\ at[w] = "created" /\ at'[w] = "checked"
        \/ at'[w] = "checked" /\ file[job'[w].path] = job'[w].sha
    BY <1>2 DEF Recover, LateCallsSucceed, Stop, BeginFinalize, Leave, Goto, ShadowInv,
       RowsInv, TypeOK, FileTypeOK
  <2>4. QED
    BY <2>1, <2>2, <2>3, OthersKeepFiles DEF IsDual, rowVars
<1>3. ASSUME NEW r \in Runs, NEW S \in (SUBSET Paths) \ {{}}, Backfill(r, S)
      PROVE  FilesHold'
  <2>1. UNCHANGED <<file, at, job>> /\ source'[r] = "file_authority_shadow"
    BY <1>3 DEF Backfill, fileVars, ShadowInv, RowsInv, TypeOK, RowTypeOK
  <2>2. \A s \in Runs : s # r => /\ rows'[s] = rows[s]
                                /\ source'[s] = source[s]
                                /\ state'[s] = state[s]
    BY <1>3 DEF Backfill, ShadowInv, RowsInv, TypeOK, RowTypeOK
  <2>3. QED
    BY <2>1, <2>2, OthersKeepFiles DEF IsDual
<1>4. CASE UNCHANGED vars
  BY <1>4, OthersKeepFiles DEF vars, fileVars, rowVars, IsDual
<1>5. QED
  BY <1>1, <1>2, <1>3, <1>4, LinkKeepsFiles, LateCallFailsKeepsFiles,
     CommitFinalizeKeepsFiles, EditKeepsFiles DEF Next, Continue, CreateStep

\* The recorded runs, the processes and the files stay consistent through
\* every interleaving and interruption of dual writes, retries and backfills.
THEOREM ShadowInvariant ==
  ASSUME OneWriterIfLate
  PROVE  Spec => []ShadowInv
<1>1. Init => ShadowInv
  BY RowsInvInit, FilesHoldInit DEF FilesHold, ShadowInv
<1>2. ShadowInv /\ [Next]_vars => ShadowInv'
  BY RowsInvStep, FilesHoldStep DEF FilesHold, ShadowInv
<1>3. QED
  BY <1>1, <1>2, PTL DEF Spec

\* A finalized dual write keeps its one projection, and an artifact that no
\* other program edits keeps the recorded content: every later exact replay
\* and audit of dual_write_shadow_artifact passes.
THEOREM FinalizedArtifactStays ==
  ASSUME OneWriterIfLate
  PROVE  Spec => []FinalizedKeepsArtifact
<1>1. ShadowInv => FinalizedKeepsArtifact
  BY DEF ShadowInv
<1>2. QED
  BY ShadowInvariant, <1>1, PTL

-----------------------------------------------------------------------------
(* Dual writes implement the register, step by step. *)

LEMMA RegisterInit == Init => Register!Init
BY ArtifactAssumption
   DEF Init, FileInit, Register!Init, Content, Declared, Sealed, Artifacts, IsDual, OnArtifact

\* A step that leaves artifacts and dual runs alone is a stutter.
LEMMA RegisterStutter ==
  ASSUME \A p \in Artifacts : file'[p] = file[p],
         \A r \in Runs : IsDual(r)' <=> IsDual(r),
         \A r \in Runs : IsDual(r) => rows'[r] = rows[r] /\ state'[r] = state[r]
  PROVE  UNCHANGED Register!registerVars
<1>1. Content' = Content
  BY DEF Content
<1>2. Declared' = Declared
  BY DEF Declared, OnArtifact
<1>3. Sealed' = Sealed
  BY DEF Sealed, OnArtifact
<1>4. QED
  BY <1>1, <1>2, <1>3 DEF Register!registerVars

LEMMA PrepareDeclares ==
  ASSUME ShadowInv, NEW w \in Writers, NEW j \in Job, NEW b \in BOOLEAN,
         Prepare(w, j, b)
  PROVE  Register!Next \/ UNCHANGED Register!registerVars
<1>1. /\ j.run \in Runs /\ j.path \in Paths /\ j.sha \in Contents
      /\ rows[j.run] = {} /\ file[j.path] = Absent /\ file' = file
      /\ rows'[j.run] = {<<j.path, j.sha>>}
      /\ source'[j.run] = "dual_write_shadow"
      /\ state'[j.run] = "prepared"
  BY DEF Prepare, Job, ShadowInv, RowsInv, TypeOK, RowTypeOK
<1>2. \A r \in Runs : r # j.run => /\ rows'[r] = rows[r]
                                  /\ source'[r] = source[r]
                                  /\ state'[r] = state[r]
  BY DEF Prepare, Job, ShadowInv, RowsInv, TypeOK, RowTypeOK
<1>3. ~IsDual(j.run)
  BY <1>1 DEF ShadowInv, RowsInv, RunsMatchRows
<1>4. Content' = Content
  BY <1>1 DEF Content
<1>5. Sealed' = Sealed
  BY <1>1, <1>2, <1>3 DEF Sealed, IsDual, OnArtifact
<1>6. CASE j.path \in Artifacts
  <2>1. Declared[j.run] = {} /\ Content[j.path] = Absent
    BY <1>1, <1>3, <1>6 DEF Declared, Content
  <2>2. Declared' = [Declared EXCEPT ![j.run] = {<<j.path, j.sha>>}]
    <3>1. \A r \in Runs : r # j.run =>
            /\ IsDual(r)' <=> IsDual(r)
            /\ OnArtifact(r)' <=> OnArtifact(r)
      BY <1>2 DEF IsDual, OnArtifact
    <3>2. IsDual(j.run)' /\ OnArtifact(j.run)'
      BY <1>1, <1>6 DEF IsDual, OnArtifact
    <3>3. QED
      BY <1>1, <1>2, <3>1, <3>2 DEF Declared
  <2>3. Register!Declare(j.run, j.path, j.sha)
    BY <1>4, <1>5, <2>1, <2>2 DEF Register!Declare
  <2>4. QED
    BY <1>1, <1>6, <2>3 DEF Register!Next
<1>7. CASE j.path \notin Artifacts
  <2>1. ~OnArtifact(j.run)'
    BY <1>1, <1>7 DEF OnArtifact
  <2>2. Declared' = Declared
    <3>1. ASSUME NEW r \in Runs
          PROVE  Declared'[r] = Declared[r]
      <4>1. CASE r = j.run
        BY ONLY <1>1, <1>3, <2>1, <4>1 DEF Declared
      <4>2. CASE r # j.run
        BY ONLY <1>2, <4>2, r \in Runs DEF Declared, IsDual, OnArtifact
      <4>3. QED
        BY ONLY <4>1, <4>2
    <3>2. QED
      BY ONLY <3>1 DEF Declared
  <2>3. QED
    BY <1>4, <1>5, <2>2 DEF Register!registerVars
<1>8. QED
  BY <1>6, <1>7

LEMMA LinkWrites ==
  ASSUME ShadowInv, NEW w \in Writers, Link(w), UNCHANGED rowVars
  PROVE  Register!Next \/ UNCHANGED Register!registerVars
<1>1. job[w] \in Job /\ ExactReplay(job[w]) /\ file[job[w].path] = Absent
  BY DEF Link, ShadowInv, RowsInv, JobsAreDeclared
<1>2. job[w].run \in Runs /\ job[w].path \in Paths /\ job[w].sha \in Contents
  BY <1>1 DEF Job
<1>3. file' = [file EXCEPT ![job[w].path] = job[w].sha]
  BY DEF Link
<1>4. CASE job[w].path \in Artifacts
  <2>1. <<job[w].path, job[w].sha>> \in Declared[job[w].run]
    BY <1>1, <1>2, <1>4 DEF Declared, ExactReplay, OnArtifact
  <2>2. Content[job[w].path] = Absent
    BY <1>1, <1>4 DEF Content
  <2>3. Content' = [Content EXCEPT ![job[w].path] = job[w].sha]
    BY <1>3, <1>4 DEF Content, Artifacts, ShadowInv, RowsInv, TypeOK, FileTypeOK
  <2>4. Declared' = Declared /\ Sealed' = Sealed
    BY DEF Declared, Sealed, IsDual, OnArtifact, rowVars
  <2>5. Register!Write(job[w].run, job[w].path, job[w].sha)
    BY <2>1, <2>2, <2>3, <2>4 DEF Register!Write
  <2>6. QED
    BY <1>2, <1>4, <2>5 DEF Register!Next
<1>5. CASE job[w].path \notin Artifacts
  <2>1. \A p \in Artifacts : file'[p] = file[p]
    BY <1>3, <1>5 DEF Artifacts, ShadowInv, RowsInv, TypeOK, FileTypeOK
  <2>2. QED
    BY <2>1, RegisterStutter DEF rowVars, IsDual
<1>6. QED
  BY <1>4, <1>5

LEMMA LateFailureTakesBack ==
  ASSUME ShadowInv, NEW w \in Writers, LateCallFails(w), UNCHANGED rowVars
  PROVE  Register!Next \/ UNCHANGED Register!registerVars
<1>1. job[w] \in Job /\ at[w] = "linked" /\ LateFailures
  BY DEF LateCallFails, ShadowInv, RowsInv, JobsAreDeclared
<1>2. file' = [file EXCEPT ![job[w].path] = Absent]
  BY DEF LateCallFails
<1>3. CASE job[w].path \in Artifacts
  <2>1. \A r \in Sealed, c \in Contents : <<job[w].path, c>> \notin Declared[r]
    BY <1>1, <1>3 DEF Sealed, Declared, ShadowInv, LinkedIsUnsealed
  <2>2. Content' = [Content EXCEPT ![job[w].path] = Absent]
    BY <1>2, <1>3 DEF Content, Artifacts, ShadowInv, RowsInv, TypeOK, FileTypeOK
  <2>3. Declared' = Declared /\ Sealed' = Sealed
    BY DEF Declared, Sealed, IsDual, OnArtifact, rowVars
  <2>4. Register!TakeBack(job[w].path)
    BY <2>1, <2>2, <2>3 DEF Register!TakeBack
  <2>5. QED
    BY <1>3, <2>4 DEF Register!Next
<1>4. CASE job[w].path \notin Artifacts
  <2>1. \A p \in Artifacts : file'[p] = file[p]
    BY <1>2, <1>4 DEF Artifacts, ShadowInv, RowsInv, TypeOK, FileTypeOK
  <2>2. QED
    BY <2>1, RegisterStutter DEF rowVars, IsDual
<1>5. QED
  BY <1>3, <1>4

LEMMA CommitSeals ==
  ASSUME ShadowInv, NEW w \in Writers, CommitFinalize(w)
  PROVE  Register!Next \/ UNCHANGED Register!registerVars
<1>1. job[w] \in Job /\ ExactReplay(job[w])
  BY DEF CommitFinalize, ShadowInv, RowsInv, JobsAreDeclared
<1>2. job[w].run \in Runs /\ job[w].path \in Paths /\ job[w].sha \in Contents
  BY <1>1 DEF Job
<1>3. \A r \in Runs : state'[r] = IF r = job[w].run THEN "finalized" ELSE state[r]
  BY DEF CommitFinalize, ShadowInv, RowsInv, TypeOK, RowTypeOK
<1>4. file' = file /\ source' = source /\ rows' = rows
  BY DEF CommitFinalize
<1>5. Content' = Content /\ Declared' = Declared
  BY <1>4 DEF Content, Declared, IsDual, OnArtifact
<1>6. CASE job[w].path \in Artifacts
  <2>1. Content[job[w].path] = job[w].sha
    BY <1>6 DEF Content, CommitFinalize, ShadowInv, LinkedFileIsThere
  <2>2. IsDual(job[w].run) /\ OnArtifact(job[w].run)
    BY <1>1, <1>2, <1>6 DEF ExactReplay, OnArtifact
  <2>3. <<job[w].path, job[w].sha>> \in Declared[job[w].run]
    BY <1>1, <1>2, <2>2 DEF Declared, ExactReplay
  <2>4. Sealed' = Sealed \cup {job[w].run}
    BY <1>2, <1>3, <1>4, <2>2 DEF Sealed, IsDual, OnArtifact
  <2>5. Register!Seal(job[w].run)
    BY <1>2, <1>5, <1>6, <2>1, <2>3, <2>4 DEF Register!Seal
  <2>6. QED
    BY <1>2, <2>5 DEF Register!Next
<1>7. CASE job[w].path \notin Artifacts
  <2>1. ~OnArtifact(job[w].run)
    BY <1>1, <1>7 DEF ExactReplay, OnArtifact
  <2>2. Sealed' = Sealed
    BY <1>3, <1>4, <2>1 DEF Sealed, IsDual, OnArtifact
  <2>3. QED
    BY <1>5, <2>2 DEF Register!registerVars
<1>8. QED
  BY <1>6, <1>7

LEMMA BackfillStutters ==
  ASSUME ShadowInv, NEW r \in Runs, NEW S \in (SUBSET Paths) \ {{}}, Backfill(r, S)
  PROVE  UNCHANGED Register!registerVars
<1>1. ~IsDual(r) /\ source'[r] = "file_authority_shadow"
  BY DEF Backfill, IsDual, IsShadow, ShadowInv, RowsInv, RunsMatchRows, TypeOK, RowTypeOK
<1>2. \A s \in Runs : s # r => /\ rows'[s] = rows[s]
                               /\ source'[s] = source[s]
                               /\ state'[s] = state[s]
  BY DEF Backfill, ShadowInv, RowsInv, TypeOK, RowTypeOK
<1>3. file' = file
  BY DEF Backfill, fileVars
<1>4. QED
  BY <1>1, <1>2, <1>3, RegisterStutter DEF IsDual

LEMMA EditStutters ==
  ASSUME ShadowInv, NEW p \in Edited, Edit(p), UNCHANGED rowVars
  PROVE  UNCHANGED Register!registerVars
<1>1. \A a \in Artifacts : file'[a] = file[a]
  BY DEF Edit, Artifacts, ShadowInv, RowsInv, TypeOK, FileTypeOK
<1>2. QED
  BY <1>1, RegisterStutter DEF rowVars, IsDual

LEMMA RegisterStep ==
  ASSUME ShadowInv, [Next]_vars
  PROVE  [Register!Next]_(Register!registerVars)
<1>1. CASE \E w \in Writers, j \in Job : Recover(w, j)
  BY <1>1, RegisterStutter DEF Recover, rowVars, IsDual
<1>2. CASE \E w \in Writers, j \in Job, b \in BOOLEAN : Prepare(w, j, b)
  BY <1>2, PrepareDeclares
<1>3. CASE \E w \in Writers : CreateStep(w) /\ UNCHANGED rowVars
  <2>1. CASE \E w \in Writers : LateCallsSucceed(w) /\ UNCHANGED rowVars
    BY <2>1, RegisterStutter DEF LateCallsSucceed, rowVars, IsDual
  <2>2. QED
    BY <1>3, <2>1, LinkWrites, LateFailureTakesBack DEF CreateStep
<1>4. CASE \E w \in Writers : BeginFinalize(w)
  BY <1>4, RegisterStutter DEF BeginFinalize, rowVars, IsDual
<1>5. CASE \E w \in Writers : CommitFinalize(w)
  BY <1>5, CommitSeals
<1>6. CASE \E w \in Writers : Stop(w) /\ UNCHANGED rowVars
  BY <1>6, RegisterStutter DEF Stop, rowVars, IsDual
<1>7. CASE \E r \in Runs, S \in (SUBSET Paths) \ {{}} : Backfill(r, S)
  BY <1>7, BackfillStutters
<1>8. CASE \E p \in Edited : Edit(p) /\ UNCHANGED rowVars
  BY <1>8, EditStutters
<1>9. CASE UNCHANGED vars
  BY <1>9, RegisterStutter DEF vars, fileVars, rowVars, IsDual
<1>10. QED
  BY <1>1, <1>2, <1>3, <1>4, <1>5, <1>6, <1>7, <1>8, <1>9 DEF Next, Continue

\* Dual writes, retries, backfills and interruptions only do to artifacts what
\* the register allows: declare, write once, seal what is there, and take back
\* what is not sealed.
THEOREM RegisterIsImplemented ==
  ASSUME OneWriterIfLate
  PROVE  Spec => ImplementsRegister
<1>1. Spec => []ShadowInv
  BY ShadowInvariant
<1>2. ShadowInv /\ [Next]_vars => [Register!Next]_(Register!registerVars)
  BY RegisterStep
<1>3. QED
  BY <1>1, <1>2, RegisterInit, PTL DEF Spec, ImplementsRegister, Register!Spec
=============================================================================
