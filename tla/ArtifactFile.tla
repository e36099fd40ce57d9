---------------------------- MODULE ArtifactFile ----------------------------
(***************************************************************************)
(* _atomic_create_file, as the processes that write one artifact per run   *)
(* go through it: write and fsync a temporary file, link it to the target  *)
(* unless the target exists, fsync the directory, remove the temporary     *)
(* file.  A failure after the link takes the target back.                  *)
(***************************************************************************)
EXTENDS Naturals

CONSTANTS
  Writers,        \* processes
  Runs,           \* run ids
  Paths,          \* artifact paths
  Contents,       \* artifact contents; a digest stands for its content
  Edited,         \* paths whose files other programs edit
  LateFailures,   \* TRUE: a system call may fail after the link
  Absent,         \* a path without file
  NoJob,          \* a process that writes nothing
  Nobody          \* the database is not locked

Job == [run : Runs, path : Paths, sha : Contents]

ASSUME ArtifactAssumption ==
  /\ Edited \subseteq Paths
  /\ LateFailures \in BOOLEAN
  /\ Absent \notin Contents
  /\ NoJob \notin Job
  /\ Nobody \notin Writers

VARIABLES
  file,     \* content of each path
  at,       \* where each process is
  job,      \* the projection it writes
  lock      \* the process inside a BEGIN IMMEDIATE transaction

fileVars == <<file, at, job, lock>>

\* "create" precedes the link, "linked" the calls after it; "created" is the
\* return of _atomic_create_file and "checked" precedes the final COMMIT.
At == {"idle", "create", "linked", "created", "checked"}

FileTypeOK ==
  /\ file \in [Paths -> Contents \cup {Absent}]
  /\ at \in [Writers -> At]
  /\ job \in [Writers -> Job \cup {NoJob}]
  /\ lock \in Writers \cup {Nobody}

FileInit ==
  /\ file = [p \in Paths |-> Absent]
  /\ at = [w \in Writers |-> "idle"]
  /\ job = [w \in Writers |-> NoJob]
  /\ lock = Nobody

Goto(w, a) == at' = [at EXCEPT ![w] = a]

\* The call returns or raises: its transaction, if any, is over.
Leave(w) ==
  /\ Goto(w, "idle")
  /\ job'  = [job EXCEPT ![w] = NoJob]
  /\ lock' = IF lock = w THEN Nobody ELSE lock

-----------------------------------------------------------------------------
\* Mutant: the target is replaced.
Overwrite(w) ==
  /\ at[w] = "create"
  /\ file' = [file EXCEPT ![job[w].path] = job[w].sha]
  /\ Goto(w, "linked")
  /\ UNCHANGED <<job, lock>>

Link(w) ==
  /\ at[w] = "create"
  /\ file[job[w].path] = Absent
  /\ file' = [file EXCEPT ![job[w].path] = job[w].sha]
  /\ Goto(w, "linked")
  /\ UNCHANGED <<job, lock>>

LateCallsSucceed(w) ==
  /\ at[w] = "linked"
  /\ Goto(w, "created")
  /\ UNCHANGED <<file, job, lock>>

LateCallFails(w) ==
  /\ LateFailures
  /\ at[w] = "linked"
  /\ file' = [file EXCEPT ![job[w].path] = Absent]
  /\ Leave(w)

\* The process dies, or raises without touching the target: the temporary
\* file cannot be written, the target exists, or a transaction is rolled back.
Stop(w) ==
  /\ at[w] # "idle"
  /\ Leave(w)
  /\ UNCHANGED file

\* Some other program changes a file of its own.
Edit(p) ==
  /\ file' \in {[file EXCEPT ![p] = x] : x \in Contents \cup {Absent}}
  /\ UNCHANGED <<at, job, lock>>
=============================================================================
