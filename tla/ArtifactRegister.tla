-------------------------- MODULE ArtifactRegister --------------------------
(***************************************************************************)
(* What recording artifacts promises, without modes, processes or locks.   *)
(* A run declares one artifact before it exists; only declared content is  *)
(* written, and never over other content; a run is sealed while its        *)
(* artifact is there; and a sealed run's artifact is not taken back.       *)
(***************************************************************************)
CONSTANTS Runs, Artifacts, Contents, Absent

VARIABLES
  content,      \* of each artifact
  declared,     \* what each run declared: at most one <<artifact, content>>
  sealed        \* runs whose artifact is final

registerVars == <<content, declared, sealed>>

Init ==
  /\ content = [p \in Artifacts |-> Absent]
  /\ declared = [r \in Runs |-> {}]
  /\ sealed = {}

Declare(r, p, c) ==
  /\ declared[r] = {}
  /\ content[p] = Absent
  /\ declared' = [declared EXCEPT ![r] = {<<p, c>>}]
  /\ UNCHANGED <<content, sealed>>

Write(r, p, c) ==
  /\ <<p, c>> \in declared[r]
  /\ content[p] = Absent
  /\ content' = [content EXCEPT ![p] = c]
  /\ UNCHANGED <<declared, sealed>>

Seal(r) ==
  /\ \E p \in Artifacts, c \in Contents :
       <<p, c>> \in declared[r] /\ content[p] = c
  /\ sealed' = sealed \cup {r}
  /\ UNCHANGED <<content, declared>>

TakeBack(p) ==
  /\ \A r \in sealed, c \in Contents : <<p, c>> \notin declared[r]
  /\ content' = [content EXCEPT ![p] = Absent]
  /\ UNCHANGED <<declared, sealed>>

Next ==
  \/ \E r \in Runs, p \in Artifacts, c \in Contents :
       Declare(r, p, c) \/ Write(r, p, c)
  \/ \E r \in Runs : Seal(r)
  \/ \E p \in Artifacts : TakeBack(p)

Spec == Init /\ [][Next]_registerVars
=============================================================================
