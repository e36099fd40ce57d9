SPECIFICATION FairSpec
CONSTANTS
  Writers = {w1, w2}
  Reliable = {w1}
  Runs = {r1, r2}
  Paths = {p}
  Contents = {a, b}
  Edited = {}
  LateFailures = TRUE
  Absent = Absent
  NoJob = NoJob
  Nobody = Nobody
INVARIANT ArtifactHasEvidence
PROPERTY PreparedIsSettled
CHECK_DEADLOCK FALSE
