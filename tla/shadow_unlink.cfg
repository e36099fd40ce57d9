SPECIFICATION Spec
CONSTANTS
  Writers = {w1, w2}
  Reliable = {}
  Runs = {r1}
  Paths = {p}
  Contents = {a}
  Edited = {}
  LateFailures = TRUE
  Absent = Absent
  NoJob = NoJob
  Nobody = Nobody
INVARIANT FinalizedKeepsArtifact
CHECK_DEADLOCK FALSE
