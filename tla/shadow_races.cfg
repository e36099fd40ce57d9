SPECIFICATION Spec
CONSTANTS
  Writers = {w1, w2}
  Reliable = {}
  Runs = {r1, r2, r3}
  Paths = {p, q}
  Contents = {a, b}
  Edited = {q}
  LateFailures = FALSE
  Absent = Absent
  NoJob = NoJob
  Nobody = Nobody
SYMMETRY Symmetry
INVARIANT ShadowInv
PROPERTY ImplementsRegister
