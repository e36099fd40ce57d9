SPECIFICATION Spec
CONSTANTS
  Requests = {d1, d2}
  Callers = {c1}
  Reconcilers = {r1, r2}
  Reliable = {}
  NoRequest = NoRequest
  ObjectResponses = TRUE
  Slots <- OneSlot
  SlotOf <- AllInOneSlot
SYMMETRY Symmetry
INVARIANTS
  ReleaseOnlyUnspawned
  AcceptedSpawnHasProof
  AnswerHasSession
PROPERTY
  VerdictIsFinal
