SPECIFICATION Spec
CONSTANTS
  Requests = {d1, d2}
  Callers = {c1}
  Reconcilers = {r1}
  Reliable = {}
  NoRequest = NoRequest
  ObjectResponses = FALSE
  Slots <- OneSlot
  SlotOf <- AllInOneSlot
INVARIANT
  ReleaseOnlyUnspawned
