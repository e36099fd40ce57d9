SPECIFICATION Spec
CONSTANTS
  Requests = {d1, d2, d3}
  Callers = {c1, c2}
  Reconcilers = {r1}
  Reliable = {}
  NoRequest = NoRequest
  ObjectResponses = FALSE
  Slots <- OneSlot
  SlotOf <- AllInOneSlot
SYMMETRY Symmetry
INVARIANTS
  OneSpawnPerSlot
  DispatchInv
PROPERTIES
  SlotHandover
  ImplementsArbiter
