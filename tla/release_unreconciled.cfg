SPECIFICATION FairSpec
CONSTANTS
  Requests = {d1}
  Callers = {c1}
  Reconcilers = {r1}
  Reliable = {r1}
  NoRequest = NoRequest
  ObjectResponses = TRUE
  Slots <- OneSlot
  SlotOf <- AllInOneSlot
PROPERTY
  ReleasesAreReconciled
