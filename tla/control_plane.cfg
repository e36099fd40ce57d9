SPECIFICATION ControlSpec
CONSTANTS
  x1 = x1
  x2 = x2
  y1 = y1
  y2 = y2
  z1 = z1
  z2 = z2
  f = f
  g = g
  r1 = r1
  p1 = p1
  p2 = p2
  p3 = p3
  Writers = {z1, z2}
  Runs = {r1, x1, x2}
  Paths = {p, q}
  Contents = {y1, y2}
  Edited = {q}
  LateFailures = FALSE
  Absent = Absent
  NoJob = NoJob
  Nobody = Nobody
  Workflows = {f, g}
  Controlled = {g}
  WorkflowOf <- RunWorkflows
  NoWorkflow = NoWorkflow
  Rollbacks = {p1}
  RollbackIds = {x1, x2}
  MaxDatabases = 3
  Nothing = Nothing
  Targets = {y1, f}
  Approved = f
  MaxLifetime = 2
  MaxSkew = 1
  LastTick = 4
  NoAttestation = NoAttestation
  Identities = {z1, z2}
  Owners = {o1, o2}
  LeaseIds = {x1, x2}
  SessionKeys = {y1, y2}
  Missing = Missing
  AuditedWorkflows = {f}
  Home = f
  Queries = {x1, x2}
  AuditIds = {1, 2, 3}
  Approvals = {z1, z2}
  GoalRuns = {y1, y2}
  LastTime = 1
  NoRow = NoRow
  Processes = {p1, p2, p3}
  Knows <- KnownVersions
  Importers = {x1, x2}
  Batches = {y1, y2}
  LegacyRows <- Rows
  MaxRows = 2
  MaxMicrousd = 155
  MaxAdjusted = 2
  NoImport = NoImport
  Unsettled = Unsettled
  Interval = 1
  Duration = 2
  LastReading = 3
  NoReceipt = NoReceipt
  ProbeLeases = {x1, x2, p1}
  ProbeSessions = {y1, y2}
  NoAnswer = NoAnswer
  SourceFiles = {z1, z2}
  MaxVersion = 2
  IntentKeys = {z1, z2}
  IntentOwners = {x1, x2}
  FoundLeases = {y1, y2}
  FoundSessions = {y1, y2}
  Unknown = Unknown
SYMMETRY Symmetry
VIEW ActivePart
INVARIANTS
  ControlTypeOK RolledBackIsClosed DatabaseIsRecoverable ReportIsTrue
  AbandonedGuardIsRecoverable UseIsBounded CallsUseOwnLease SessionsAreDistinct
  TrustIsCurrent ApprovalIsUsedOnce ImportIsExact MigrationsRunOnce CompleteIsEarned
  LiveReportIsTrue CatalogIsBound IdentitiesAreStable
PROPERTIES ControlledRunIsProven CanaryImplementsRegister
CHECK_DEADLOCK FALSE
