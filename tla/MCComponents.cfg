SPECIFICATION PartsSpec
CONSTANTS
  v1 = v1
  a1 = a1
  a2 = a2
  Accounts = {a1, a2}
  Scopes = {s1}
  Verifiers = {v1}
  MaxAuthorities = 2
  MaxPolicies = 1
  MaxVersions = 3
  Depth = 4
  StatusDepth = 3
  MaxAmount = 3
  Rates <- MCRates
  IssueConfigs <- MCIssueConfigs
  ProcessInputs <- MCProcessInputs
  c1 = c1
  c2 = c2
  Order = 7
  Committees = {c1, c2}
  SessionIds = {"s1", "s2"}
  Elements = {m1}
  Contexts = {l1, l2}
  MaxReleases = 2
SYMMETRY CommitteeSymmetry
INVARIANTS
  VersionsContiguous
  RootsAreOfCompleteTrees
  PathsOpenAcceptedRoots
  SparseTreeIsComplete
  OnlyNativeOutputs
  NativeOutputsProvable
  RecoveryExact
  RecordsReadable
PROPERTY
  DisabledForever
CHECK_DEADLOCK FALSE
