SPECIFICATION Spec
CONSTANTS
  u1 = u1
  u2 = u2
  d1 = d1
  o1 = o1
  o2 = o2
  i1 = i1
  Accounts = {}
  Scopes = {}
  Verifiers = {}
  MaxAuthorities = 0
  MaxPolicies = 0
  MaxVersions = 0
  Users = {u1, u2}
  Documents = {d1}
  Openings = {o1, o2}
  Nonces = {}
  MaxAmount = 2
  Deadlines = {1}
  DeltaTransports = {0}
  Rates <- MCRates
  IssueConfigs <- MCIssueConfigs
  Issuers = {i1}
  TreeCapacity = 4
  EntryStates <- MCEntryStates
  ForeknownNotes <- MCForeknown
  MaxWatched = 1
  MaxRecords = 4
  MaxBlock = 2
SYMMETRY MCSymmetry
INVARIANTS
  TreesHoldCommitments
  BlockedIsUnspent
  LineageSound
  FutureNfsOpenOutputs
  NoStrandedVoucher
PROPERTIES
  ImplementsAssetFlow
CHECK_DEADLOCK FALSE
