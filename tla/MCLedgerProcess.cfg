SPECIFICATION Spec
CONSTANTS
  u1 = u1
  d1 = d1
  o1 = o1
  o2 = o2
  o3 = o3
  i1 = i1
  a1 = a1
  n1 = n1
  Accounts = {a1}
  Scopes <- MCScopes
  Verifiers <- MCVerifiers
  MaxAuthorities = 1
  MaxPolicies = 1
  MaxVersions = 1
  Users = {u1}
  Documents = {d1}
  Openings = {o1, o2, o3}
  Nonces = {n1}
  MaxAmount = 3
  Deadlines = {1}
  DeltaTransports = {0}
  Rates <- MCRates
  IssueConfigs <- MCIssueConfigs
  Issuers = {i1}
  TreeCapacity = 7
  EntryStates <- MCEntryStates
  ForeknownNotes = {}
  MaxWatched = 0
  MaxRecords = 5
  MaxBlock = 0
CONSTRAINT IssuerStays
SYMMETRY OpeningSymmetry
INVARIANTS
  WasteOnlyExits
  MassConserved
CHECK_DEADLOCK FALSE
