SPECIFICATION Spec
CONSTANTS
  u1 = u1
  d1 = d1
  o1 = o1
  o2 = o2
  i1 = i1
  a1 = a1
  n1 = n1
  Accounts = {a1}
  Scopes = {}
  Verifiers <- MCVerifiers
  MaxAuthorities = 1
  MaxPolicies = 2
  MaxVersions = 2
  Users = {u1}
  Documents = {d1}
  Openings = {o1, o2}
  Nonces = {n1}
  MaxAmount = 2
  Deadlines = {}
  DeltaTransports = {0}
  Rates <- MCRates
  IssueConfigs <- MCIssueConfigs
  Issuers = {i1}
  TreeCapacity = 4
  EntryStates <- MCEntryStates
  ForeknownNotes = {}
  MaxWatched = 0
  MaxRecords = 5
  MaxBlock = 0
CONSTRAINTS
  IssuerStays
  IssueOnly
SYMMETRY OpeningSymmetry
INVARIANTS
  ClaimsAreBacked
CHECK_DEADLOCK FALSE
