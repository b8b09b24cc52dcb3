SPECIFICATION Spec
CONSTANTS
  u1 = u1
  u2 = u2
  d1 = d1
  a1 = a1
  e1 = e1
  e2 = e2
  o1 = o1
  o2 = o2
  o3 = o3
  g1 = g1
  p1 = p1
  p2 = p2
  adm = adm
  s1 = s1
  s2 = s2
  item = item
  Accounts = {a1}
  Users = {u1, u2}
  Documents = {d1}
  Openings = {e1, e2}
  DeltaEpochs = {0, 1}
  MaxQuantity = 1
  Denominator = 2
  MaxArity = 2
  TreeCapacity = 5
  EntryNotes <- MCEntryNotes
  MaxTransactions = 4
  MaxEpoch = 1
  LotOpenings <- OpeningNames
  ProcessInputs = 2
  Scopes = {u1}
  StatusEntryNotes <- MCStatusEntryNotes
  MaxLeaves = 5
  MaxStatusTransactions = 3
  MaxUpdates = 2
  Grades = {g1}
  Accepted <- MCAccepted
  ClaimEntryNotes <- MCClaimEntryNotes
  Watched <- MCWatched
  MaxRecords = 4
  MaxStatusChanges = 2
  Administrator = adm
  SahaiDocuments <- MCSahaiDocuments
CONSTRAINTS
  UsersFirst
  MoreToCome
SYMMETRY Symmetry
INVARIANTS
  SaltsMakeDocumentsDistinct
CHECK_DEADLOCK FALSE
