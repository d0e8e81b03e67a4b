\* The sync job alone, while domains are created and switched on and off.
CONSTANTS
  d1 = d1
  d2 = d2
  d3 = d3
  t1 = t1
  t2 = t2
  t3 = t3
  t4 = t4
  a1 = a1
  a2 = a2
  None = None
  sync = sync
  ed1 = ed1
  Ids = {d1, d2, d3}
  Targets = {t1, t2, t3}
  Addresses = {a1, a2}
  FamilyOf <- MCFamilyOf
  Registered <- MCRegistered
  Passes = {sync}
  Manuals = {}
  Editors = {ed1}
  EditKinds = {"create", "toggle"}
  LinkStates = {TRUE}
  RetryOnFailure = TRUE
  RebuildPreempted = FALSE
  InitialConfig <- TwoMixed
  InitialWan <- DualWan
  MaxMoves = 2
  MaxFails = 2
  MaxEdits = 2
  MaxCrashes = 0

SPECIFICATION FairSpec
INVARIANT TypeOK
INVARIANT SyncedRecordIsPushed
INVARIANT SyncedIsCurrent
INVARIANT EventsTellTruth
PROPERTY IpEventsChain
PROPERTY SuccessIsCurrent
PROPERTY Converges
