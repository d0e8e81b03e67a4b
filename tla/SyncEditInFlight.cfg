\* A domain is re-targeted while its update is in flight.
CONSTANTS
  d1 = d1
  d2 = d2
  d3 = d3
  t1 = t1
  t2 = t2
  t3 = t3
  t4 = t4
  a1 = a1
  a2 = a2
  None = None
  sync = sync
  ed1 = ed1
  Ids = {d1}
  Targets = {t1, t2}
  Addresses = {a1, a2}
  FamilyOf <- MCFamilyOf
  Registered <- MCRegistered
  Passes = {sync}
  Manuals = {}
  Editors = {ed1}
  EditKinds = {"update"}
  LinkStates = {TRUE}
  RetryOnFailure = TRUE
  RebuildPreempted = FALSE
  InitialConfig <- OneV4
  InitialWan <- V4Wan
  MaxMoves = 0
  MaxFails = 0
  MaxEdits = 1
  MaxCrashes = 0

SPECIFICATION Spec
INVARIANT SyncedRecordIsPushed
