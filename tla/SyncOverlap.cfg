\* The job, /refresh and a manual sync interleaved, one provider not registered.
CONSTANTS
  d1 = d1
  d2 = d2
  d3 = d3
  t1 = t1
  t2 = t2
  t3 = t3
  t4 = t4
  a1 = a1
  a2 = a2
  None = None
  sync = sync
  m1 = m1
  refresh = refresh
  Ids = {d1, d2}
  Targets = {t1, t4}
  Addresses = {a1, a2}
  FamilyOf <- MCFamilyOf
  Registered <- MCRegistered
  Passes = {sync, refresh}
  Manuals = {m1}
  Editors = {}
  EditKinds = {}
  LinkStates = {TRUE}
  RetryOnFailure = TRUE
  RebuildPreempted = FALSE
  InitialConfig <- WithUnknown
  InitialWan <- V4Wan
  MaxMoves = 1
  MaxFails = 1
  MaxEdits = 0
  MaxCrashes = 0

SPECIFICATION Spec
INVARIANT SyncedRecordIsPushed
INVARIANT UpdatingHasTask
SYMMETRY PassSymmetry
