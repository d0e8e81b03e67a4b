\* A domain is restored as updating, or as synced at an old address.
CONSTANTS
  d1 = d1
  d2 = d2
  d3 = d3
  t1 = t1
  t2 = t2
  t3 = t3
  t4 = t4
  a1 = a1
  a2 = a2
  None = None
  sync = sync
  Ids = {d1}
  Targets = {t1}
  Addresses = {a1, a2}
  FamilyOf <- MCFamilyOf
  Registered <- MCRegistered
  Passes = {sync}
  Manuals = {}
  Editors = {}
  EditKinds = {}
  LinkStates = {TRUE}
  RetryOnFailure = TRUE
  RebuildPreempted = FALSE
  InitialConfig <- OneV4
  InitialWan <- V4Wan
  MaxMoves = 1
  MaxFails = 0
  MaxEdits = 0
  MaxCrashes = 1

SPECIFICATION FairSpec
PROPERTY RestartReconciles
