\* A crash, one edit before or after it, rebuilds the loop preempts, and a link
\* that comes and goes.
CONSTANTS
  d1 = d1
  d2 = d2
  d3 = d3
  t1 = t1
  t2 = t2
  t3 = t3
  t4 = t4
  a1 = a1
  a2 = a2
  None = None
  sync = sync
  ed1 = ed1
  Ids = {d1, d2}
  Targets = {t1, t2, t4}
  Addresses = {a1, a2}
  FamilyOf <- MCFamilyOf
  Registered <- MCRegistered
  Passes = {sync}
  Manuals = {}
  Editors = {ed1}
  EditKinds = {"create", "update", "toggle", "delete"}
  LinkStates = {TRUE, FALSE}
  RetryOnFailure = TRUE
  RebuildPreempted = TRUE
  InitialConfig <- OneV4
  InitialWan <- V4Wan
  MaxMoves = 1
  MaxFails = 1
  MaxEdits = 1
  MaxCrashes = 1

SPECIFICATION Spec
INVARIANT SyncedWasAcked
