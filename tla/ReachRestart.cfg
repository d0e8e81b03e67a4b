\* One check at a time, crashes and shutdowns, and incidents that expire.
CONSTANTS
  r1 = r1
  r2 = r2
  job = job
  refresh = refresh
  Resolvers = {r1, r2}
  Quorum = 1
  HealthyQuorum = 2
  Retention = 1
  DayLength = 2
  Days = 1
  None = None
  Missing = Missing
  Corrupt = Corrupt
  Checks = {job}
  MaxNow = 4
  MaxChecks = 4
  MaxStops = 2
  MaxFaults = 0

SPECIFICATION Spec
INVARIANT TypeOK
INVARIANT DurableUpToWidening
INVARIANT CleanIsSaved
INVARIANT Chronological
INVARIANT HistoryIsChecks
INVARIANT ViewsAgree
INVARIANT FiguresAreCounted
PROPERTY RevTellsChange
PROPERTY EventIsTransition
PROPERTY ImplementsLedger
