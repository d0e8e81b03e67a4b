\* Two overlapping checks, saves that fail and a damaged file.
CONSTANTS
  r1 = r1
  r2 = r2
  job = job
  refresh = refresh
  Resolvers = {r1, r2}
  Quorum = 1
  HealthyQuorum = 2
  Retention = 2
  DayLength = 2
  Days = 1
  None = None
  Missing = Missing
  Corrupt = Corrupt
  Checks = {job, refresh}
  MaxNow = 2
  MaxChecks = 3
  MaxStops = 1
  MaxFaults = 2

SPECIFICATION Spec
INVARIANT Chronological
