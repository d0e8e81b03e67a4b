\* Two sockets, a change of the state, a loss of the network, a restart.
CONSTANTS
  s1 = s1
  s2 = s2
  s3 = s3
  Socks = {s1, s2}
  None = None
  MaxVersion = 1
  MaxQueue = 2
  MaxCuts = 1
  MaxTasks = 2
  MaxRestarts = 1
  MaxStarts = 1
  MaxWakes = 1

\* Once the view is left and the daemon has noticed nothing need happen.
CHECK_DEADLOCK FALSE
SPECIFICATION FairSpec
INVARIANT TypeOK
INVARIANT NeverGivesUp
INVARIANT OpenIsWatched
INVARIANT RegisteredOnce
PROPERTY ShowsCurrent
