\* A page whose view wakes up while its first socket is still connecting.
CONSTANTS
  s1 = s1
  s2 = s2
  s3 = s3
  Socks = {s1, s2}
  None = None
  MaxVersion = 1
  MaxQueue = 2
  MaxCuts = 0
  MaxTasks = 2
  MaxRestarts = 0
  MaxStarts = 1
  MaxWakes = 1

CHECK_DEADLOCK FALSE
SPECIFICATION Spec
PROPERTY OldSocketSchedulesNothing
