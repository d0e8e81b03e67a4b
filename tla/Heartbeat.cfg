\* Two URLs, a settings request and a manual ping at a time, one crash.
CONSTANTS
  v1 = v1
  v2 = v2
  put = put
  ping = ping
  job = job
  Urls = {v1, v2}
  Intervals = {30, 300}
  Setters = {put}
  Pingers = {ping}
  Job = job
  None = None
  MaxRequests = 3
  MaxCrashes = 1

SPECIFICATION FairSpec
INVARIANT TypeOK
INVARIANT QuietIsDurable
INVARIANT StatusIsOfUrl
PROPERTY StatusSettles
