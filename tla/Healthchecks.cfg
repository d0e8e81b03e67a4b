\* Two projects, one request of each kind at a time, a link that comes and goes.
CONSTANTS
  p1 = p1
  p2 = p2
  k1 = k1
  u1 = u1
  u2 = u2
  a1 = a1
  fetch = fetch
  update = update
  create = create
  Ids = {p1, p2}
  Keys = {k1}
  Urls = {u1, u2}
  ApiKeys = {a1}
  Valid <- MCValid
  Fetchers = {fetch}
  Updaters = {update}
  Creators = {create}
  InitialIds = {p1}
  FirstEndpoint <- MCFirst
  FieldSets <- MCFieldSets
  None = None
  Failed = Failed
  MaxRequests = 2
  MaxLists = 1

\* Once every project is deleted nothing is left to do.
CHECK_DEADLOCK FALSE
SPECIFICATION FairSpec
INVARIANT TypeOK
INVARIANT RuntimeTellsProject
PROPERTY OnlyChoiceHides
PROPERTY DeletedStaysForgotten
PROPERTY DownIsPaused
PROPERTY UpIsPolled
