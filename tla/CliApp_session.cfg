CONSTANTS
  h1 = h1
  h2 = h2
  s1 = s1
  t1 = t1
  t2 = t2
  None = None
  Hosts = {h1, h2}
  ProgIDs = {s1}
  Tags = {t1, t2}
  FirstHost = h1
  MaxTags = 2
  PageSize = 2
  ServerLists <- MCServerLists
  TagLists <- MCTagLists
SPECIFICATION AppSpec
INVARIANTS LoadingIsAwaited
PROPERTIES ReadBringsItsContext LoadingEnds
CHECK_DEADLOCK FALSE
