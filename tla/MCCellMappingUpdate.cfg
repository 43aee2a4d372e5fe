CONSTANTS
  m1 = m1
  m2 = m2
  c1 = c1
  c10 = c10
  u1 = u1
  u2 = u2
  a = a
  b = b
  Minion <- MCMinion
  Request <- MCRequest
  Pillars <- MCOnePillar
  Id <- MCId
  Name <- MCName
  Url <- MCUrl
  Conf = u2
  Within <- MCWithin
  Rank <- MCRank
  Initial <- MCInitial
  NoCell = NoCell
  NoId = NoId
SPECIFICATION CellFairSpec
PROPERTIES
  UpdatedInTheEnd
