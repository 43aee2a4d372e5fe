CONSTANTS
  m1 = m1
  m2 = m2
  s = s
  t = t
  i1 = i1
  i2 = i2
  i3 = i3
  v1 = v1
  v2 = v2
  Minion <- MCMinion
  Request <- MCRequest
  Pillars <- MCPillars
  Name <- MCName
  ServerId <- MCServerId
  VolumeId <- MCVolumeId
  Initial <- MCInitial
  MaxServers = 3
  NoServer = NoServer
  NoVolume = NoVolume
  NoIp = NoIp
SPECIFICATION FairSpec
INVARIANTS
  TypeOK
  ReportIsTrue
  OneInstancePerMinion
PROPERTIES
  InstanceInTheEnd
  WaitsEnd
