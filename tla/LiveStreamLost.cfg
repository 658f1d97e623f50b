\* A stream behind a password, and a connection that is lost.
SPECIFICATION Spec
CONSTANTS
  None = None
  host = host
  viewer = viewer
  Page = {host, viewer}
  Host = {host}
  RoomId = {r2}
  Private = {r2}
  MaxConnections <- Twice
  MaxStarts <- ViewerTwice
  MaxActs = 0
  MaxDrops = 1
INVARIANTS
  
  
  AudienceTold
PROPERTIES
  ViewerConnects
CHECK_DEADLOCK FALSE
