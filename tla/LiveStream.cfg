\* A stream with two acts of its users; a viewer may come back once.
SPECIFICATION SafeSpec
CONSTANTS
  None = None
  host = host
  viewer = viewer
  Page = {host, viewer}
  Host = {host}
  RoomId = {r1}
  Private = {}
  MaxConnections <- Once
  MaxStarts <- ViewerTwice
  MaxActs = 2
  MaxDrops = 0
INVARIANTS
  TypeOK
  
  
  
CHECK_DEADLOCK FALSE
