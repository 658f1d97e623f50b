\* Two pages: one call after another, a lost connection, and nobody mutes.
SPECIFICATION FairSpec
CONSTANTS
  None = None
  p1 = p1
  p2 = p2
  p3 = p3
  Page = {p1, p2}
  RoomId = {r1, r2}
  MaxConnections <- Connections
  OneAtATime = TRUE
  MaxStarts = 3
  MaxToggles = 0
  MaxDrops = 1
PROPERTIES
  KeepsPromise
  CallConnects
  RequestAnswered
CHECK_DEADLOCK FALSE
