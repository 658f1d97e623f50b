\* Three pages and two room identifiers.
SPECIFICATION Spec
CONSTANTS
  None = None
  p1 = p1
  p2 = p2
  p3 = p3
  Page = {p1, p2, p3}
  RoomId = {r1, r2}
  MaxConnections <- Connections
  OneAtATime = TRUE
  MaxStarts = 3
  MaxToggles = 1
  MaxDrops = 1
INVARIANTS
  TypeOK
  RegistryAgrees
  NoGhostRoom
  EndsForBoth
  TrackStateAgreed
  CameraReleased
CHECK_DEADLOCK FALSE
