\* Two pages, one of which comes back, a lost connection and an expired key in Redis.
SPECIFICATION Spec
CONSTANTS
  None = None
  alice = alice
  bob = bob
  carol = carol
  Page = {alice, bob}
  RoomId = {r1}
  MaxConnections <- BobTwice
  Routes = {"relay"}
  MaxStarts = 1
  MaxDrops = 1
INVARIANTS
  TypeOK
  PeersAgree
PROPERTIES
  PeersLink
CHECK_DEADLOCK FALSE
