\* Two pages join a room at the same time.
SPECIFICATION Spec
CONSTANTS
  None = None
  alice = alice
  bob = bob
  carol = carol
  Page = {alice, bob, carol}
  RoomId = {r1}
  MaxConnections <- Once
  Routes = {"relay"}
  MaxStarts = 1
  MaxDrops = 0
INVARIANT OneOffers
CHECK_DEADLOCK FALSE
