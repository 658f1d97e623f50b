\* Two pages, two names, a room with a password: drops and restarts.
SPECIFICATION Spec
CONSTANTS
  None = None
  alice = alice
  bob = bob
  Page = {alice, bob}
  Name = {n1, n2}
  RoomId = {r1}
  Private = {r1}
  MaxConnections <- Twice
  MaxStarts = 1
  MaxActs = 1
  MaxDrops = 1
  MaxRestarts = 1
INVARIANTS
  TypeOK
  NamesUnique
  
  
  RoomsKept
  
SYMMETRY Symmetry
CHECK_DEADLOCK FALSE
