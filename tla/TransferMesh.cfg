\* A page with OPFS and one without receive a file; FILE_ACCEPT may be late, and
\* the sending page and a receiving page may be left once, at any time.
SPECIFICATION Spec
CONSTANTS
  f1 = f1
  f2 = f2
  None = None
  File = {f1}
  Receiver = {r1, r2}
  OpfsReceiver = {r1}
  Size <- Sizes
  Queues <- OneFile
  BufferHigh = 1
  TimelyAccept = FALSE
  HighLag = 1
  LowLag = 1
  MaxPauses = 1
  MaxBroadcasts = 1
  MaxFaults = 0
  MaxSenderReloads = 1
  MaxReceiverReloads = 1
  DrainedReload = FALSE
INVARIANTS
  TypeOK
  DepartedPeersCleaned
  NoLostWakeup
CHECK_DEADLOCK FALSE
