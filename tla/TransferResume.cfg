\* One receiver with OPFS, whose page may be left once, its worker drained, and
\* come back; the file is sent twice and FILE_ACCEPT is timely.
SPECIFICATION Spec
CONSTANTS
  f1 = f1
  f2 = f2
  None = None
  File = {f1}
  Receiver = {r1}
  OpfsReceiver = {r1}
  Size <- Sizes
  Queues <- OneFile
  BufferHigh = 1
  TimelyAccept = TRUE
  HighLag = 1
  LowLag = 1
  MaxPauses = 1
  MaxBroadcasts = 2
  MaxFaults = 0
  MaxSenderReloads = 0
  MaxReceiverReloads = 1
  DrainedReload = TRUE
INVARIANTS
  DeliveredIntact
  Aligned
  DiskIsPrefix
  
CHECK_DEADLOCK FALSE
