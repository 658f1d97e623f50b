\* One receiver with OPFS whose disk may be slow and may refuse a write.  The user may pause once, and
\* either page may be left once, at any time.
SPECIFICATION FairSpec
CONSTANTS
  f1 = f1
  f2 = f2
  None = None
  File = {f1}
  Receiver = {r1}
  OpfsReceiver = {r1}
  Size <- Sizes
  Queues <- OneFile
  BufferHigh = 2
  TimelyAccept = TRUE
  HighLag = 1
  LowLag = 1
  MaxPauses = 1
  MaxBroadcasts = 1
  MaxFaults = 1
  MaxSenderReloads = 1
  MaxReceiverReloads = 1
  DrainedReload = FALSE
INVARIANTS
  BackpressureAgreed
  
PROPERTIES
  SendEnds
  EveryoneServed
CHECK_DEADLOCK FALSE
