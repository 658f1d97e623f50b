\* Two files in one selection, the disk being slow at the end of the first.
SPECIFICATION FairSpec
CONSTANTS
  f1 = f1
  f2 = f2
  None = None
  File = {f1, f2}
  Receiver = {r1}
  OpfsReceiver = {r1}
  Size <- Sizes
  Queues <- TwoFiles
  BufferHigh = 2
  TimelyAccept = TRUE
  HighLag = 1
  LowLag = 1
  MaxPauses = 0
  MaxBroadcasts = 1
  MaxFaults = 0
  MaxSenderReloads = 0
  MaxReceiverReloads = 0
  DrainedReload = TRUE
PROPERTIES
  SendEnds
CHECK_DEADLOCK FALSE
