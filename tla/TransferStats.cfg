\* A queue of two files, paused once; either page may leave at any time.
SPECIFICATION Spec
CONSTANTS
  None = None
  Size <- TwoFiles
  HighLag = 1
  LowLag = 1
  MaxPauses = 1
  MaxReports = 2
  MaxCounting = 1
INVARIANTS
  TypeOK
  PauseLifted
  
CHECK_DEADLOCK FALSE
