SPECIFICATION FairSpec
CONSTANTS
  a = a
  b = b
  Nodes = {a, b}
  Lease <- ShortLeases
  MaxDelay = 0
  MaxBusy = 5
  MaxInFlight = 1
  MaxQuiet = 5
  MaxKept = 0
PROPERTIES TxLeaseCloses
CHECK_DEADLOCK FALSE
