SPECIFICATION Spec
CONSTANTS
  a = a
  b = b
  Nodes = {a, b}
  Lease <- EqualLeases
  MaxDelay = 1
  MaxBusy = 1
  MaxInFlight = 1
  MaxQuiet = 16
  MaxKept = 3
SYMMETRY Ends
INVARIANTS TypeOK NoFalseClose QuietAtMostHalf SilenceDetected
CHECK_DEADLOCK FALSE
