SPECIFICATION Spec
CONSTANTS
  Classes = {put, declare}
  NoFrame = NoFrame
  Sizes = {1, 2}
  HeaderSize = 1
  KeepAliveSize = 1
  Capacity = 3
  FirstSn = 1
  SnModulus = 8
  IgnoreInvalidSn = FALSE
  Builds = {TRUE}
  Links = {{"lose"}, {"duplicate"}, {"lose", "duplicate", "reorder"}}
  MaxFrames = 3
  MaxRepeats = 1
  MaxMessages = 3
  MaxInFlight = 2
INVARIANTS ClassKept AtMostOnce LossRefusesNothing
PROPERTIES RefusedForGood
CHECK_DEADLOCK FALSE
