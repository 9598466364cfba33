SPECIFICATION FairSpec
CONSTANTS
  Classes = {put, declare}
  NoFrame = NoFrame
  Sizes = {1, 2}
  HeaderSize = 1
  KeepAliveSize = 1
  Capacity = 4
  FirstSn = 1
  SnModulus = 3
  IgnoreInvalidSn = FALSE
  Builds = {TRUE, FALSE}
  Links = {{}}
  MaxFrames = 3
  MaxRepeats = 2
  MaxMessages = 3
  MaxInFlight = 1
INVARIANTS TypeOK NothingLost
PROPERTIES ImplementsFifo EveryMessageArrives
CHECK_DEADLOCK FALSE
