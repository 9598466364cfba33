SPECIFICATION Spec
CONSTANTS
  g1 = g1 g2 = g2 q1 = q1 q2 = q2 r1 = r1 r2 = r2
  Driver = driver NoTask = no_task
  Gets = {g1, g2} Queryables = {q1} Late = {q1} Remotes = {r1}
  Id <- SharedIds FirstId = 0 ChannelCapacity = 3 Capacity = 1
  TooLarge <- OtherTooLarge
  Timeouts = TRUE SendsFail = TRUE
INVARIANTS TypeOK EndsOnlyAfterCapacity
CHECK_DEADLOCK FALSE
