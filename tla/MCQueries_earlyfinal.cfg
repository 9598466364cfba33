SPECIFICATION Spec
CONSTANTS
  g1 = g1 g2 = g2 q1 = q1 q2 = q2 r1 = r1 r2 = r2
  Driver = driver NoTask = no_task
  Gets = {g1} Queryables = {q1} Late = {} Remotes = {r1}
  Id <- DistinctIds FirstId = 1 ChannelCapacity = 3 Capacity = 4
  TooLarge = {}
  Timeouts = FALSE SendsFail = FALSE
INVARIANTS OwnRepliesStayLocal
CHECK_DEADLOCK FALSE
