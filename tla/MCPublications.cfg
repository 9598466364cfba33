SPECIFICATION FairSpec
CONSTANTS
  a = a b = b p1 = p1 p2 = p2 s1 = s1 s2 = s2
  Nodes = {a, b} Putters = {p1, p2} Publishers = {p1} Subscribers = {s1, s2} Channels = {s1}
  Home <- MCHome KeyOf <- MCKeyOf KeysIntersect <- MCKeysIntersect
  Oversized = {p2} LinkCapacity = 1 ChannelCapacity = 1 Capacity = 2
  Failing = {p2, s1} Leavers = {s2} NoTask = no_task
INVARIANTS OneOrder StopsOnlyLockedUp
PROPERTIES EveryPutHeard RoundTrip WrittenWholly UnknownExtension IntersectsExact
CHECK_DEADLOCK FALSE
