SPECIFICATION FairSpec
CONSTANTS
  Acceptors = {a1} Opener = opener NoTask = no_task Idle = {1, a1}
  Souths = {1} Norths = {2} Writers = {1, 2}
  LinkCapacity = 1 MaxPuts = 1 MaxConnects = 2 MaxFailures = 1
INVARIANTS StopsOnlyWhenStuck
PROPERTIES AcceptsAgain EveryoneHears
CHECK_DEADLOCK FALSE
