SPECIFICATION Spec
CONSTANTS
  Acceptors = {a1, a2} Opener = opener NoTask = no_task Idle = {}
  Souths = {1, 2} Norths = {1} Writers = {1, 2}
  LinkCapacity = 1 MaxPuts = 2 MaxConnects = 3 MaxFailures = 1
INVARIANTS TypeOK NoEcho InOrder RunningIsReached
CHECK_DEADLOCK FALSE
