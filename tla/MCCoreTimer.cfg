CONSTANTS
  Timers = {t1, t2}
  Workers = {w1}
  Fast = {t1}
  H0 = 2
  H1 = 2
  H2 = 4
  SlowLists = 2
  IdxMod = 4
  FirstIdx = {2, 3}
  Deltas = {2, 4}
  FirstTick = 3
  LastTick = 8
  MaxLag = 2
  None = None
  t1 = t1
  t2 = t2
  w1 = w1
SPECIFICATION Spec
INVARIANTS TypeOK DelWaits ListsAreGuarded RingIsConsistent OnTime
PROPERTY ImplementsTimerApi
