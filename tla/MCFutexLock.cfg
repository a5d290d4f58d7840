SPECIFICATION FairSpec
CONSTANTS
  Procs = {p1, p2, p3, p4}
  NoProc = NoProc
INVARIANTS TypeOK MutualExclusion WordTellsOwnership NoLostWakeup
PROPERTIES SomeoneGetsIt ImplementsMutex
CHECK_DEADLOCK TRUE
