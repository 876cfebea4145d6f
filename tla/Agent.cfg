SPECIFICATION FairSpec
CONSTANTS
  Launches = {a1, a2}
  None = None
  ReadyTimeout = 5
  ProbeTimeout = 2
  PollInterval = 1
  MaxSuspended = 1
  MaxFaults = 2
INVARIANTS
  NoDaemonIsFrozen
PROPERTIES
  RunnerStartsOnceAndFit
  AcceptedConfigIsDecided
CHECK_DEADLOCK FALSE
