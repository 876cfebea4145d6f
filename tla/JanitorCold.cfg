CONSTANTS
  Vms = {v1}
  Pool = {}
  None = None
  Interval = 4
  Slack = 1
  Jitter = 1
  SweepTime = 1
  LaunchTime = 1
  GracePeriod = 2
  MaxJob = 90
  LifetimeGrace = 1
  WarmClaimTtl = 2
  RowTtl = 99
  MaxAge = 8
  MaxFaults = 1
SPECIFICATION FairSpec
INVARIANTS
  TypeOK
  NoZombieRow
  StrikeSettledByNextSweep
PROPERTIES
  BusyRunnerSpared
  ColdLaunchSpared
  UselessVmIsReaped
