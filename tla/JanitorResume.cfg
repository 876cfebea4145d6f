CONSTANTS
  Vms = {v1}
  Pool = {v1}
  None = None
  Interval = 3
  Slack = 0
  Jitter = 0
  SweepTime = 1
  LaunchTime = 1
  GracePeriod = 2
  MaxJob = 1
  LifetimeGrace = 1
  WarmClaimTtl = 2
  RowTtl = 10
  MaxAge = 11
  MaxFaults = 0
SPECIFICATION Spec
PROPERTY LiveLaunchSpared
