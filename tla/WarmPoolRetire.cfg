CONSTANTS
  Ticks = {t1, t2}
  Launches = {a1}
  Pages <- TwoPages
  NoVm = NoVm
  Target = 1
  VmCap = 1
  JobNeed = 1
  WarmClaimTtl = 1
  MaxAttempts = 2
  MaxChanges = 1
  MaxFaults = 1
SPECIFICATION Spec
PROPERTY
  RetirementSparesJobs
CHECK_DEADLOCK FALSE
