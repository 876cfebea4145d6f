CONSTANTS
  Jobs = {j1}
  InScope = {j1}
  WarmJobs = {}
  Attempts = {a1}
  Vms = {v1}
  Pool = {}
  Superseded = {}
  NoVm = NoVm
  Nobody = Nobody
  MaxConcurrent = 1
  LambdaTimeout = 1
  StaleLease = 2
  WarmClaimTtl = 3
  MaxJob = 1
  Grace = 1
  TtlGrace = 3
  PoolVmCap = 9
  SweepLag = 1
  MaxNow = 2
  MaxFaults = 1
SPECIFICATION Spec
INVARIANT FailedLaunchLeavesNoRunner
CHECK_DEADLOCK FALSE
