CONSTANTS
  Jobs = {j1}
  InScope = {j1}
  WarmJobs = {j1}
  Attempts = {a1}
  Vms = {v1, v2}
  Pool = {v1}
  Superseded = {}
  NoVm = NoVm
  Nobody = Nobody
  MaxConcurrent = 2
  LambdaTimeout = 1
  StaleLease = 2
  WarmClaimTtl = 3
  MaxJob = 1
  Grace = 1
  TtlGrace = 3
  PoolVmCap = 9
  SweepLag = 1
  MaxNow = 2
  MaxFaults = 2
SPECIFICATION Spec
INVARIANT ColdFallbackLeavesNoArmedVm
CHECK_DEADLOCK FALSE
