CONSTANTS
  Jobs = {j1}
  InScope = {j1}
  WarmJobs = {}
  Attempts = {a1, a2}
  Vms = {v1, v2}
  Pool = {}
  Superseded = {}
  NoVm = NoVm
  Nobody = Nobody
  MaxConcurrent = 2
  LambdaTimeout = 1
  StaleLease = 2
  WarmClaimTtl = 3
  MaxJob = 1
  Grace = 1
  TtlGrace = 3
  PoolVmCap = 9
  SweepLag = 1
  MaxNow = 3
  MaxFaults = 2
SPECIFICATION Spec
INVARIANT RetainedClaimBlocksSecondVm
CHECK_DEADLOCK FALSE
