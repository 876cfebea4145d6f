CONSTANTS
  Jobs = {j1, j2}
  InScope = {j1, j2}
  WarmJobs = {j1, j2}
  Attempts = {a1, a2}
  Vms = {v1, v2, v3}
  Pool = {v1, v2}
  Superseded = {v2}
  NoVm = NoVm
  Nobody = Nobody
  MaxConcurrent = 2
  LambdaTimeout = 1
  StaleLease = 2
  WarmClaimTtl = 3
  MaxJob = 1
  Grace = 1
  TtlGrace = 4
  PoolVmCap = 5
  SweepLag = 1
  MaxNow = 5
  MaxFaults = 2
SPECIFICATION Spec
SYMMETRY Symmetry
INVARIANTS
  OneLiveVmPerJob
  WarmVmServesOneLaunch
PROPERTIES
  CompensationSparesOthers
  WarmVmOutlivesJob
CHECK_DEADLOCK FALSE
