CONSTANTS
  Jobs = {j1, j2}
  InScope = {j1}
  WarmJobs = {}
  Attempts = {a1, a2, a3}
  Vms = {v1, v2}
  Pool = {}
  Superseded = {}
  NoVm = NoVm
  Nobody = Nobody
  MaxConcurrent = 2
  LambdaTimeout = 1
  StaleLease = 2
  WarmClaimTtl = 3
  MaxJob = 1
  Grace = 1
  TtlGrace = 3
  PoolVmCap = 9
  SweepLag = 1
  MaxNow = 4
  MaxFaults = 1
SPECIFICATION Spec
SYMMETRY Symmetry
INVARIANTS
  TypeOK
  HolderKeepsClaim
  OneLiveVmPerJob
  MappedVmSealsClaim
  MappedVmIsArmed
PROPERTIES
  ReleaseLeavesNoArmedVm
  ImplementsLease
CHECK_DEADLOCK FALSE
