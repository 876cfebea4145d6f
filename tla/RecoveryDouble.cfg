CONSTANTS
  Jobs = {1}
  Vms = {v1, v2, v3}
  NoVm = NoVm
  MaxRelaunches = 1
  ClaimCap = 1
  DlqCap = 1
  ClaimLife = 3
  MaxFaults = 0
SPECIFICATION Spec
INVARIANT
  NoDoubleLaunch
