CONSTANTS
  Jobs = {1, 2}
  Vms = {v1, v2}
  NoVm = NoVm
  MaxRelaunches = 1
  ClaimCap = 1
  DlqCap = 1
  ClaimLife = 2
  MaxFaults = 0
SPECIFICATION FairSpec
PROPERTY
  BacklogDrains
