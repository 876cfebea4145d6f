CONSTANTS
  Jobs = {1}
  Vms = {v1, v2}
  NoVm = NoVm
  MaxRelaunches = 1
  ClaimCap = 1
  DlqCap = 1
  ClaimLife = 4
  MaxFaults = 2
SPECIFICATION FairSpec
INVARIANTS
  TypeOK
  QueuedJobIsTracked
PROPERTIES
  QueuedJobIsResolved
