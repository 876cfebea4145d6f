SPECIFICATION Spec
CONSTANTS
  j1 = j1
  j2 = j2
  j3 = j3
  small = small
  large = large
  linux = linux
  acme = acme
  Acme = Acme
  beta = beta
  api = api
  None = None
  Microvm = Microvm
  Labels = {small, large, linux}
  Names = {acme, Acme, beta, api}
  Fold <- Cased
  Size <- Sizes
  JobRepo <- Repository
  JobLabels <- Requests
  Jobs = {j1, j2, j3}
  Configs <- Narrowing
  MaxConcurrent = 1
  MaxLaunchers = 2
  MaxFaults = 0
INVARIANTS
  TypeOK
  AcceptedJobIsTracked
  JobGetsItsSize
  RunnerFitsItsJob
  RunningJobKeepsVm
  OverrunIsBounded
CHECK_DEADLOCK FALSE
