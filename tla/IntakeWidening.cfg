SPECIFICATION Spec
CONSTANTS
  j1 = j1
  j2 = j2
  j3 = j3
  small = small
  large = large
  linux = linux
  acme = acme
  Acme = Acme
  beta = beta
  api = api
  None = None
  Microvm = Microvm
  Labels = {small, large, linux}
  Names = {acme, Acme, beta, api}
  Fold <- Cased
  Size <- Sizes
  JobRepo <- Repository
  JobLabels <- Requests
  Jobs = {j1}
  Configs <- Widening
  MaxConcurrent = 1
  MaxLaunchers = 1
  MaxFaults = 0
INVARIANTS
  AcceptedJobIsTracked
CHECK_DEADLOCK FALSE
