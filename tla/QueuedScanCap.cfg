SPECIFICATION Spec
CONSTANTS
  acme = acme
  beta = beta
  api = api
  web = web
  r1 = r1
  r2 = r2
  r3 = r3
  r4 = r4
  j1 = j1
  j2 = j2
  j3 = j3
  j4 = j4
  j5 = j5
  None = None
  Owners = {acme, beta}
  Login <- SameLogin
  Orgs <- BothOrgs
  Repos <- BothRepos
  OwnerOf <- OwnerOfRepo
  ReposOf <- ReposOfOrg
  RunsOf <- RunsOfRepo
  JobsOf <- JobsOfRun
  Waiting = {j1, j2, j3, j4}
  Matched = {j2, j3, j4}
  PageSize = 1
  RunCap=3
  JobCap = 7
  TokenLife = 3
  Skew = 1
  CallTime = 1
  MaxAttempts = 2
  MaxNow = 3
  MaxFaults = 1
  MaxSweeps = 2
  MaxChanges = 1
INVARIANTS
  ListingsAreCapped
CHECK_DEADLOCK FALSE
