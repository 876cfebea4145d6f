----------------------------- MODULE Intake_proofs -----------------------------
(***************************************************************************)
(* Intake for any jobs, labels and deployments: its types, that a runner   *)
(* fits its job, that a running job keeps its VM, how far the cap may be   *)
(* overrun, that a scope which never widens loses no accepted job, and     *)
(* that a job gets a VM of its size while no class moves to another index. *)
(***************************************************************************)
EXTENDS Intake, FiniteSetTheorems, WellFoundedInduction, TLAPS

-----------------------------------------------------------------------------
(* Scope and classes, for every configuration.                             *)

\* A set of indices has a least one.
LEMMA LeastIndex ==
  ASSUME NEW S \in SUBSET Nat, S # {}
  PROVE  \E i \in S : \A k \in S : i <= k
<1>1. PICK i \in S : \A k \in S : <<k, i>> \notin OpToRel(<, Nat)
  BY NatLessThanWellFounded, WFMin
<1>2. \A k \in S : ~(k < i)
  BY <1>1 DEF OpToRel
<1> QED
  BY <1>2

\* And one of a sequence a greatest one.
LEMMA GreatestIndex ==
  ASSUME NEW n \in Nat, NEW S \in SUBSET (1..n), S # {}
  PROVE  \E i \in S : \A k \in S : k <= i
<1> DEFINE rest == {n - i : i \in S}
<1>0. \A i \in S : i \in Int /\ n - i \in Nat
  OBVIOUS
<1>1. rest \in SUBSET Nat /\ rest # {}
  BY <1>0
<1>2. PICK r \in rest : \A q \in rest : r <= q
  BY <1>1, LeastIndex
<1>3. PICK i \in S : r = n - i
  BY <1>2
<1>4. \A k \in S : n - i <= n - k
  BY <1>2, <1>3
<1> QED
  BY <1>4

\* The organization a listing resolves to is one of those that match.
LEMMA FirstListed ==
  ASSUME NEW orgs \in Seq(Names), NEW owner \in Names, Listing(orgs, owner) # {}
  PROVE  LET i == CHOOSE i \in Listing(orgs, owner) :
                    \A k \in Listing(orgs, owner) : i <= k
         IN  i \in DOMAIN orgs /\ EqFold(orgs[i], owner)
<1>1. Listing(orgs, owner) \in SUBSET Nat
  BY DEF Listing
<1>2. \E i \in Listing(orgs, owner) : \A k \in Listing(orgs, owner) : i <= k
  BY <1>1, LeastIndex
<1>3. (CHOOSE i \in Listing(orgs, owner) : \A k \in Listing(orgs, owner) : i <= k)
        \in Listing(orgs, owner)
  BY <1>2
<1> QED
  BY <1>3 DEF Listing

\* Whatever the spelling of its owner, a repository in scope has a target to
\* register its runner with, and the runners of that target serve it: no claim
\* is stranded by resolveTarget (runner-set-config.ts).
THEOREM ScopeHasTarget ==
  ASSUME NEW scope \in Scopes, NEW repo \in Repositories, IsRepoInScope(scope, repo)
  PROVE  /\ ResolveTarget(scope, repo) \in Targets
         /\ ResolveTarget(scope, repo) # None
         /\ Covers(ResolveTarget(scope, repo), repo)
<1> USE DEF IsRepoInScope, Scopes, Repositories, Targets
<1>0. Fold \in [Names -> Names]
  BY NamesAssumption
<1>1. CASE scope.kind = "org"
  <2>1. scope.org \in Names /\ EqFold(repo.owner, scope.org)
    BY <1>1
  <2>2. ResolveTarget(scope, repo) = [org |-> scope.org]
    BY <1>1 DEF ResolveTarget, OrgTarget
  <2> QED
    BY <2>1, <2>2, TargetsAssumption DEF Covers, EqFold
<1>2. CASE scope.kind = "orgs"
  <2>1. scope.orgs \in Seq(Names)
    BY <1>2
  <2>2. PICK k \in DOMAIN scope.orgs : EqFold(repo.owner, scope.orgs[k])
    BY <1>2
  <2>3. k \in Listing(scope.orgs, repo.owner)
    BY <2>2 DEF Listing, EqFold
  <2> DEFINE i == CHOOSE i \in Listing(scope.orgs, repo.owner) :
                    \A n \in Listing(scope.orgs, repo.owner) : i <= n
  <2>4. i \in DOMAIN scope.orgs /\ EqFold(scope.orgs[i], repo.owner)
    BY <2>1, <2>3, FirstListed
  <2>5. ResolveTarget(scope, repo) = [org |-> scope.orgs[i]]
    BY <1>2, <2>3 DEF ResolveTarget, OrgTarget
  <2> HIDE DEF i
  <2>6. scope.orgs[i] \in Names
    BY <2>1, <2>4
  <2> QED
    BY <2>4, <2>5, <2>6, TargetsAssumption DEF Covers
<1>3. CASE scope.kind = "repos"
  <2>1. ResolveTarget(scope, repo) = [owner |-> repo.owner, repo |-> repo.name]
    BY <1>3 DEF ResolveTarget, RepoTarget
  <2> QED
    BY <2>1, TargetsAssumption DEF Covers, EqFold
<1> QED
  BY <1>1, <1>2, <1>3

\* In scope or not, a target is well formed, if there is one.
LEMMA TargetTypes ==
  ASSUME NEW scope \in Scopes, NEW repo \in Repositories
  PROVE  ResolveTarget(scope, repo) \in Targets \cup {None}
<1> USE DEF Scopes, Repositories, Targets, ResolveTarget
<1>1. CASE scope.kind = "org"
  BY <1>1 DEF OrgTarget
<1>2. CASE scope.kind = "orgs"
  <2>1. CASE Listing(scope.orgs, repo.owner) = {}
    BY <1>2, <2>1
  <2>2. CASE Listing(scope.orgs, repo.owner) # {}
    <3> DEFINE i == CHOOSE i \in Listing(scope.orgs, repo.owner) :
                      \A n \in Listing(scope.orgs, repo.owner) : i <= n
    <3>1. scope.orgs \in Seq(Names)
      BY <1>2
    <3>2. i \in DOMAIN scope.orgs
      BY <2>2, <3>1, FirstListed
    <3>3. ResolveTarget(scope, repo) = [org |-> scope.orgs[i]]
      BY <1>2, <2>2 DEF OrgTarget
    <3> HIDE DEF i
    <3> QED
      BY <3>1, <3>2, <3>3
  <2> QED
    BY <2>1, <2>2
<1>3. CASE scope.kind = "repos"
  BY <1>3 DEF RepoTarget
<1> QED
  BY <1>1, <1>2, <1>3

\* Some class matches exactly when the job requests one.
LEMMA MatchIsRequested ==
  ASSUME NEW classes \in Seq(Labels), NEW labels, Requested(classes, labels) # {}
  PROVE  /\ MatchSizeClass(classes, labels) \in DOMAIN classes
         /\ ServesAt(classes, labels, MatchSizeClass(classes, labels))
<1>1. Requested(classes, labels) \in SUBSET (1..Len(classes)) /\ Len(classes) \in Nat
  BY DEF Requested
<1>2. \E i \in Requested(classes, labels) : ServesAt(classes, labels, i)
  BY <1>1, GreatestIndex DEF ServesAt
<1>3. MatchSizeClass(classes, labels) \in Requested(classes, labels)
      /\ ServesAt(classes, labels, MatchSizeClass(classes, labels))
  BY <1>2 DEF MatchSizeClass
<1> QED
  BY <1>1, <1>3

\* Of classes declared smallest first, the one that serves a job is no smaller
\* than any it asks for, and one it asks for: "largest match wins"
\* (size-class-match.ts).
THEOREM LargestMatchWins ==
  ASSUME NEW classes \in Seq(Labels), Ascending(classes),
         NEW labels, NEW label \in labels \cap Range(classes)
  PROVE  LET class == classes[MatchSizeClass(classes, labels)]
         IN  class \in labels /\ Size[label] <= Size[class]
<1>1. PICK k \in DOMAIN classes : classes[k] = label
  BY DEF Range
<1>2. k \in Requested(classes, labels)
  BY <1>1 DEF Requested
<1> DEFINE i == MatchSizeClass(classes, labels)
<1>3. i \in DOMAIN classes /\ i \in Requested(classes, labels) /\ k <= i
  BY <1>2, MatchIsRequested DEF ServesAt
<1> QED
  BY <1>1, <1>3 DEF Ascending, Requested

-----------------------------------------------------------------------------
(* Intake.                                                                 *)

Launches == {Launch(j) : j \in Jobs}
Terminates == {Terminate(r) : r \in Jobs}
JobStates == [state : States, runner : Jobs \cup {None}]
Attempts == [pc : {"idle", "claimed", "done"}, config : Range(Configs)]
Deliveries == [kind : {"queued", "completed"}, job : Jobs]

LEMMA ConstantTypes ==
  /\ JobRepo \in [Jobs -> Repositories] /\ JobLabels \in [Jobs -> SUBSET Labels]
  /\ None \notin Jobs /\ None \notin Labels /\ None \notin Runners
  /\ MaxConcurrent \in Nat /\ MaxLaunchers \in Nat /\ MaxFaults \in Nat
  /\ MaxConcurrent > 0 /\ MaxLaunchers > 0
  BY JobsAssumption, LabelsAssumption, RunnersAssumption, BoundsAssumption

\* A configuration has a class, and an index for each of its classes.
LEMMA ConfigTypes ==
  ASSUME NEW config \in Range(Configs)
  PROVE  /\ config.scope \in Scopes /\ config.classes \in Seq(Labels)
         /\ DOMAIN config.classes \subseteq Indices /\ 1 \in DOMAIN config.classes
<1>1. PICK i \in DOMAIN Configs : config = Configs[i]
  BY DEF Range
<1> DEFINE S == [scope : Scopes, classes : Seq(Labels)]
<1>2. config \in S
  <2>1. Configs \in Seq(S)
    BY ConfigsAssumption
  <2> HIDE DEF S
  <2> QED
    BY <1>1, <2>1
<1>3. Len(config.classes) <= Cardinality(Labels) /\ config.classes # <<>>
  BY <1>1, ConfigsAssumption DEF Synthesizes
<1>4. Cardinality(Labels) \in Nat
  BY ConfigsAssumption, FS_CardinalityType
<1> QED
  BY <1>2, <1>3, <1>4 DEF Indices

\* The image a job boots from is that of one of the classes.
LEMMA ImageIsOfAClass ==
  ASSUME NEW config \in Range(Configs), NEW labels
  PROVE  ImageFor(config, labels) \in Indices
<1>1. config.classes \in Seq(Labels) /\ DOMAIN config.classes \subseteq Indices
      /\ 1 \in DOMAIN config.classes
  BY ConfigTypes
<1>2. DefaultImageArn(config) \in DOMAIN config.classes
  BY <1>1 DEF DefaultImageArn, Range
<1>3. CASE MatchSizeClass(config.classes, labels) = 0
  BY <1>1, <1>2, <1>3 DEF ImageFor
<1>4. CASE MatchSizeClass(config.classes, labels) # 0
  <2>1. Requested(config.classes, labels) # {}
    BY <1>4 DEF MatchSizeClass
  <2> QED
    BY <1>1, <1>4, <2>1, MatchIsRequested DEF ImageFor
<1> QED
  BY <1>3, <1>4

LEMMA ImageTypes ==
  ASSUME NEW config \in Range(Configs)
  PROVE  ImagesOf(config) \in [Indices -> Labels \cup {None}]
  BY ConfigTypes DEF ImagesOf

\* The last deployment's configuration is one of them, and so is the next.
LEMMA DeployedTypes ==
  ASSUME NEW i \in DOMAIN Configs
  PROVE  Configs[i] \in Range(Configs)
  BY DEF Range

LEMMA FirstConfig == 1 \in DOMAIN Configs
  BY ConfigsAssumption

-----------------------------------------------------------------------------
(* Types.                                                                  *)

\* A message of the queue is one of the two kinds, and says which.
LEMMA Messages ==
  /\ \A m \in Launches : m.kind = "launch" /\ m.job \in Jobs /\ m = Launch(m.job)
                         /\ m.labels = JobLabels[m.job]
  /\ \A m \in Terminates : m.kind = "terminate" /\ m.runner \in Jobs /\ m = Terminate(m.runner)
  BY DEF Launches, Terminates, Launch, Terminate

LEMMA LaunchMessage ==
  ASSUME TypeOK, NEW m \in queue, m.kind = "launch"
  PROVE  m.job \in Jobs /\ m = Launch(m.job) /\ m.labels = JobLabels[m.job]
  BY Messages DEF TypeOK, Launches, Terminates

LEMMA TerminateMessage ==
  ASSUME TypeOK, NEW m \in queue, m.kind = "terminate"
  PROVE  m.runner \in Jobs /\ m = Terminate(m.runner)
  BY Messages DEF TypeOK, Launches, Terminates

\* What the webhook makes of a delivery.
LEMMA RouteTypes ==
  ASSUME TypeOK, NEW config, NEW d \in deliveries
  PROVE  /\ d.job \in Jobs
         /\ \/ Route(config, d) = None
            \/ d.kind = "queued" /\ Route(config, d) = Launch(d.job)
            \/ d.kind = "completed" /\ job[d.job].runner \in Jobs
                 /\ Route(config, d) = Terminate(job[d.job].runner)
  BY DEF TypeOK, Route

LEMMA RoutedMessage ==
  ASSUME TypeOK, NEW config, NEW d \in deliveries, Route(config, d) # None
  PROVE  Route(config, d) \in Launches \cup Terminates
  BY RouteTypes DEF Launches, Terminates

LEMMA FaultTypes ==
  ASSUME TypeOK, NoFault \/ Fault
  PROVE  faults' \in 0..MaxFaults
  BY ConstantTypes DEF TypeOK, NoFault, Fault

\* A runner that exists stays one when it moves on.
LEMMA MovedRunner ==
  ASSUME runner \in [Jobs -> Runners \cup {None}], NEW r \in Jobs, runner[r] # None,
         NEW s \in {"idle", "busy", "spent", "ended"}
  PROVE  /\ [runner[r] EXCEPT !.state = s] \in Runners
         /\ [runner EXCEPT ![r].state = s] \in [Jobs -> Runners \cup {None}]
  BY DEF Runners

LEMMA InitTypeOK == Init => TypeOK
<1> SUFFICES ASSUME Init PROVE TypeOK
  OBVIOUS
<1>1. Configs[1] \in Range(Configs) /\ deployed \in DOMAIN Configs
  BY FirstConfig, DeployedTypes DEF Init
<1>2. image \in [Indices -> Labels \cup {None}]
  BY <1>1, ImageTypes DEF Init
<1> QED
  BY <1>1, <1>2, ConstantTypes DEF Init, TypeOK, States

LEMMA WebhookTypeOK ==
  ASSUME TypeOK, NEW d \in deliveries, Deliver(d) \/ DeliveryFails(d)
  PROVE  TypeOK'
<1>1. queue' \subseteq Launches \cup Terminates
  BY RoutedMessage DEF TypeOK, Launches, Terminates, Deliver, DeliveryFails
<1>2. accepted' \subseteq Jobs
  BY RouteTypes DEF TypeOK, Deliver, DeliveryFails
<1>3. faults' \in 0..MaxFaults
  BY FaultTypes DEF Deliver, DeliveryFails
<1> QED
  BY <1>1, <1>2, <1>3 DEF TypeOK, Launches, Terminates, Deliver, DeliveryFails, deployment

LEMMA LauncherTypeOK ==
  ASSUME TypeOK, NEW m \in queue, LaunchStep(m) \/ TakeTerminate(m)
  PROVE  TypeOK'
<1>1. CASE DropLaunch(m)
  BY <1>1, FaultTypes DEF TypeOK, DropLaunch, deployment, github
<1>2. CASE ClaimLaunch(m)
  <2>1. m.job \in Jobs
    BY <1>2, LaunchMessage DEF ClaimLaunch
  <2>2. [pc |-> "claimed", config |-> env.launcher] \in Attempts
    BY DEF TypeOK, Attempts, Handlers
  <2>3. launch' \in [Jobs -> Attempts]
    BY <1>2, <2>1, <2>2 DEF TypeOK, ClaimLaunch, Attempts
  <2>4. faults' \in 0..MaxFaults
    BY <1>2, FaultTypes DEF ClaimLaunch
  <2> QED
    BY <1>2, <2>3, <2>4 DEF TypeOK, ClaimLaunch, Attempts, deployment, github
<1>3. CASE CompleteLaunch(m)
  <2> DEFINE j == m.job
             config == launch[j].config
             class == image[ImageFor(config, m.labels)]
             target == ResolveTarget(config.scope, JobRepo[j])
             r == [labels |-> m.labels, target |-> target, class |-> class,
                   config |-> config, state |-> "idle"]
  <2>1. j \in Jobs /\ m.labels = JobLabels[j]
    BY <1>3, LaunchMessage DEF CompleteLaunch
  <2>2. config \in Range(Configs)
    BY <2>1 DEF TypeOK
  <2>3. target \in Targets
    <3>1. config.scope \in Scopes /\ JobRepo[j] \in Repositories
      BY <2>1, <2>2, ConfigTypes, ConstantTypes
    <3>2. target # None
      BY <1>3 DEF CompleteLaunch
    <3> QED
      BY <3>1, <3>2, TargetTypes
  <2>4. class \in Labels
    <3>1. ImageFor(config, m.labels) \in Indices
      BY <2>2, ImageIsOfAClass
    <3>2. class # None
      BY <1>3 DEF CompleteLaunch
    <3> QED
      BY <3>1, <3>2 DEF TypeOK
  <2>5. m.labels \in SUBSET Labels
    BY <2>1, ConstantTypes
  <2>6. runner' = [runner EXCEPT ![j] = r] /\ launch' = [launch EXCEPT ![j].pc = "done"]
        /\ queue' = queue \ {m}
    BY <1>3 DEF CompleteLaunch
  <2> HIDE DEF j, config, class, target
  <2>7. r \in Runners
    BY <2>2, <2>3, <2>4, <2>5 DEF Runners
  <2>8. runner' \in [Jobs -> Runners \cup {None}]
    BY <2>6, <2>7 DEF TypeOK
  <2>9. launch' \in [Jobs -> Attempts]
    BY <2>1, <2>6 DEF TypeOK, Attempts
  <2> QED
    BY <1>3, <2>6, <2>8, <2>9, FaultTypes
    DEF TypeOK, CompleteLaunch, Attempts, deployment, github
<1>4. CASE FailLaunch(m)
  <2>1. launch' \in [Jobs -> Attempts]
    BY <1>4, LaunchMessage DEF TypeOK, FailLaunch, Attempts
  <2>2. faults' \in 0..MaxFaults
    BY <1>4, FaultTypes DEF FailLaunch
  <2> QED
    BY <1>4, <2>1, <2>2 DEF TypeOK, FailLaunch, Attempts, deployment, github
<1>5. CASE TakeTerminate(m)
  <2>1. m.runner \in Jobs
    BY <1>5, TerminateMessage DEF TakeTerminate
  <2>2. runner' \in [Jobs -> Runners \cup {None}]
    BY <1>5, <2>1, MovedRunner DEF TypeOK, TakeTerminate
  <2> QED
    BY <1>5, <2>2, FaultTypes DEF TypeOK, TakeTerminate, deployment, github
<1> QED
  BY <1>1, <1>2, <1>3, <1>4, <1>5 DEF LaunchStep

\* A job names only a runner there is.
NamedRunnerExists == \A j \in Jobs : job[j].runner # None => runner[job[j].runner] # None

LEMMA GithubTypeOK ==
  ASSUME TypeOK, NamedRunnerExists, NEW j \in Jobs,
         QueueJob(j) \/ Redeliver(j) \/ Assign(j) \/ Finish(j) \/ JanitorReaps(j)
  PROVE  TypeOK'
<1>0. /\ job \in [Jobs -> JobStates] /\ runner \in [Jobs -> Runners \cup {None}]
      /\ deliveries \subseteq Deliveries
  BY DEF TypeOK, JobStates, Deliveries
<1>1. faults' \in 0..MaxFaults
  BY FaultTypes DEF QueueJob, Redeliver, Assign, Finish, JanitorReaps
<1>2. job' \in [Jobs -> JobStates]
  BY <1>0 DEF QueueJob, Redeliver, Assign, Finish, JanitorReaps, JobStates, States, github
<1>3. deliveries' \subseteq Deliveries
  BY <1>0 DEF QueueJob, Redeliver, Assign, Finish, JanitorReaps, Deliveries, Queued, Completed, github
<1>4. runner' \in [Jobs -> Runners \cup {None}]
  <2>1. CASE QueueJob(j) \/ Redeliver(j)
    BY <1>0, <2>1 DEF QueueJob, Redeliver
  <2>2. CASE Assign(j)
    BY <1>0, <2>2, MovedRunner DEF Assign
  <2>3. CASE Finish(j)
    <3>1. \A r \in Jobs : r = job[j].runner => [runner[r] EXCEPT !.state = "spent"] \in Runners
      BY <1>0, MovedRunner, ConstantTypes DEF NamedRunnerExists
    <3> QED
      BY <1>0, <2>3, <3>1 DEF Finish
  <2>4. CASE JanitorReaps(j)
    BY <1>0, <2>4, MovedRunner DEF JanitorReaps
  <2> QED
    BY <2>1, <2>2, <2>3, <2>4
<1>5. UNCHANGED <<deployment, queue, launch, accepted>>
  BY DEF QueueJob, Redeliver, Assign, Finish, JanitorReaps
<1> QED
  BY <1>1, <1>2, <1>3, <1>4, <1>5 DEF TypeOK, JobStates, Deliveries, deployment

LEMMA DeploymentTypeOK ==
  ASSUME TypeOK, Deploy \/ DeploymentStep
  PROVE  TypeOK'
<1> USE DEF TypeOK, github
<1>1. CASE Deploy
  BY <1>1, ConfigsAssumption DEF Deploy
<1>2. ASSUME NEW i \in Indices, RebuildImage(i) PROVE TypeOK'
  <2>1. ImagesOf(Configs[deployed]) \in [Indices -> Labels \cup {None}]
    BY DeployedTypes, ImageTypes
  <2> QED
    BY <1>2, <2>1 DEF RebuildImage
<1>3. ASSUME NEW f \in Handlers, UpdateFunction(f) PROVE TypeOK'
  BY <1>3, DeployedTypes DEF UpdateFunction
<1> QED
  BY <1>1, <1>2, <1>3 DEF DeploymentStep

LEMMA NextTypeOK ==
  ASSUME TypeOK, NamedRunnerExists, [Next]_vars
  PROVE  TypeOK'
<1>1. CASE UNCHANGED vars
  BY <1>1 DEF TypeOK, vars
<1> QED
  BY <1>1, WebhookTypeOK, LauncherTypeOK, GithubTypeOK, DeploymentTypeOK DEF Next

-----------------------------------------------------------------------------
(* A runner serves one job, and only its end is what ends its VM.          *)

\* Only jobs that run or ran name a runner, no two the same, and none an idle one.
RunnerServesOneJob ==
  /\ \A j \in Jobs :
       job[j].runner # None =>
         job[j].state \in {"running", "done"} /\ runner[job[j].runner].state # "idle"
  /\ \A j, k \in Jobs : job[j].runner # None /\ job[j].runner = job[k].runner => j = k

\* The runner of a job that runs is busy with it.
RunningJobIsServed ==
  \A j \in Jobs :
    job[j].state = "running" => job[j].runner # None /\ runner[job[j].runner].state = "busy"

\* Completion is announced, and a runner's end asked for, of jobs that are over.
EndsAreOfDoneJobs ==
  /\ \A j \in Jobs : Completed(j) \in deliveries => job[j].state = "done"
  /\ \A r \in Jobs :
       Terminate(r) \in queue => \E j \in Jobs : job[j].state = "done" /\ job[j].runner = r

\* A launch makes its runner when it is done, and once.
LaunchMakesRunner == \A j \in Jobs : launch[j].pc # "done" => runner[j] = None

ServiceInv ==
  /\ TypeOK /\ NamedRunnerExists /\ RunnerServesOneJob /\ RunningJobIsServed
  /\ EndsAreOfDoneJobs /\ LaunchMakesRunner

LEMMA InitServiceInv == Init => ServiceInv
<1> SUFFICES ASSUME Init PROVE ServiceInv
  OBVIOUS
<1>1. TypeOK
  BY InitTypeOK
<1> QED
  BY <1>1 DEF Init, ServiceInv, NamedRunnerExists, RunnerServesOneJob, RunningJobIsServed,
              EndsAreOfDoneJobs, LaunchMakesRunner

Service == NamedRunnerExists /\ RunnerServesOneJob /\ RunningJobIsServed /\ EndsAreOfDoneJobs
             /\ LaunchMakesRunner

LEMMA WebhookService ==
  ASSUME ServiceInv, NEW d \in deliveries, Deliver(d) \/ DeliveryFails(d)
  PROVE  Service'
<1>1. job' = job /\ runner' = runner /\ launch' = launch /\ deliveries' = deliveries \ {d}
  BY DEF Deliver, DeliveryFails
<1>2. ASSUME NEW r \in Jobs, Terminate(r) \in queue', Terminate(r) \notin queue
      PROVE  \E j \in Jobs : job[j].state = "done" /\ job[j].runner = r
  <2>1. Terminate(r) = Route(env.webhook, d) /\ Route(env.webhook, d) # None
    BY <1>2 DEF Deliver, DeliveryFails
  <2>2. d.kind = "completed" /\ d.job \in Jobs /\ Terminate(r) = Terminate(job[d.job].runner)
    BY <2>1, RouteTypes DEF ServiceInv, Terminate, Launch
  <2>3. job[d.job].runner = r
    BY <2>2 DEF Terminate
  <2>4. d = Completed(d.job)
    BY <2>2 DEF ServiceInv, TypeOK, Completed
  <2> QED
    BY <2>2, <2>3, <2>4 DEF ServiceInv, EndsAreOfDoneJobs
<1> QED
  BY <1>1, <1>2 DEF ServiceInv, Service, NamedRunnerExists, RunnerServesOneJob,
                    RunningJobIsServed, EndsAreOfDoneJobs, LaunchMakesRunner

LEMMA LauncherService ==
  ASSUME ServiceInv, NEW m \in queue, LaunchStep(m) \/ TakeTerminate(m)
  PROVE  Service'
<1> USE DEF ServiceInv, Service, NamedRunnerExists, RunnerServesOneJob, RunningJobIsServed,
            EndsAreOfDoneJobs, LaunchMakesRunner
<1>1. CASE DropLaunch(m)
  BY <1>1 DEF DropLaunch, github
<1>2. CASE ClaimLaunch(m)
  <2>1. m.job \in Jobs /\ launch[m.job].pc = "idle"
    BY <1>2, LaunchMessage DEF ClaimLaunch
  <2>2. \A j \in Jobs : launch'[j].pc # "done" => launch[j].pc # "done"
    BY <1>2, <2>1 DEF ClaimLaunch, TypeOK
  <2> QED
    BY <1>2, <2>2 DEF ClaimLaunch, github
<1>3. CASE CompleteLaunch(m)
  <2>1. m.job \in Jobs /\ runner[m.job] = None
    BY <1>3, LaunchMessage DEF CompleteLaunch
  <2>2. \A j \in Jobs : job[j].runner # m.job
    BY <2>1, ConstantTypes
  <2>3. \A r \in Jobs : r # m.job => runner'[r] = runner[r]
    BY <1>3 DEF CompleteLaunch, TypeOK
  <2>4. \A j \in Jobs : launch'[j].pc # "done" => launch[j].pc # "done" /\ j # m.job
    BY <1>3, <2>1 DEF CompleteLaunch, TypeOK
  <2>5. job' = job /\ deliveries' = deliveries /\ queue' = queue \ {m}
    BY <1>3 DEF CompleteLaunch, github
  <2>6. \A j \in Jobs : job[j].runner # None => runner'[job[j].runner] = runner[job[j].runner]
    BY <2>2, <2>3 DEF TypeOK
  <2>7. NamedRunnerExists' /\ RunnerServesOneJob' /\ RunningJobIsServed'
    BY <2>5, <2>6
  <2>8. EndsAreOfDoneJobs'
    BY <2>5
  <2>9. LaunchMakesRunner'
    BY <2>3, <2>4
  <2> QED
    BY <2>7, <2>8, <2>9
<1>4. CASE FailLaunch(m)
  <2>1. m.job \in Jobs /\ launch[m.job].pc = "claimed"
    BY <1>4, LaunchMessage DEF FailLaunch
  <2>2. \A j \in Jobs : launch'[j].pc # "done" => launch[j].pc # "done"
    BY <1>4, <2>1 DEF FailLaunch, TypeOK
  <2> QED
    BY <1>4, <2>2 DEF FailLaunch, github
<1>5. CASE TakeTerminate(m)
  <2>1. m.runner \in Jobs /\ Terminate(m.runner) \in queue
    BY <1>5, TerminateMessage DEF TakeTerminate
  <2>2. PICK j \in Jobs : job[j].state = "done" /\ job[j].runner = m.runner
    BY <2>1
  <2>3. \A k \in Jobs : job[k].state = "running" => job[k].runner # m.runner
    BY <2>2, ConstantTypes
  <2>4. \A r \in Jobs : r # m.runner => runner'[r] = runner[r]
    BY <1>5 DEF TakeTerminate, TypeOK
  <2>5. runner[m.runner] # None
    BY <2>1, <2>2, ConstantTypes
  <2>6. runner'[m.runner] \in Runners /\ runner'[m.runner].state = "ended"
    <3>1. runner[m.runner] \in Runners
      BY <2>1, <2>5 DEF TypeOK
    <3>2. runner'[m.runner] = [runner[m.runner] EXCEPT !.state = "ended"]
      BY <1>5, <2>1, <2>5 DEF TakeTerminate, TypeOK
    <3> QED
      BY <3>1, <3>2 DEF Runners
  <2>7. runner'[m.runner] # None
    BY <2>6, ConstantTypes
  <2>8. job' = job /\ deliveries' = deliveries /\ queue' = queue \ {m} /\ launch' = launch
    BY <1>5 DEF TakeTerminate, github
  <2>9. \A j1 \in Jobs : job[j1].runner # None => job[j1].runner \in Jobs
    BY DEF TypeOK
  <2> QED
    BY <2>1, <2>2, <2>3, <2>4, <2>5, <2>6, <2>7, <2>8, <2>9
<1> QED
  BY <1>1, <1>2, <1>3, <1>4, <1>5 DEF LaunchStep

LEMMA GithubService ==
  ASSUME ServiceInv, NEW j \in Jobs,
         QueueJob(j) \/ Redeliver(j) \/ Assign(j) \/ Finish(j) \/ JanitorReaps(j)
  PROVE  Service'
<1> USE DEF ServiceInv, Service, NamedRunnerExists, RunnerServesOneJob, RunningJobIsServed,
            EndsAreOfDoneJobs, LaunchMakesRunner
<1>0. /\ job \in [Jobs -> JobStates] /\ runner \in [Jobs -> Runners \cup {None}]
      /\ deliveries \subseteq Deliveries
  BY DEF TypeOK, JobStates, Deliveries
<1>1. CASE QueueJob(j)
  <2>1. \A k \in Jobs : job'[k].runner = job[k].runner
                       /\ (job'[k].state = job[k].state \/ (k = j /\ job'[k].state = "queued"))
    BY <1>0, <1>1 DEF QueueJob, JobStates
  <2>2. job[j].runner = None
    BY <1>1 DEF QueueJob
  <2>3. \A k \in Jobs : Completed(k) \in deliveries' => Completed(k) \in deliveries
    BY <1>1 DEF QueueJob, Queued, Completed
  <2>4. job[j].state = "none"
    BY <1>1 DEF QueueJob
  <2> QED
    BY <1>1, <2>1, <2>2, <2>3, <2>4 DEF QueueJob
<1>2. CASE Redeliver(j)
  <2>1. \A k \in Jobs : Completed(k) \in deliveries' => Completed(k) \in deliveries
    BY <1>2 DEF Redeliver, Queued, Completed
  <2> QED
    BY <1>2, <2>1 DEF Redeliver
<1>3. CASE Assign(j)
  <2>1. PICK r \in Jobs :
          /\ runner[r] # None /\ runner[r].state = "idle"
          /\ job' = [job EXCEPT ![j] = [state |-> "running", runner |-> r]]
          /\ runner' = [runner EXCEPT ![r].state = "busy"]
    BY <1>3 DEF Assign
  <2>2. \A k \in Jobs : job[k].runner # r
    BY <2>1, ConstantTypes
  <2>3. job'[j].state = "running" /\ job'[j].runner = r
        /\ \A k \in Jobs : k # j => job'[k] = job[k]
    BY <1>0, <2>1
  <2>4. \A q \in Jobs : q # r => runner'[q] = runner[q]
    BY <1>0, <2>1
  <2>5. runner'[r] \in Runners /\ runner'[r].state = "busy"
    <3>1. runner[r] \in Runners
      BY <1>0, <2>1
    <3> QED
      BY <1>0, <2>1, <3>1 DEF Runners
  <2>6. runner'[r] # None /\ r # None
    BY <2>5, ConstantTypes
  <2>7. deliveries' = deliveries /\ queue' = queue /\ launch' = launch
    BY <1>3 DEF Assign
  <2>8. \A k \in Jobs : job[k].runner # None => job[k].runner \in Jobs
    BY <1>0 DEF JobStates
  <2>9. job[j].state = "queued"
    BY <1>3 DEF Assign
  <2>10. \A k \in Jobs : launch[k].pc # "done" => runner'[k] = None
    BY <2>1, <2>4
  <2> QED
    BY <2>2, <2>3, <2>4, <2>5, <2>6, <2>7, <2>8, <2>9, <2>10
<1>4. CASE Finish(j)
  <2>1. \A k \in Jobs : job'[k].runner = job[k].runner
                       /\ job'[k].state = IF k = j THEN "done" ELSE job[k].state
    BY <1>0, <1>4 DEF Finish, JobStates
  <2>2. \A r \in Jobs : r # job[j].runner => runner'[r] = runner[r]
    BY <1>4 DEF Finish
  <2>3. ASSUME job[j].runner # None
        PROVE  runner'[job[j].runner] \in Runners /\ runner'[job[j].runner].state = "spent"
    <3>1. job[j].runner \in Jobs /\ runner[job[j].runner] \in Runners
      BY <1>0, <2>3 DEF JobStates
    <3>2. runner'[job[j].runner] = [runner[job[j].runner] EXCEPT !.state = "spent"]
      BY <1>4, <3>1 DEF Finish
    <3> QED
      BY <3>1, <3>2 DEF Runners
  <2>4. job[j].runner # None => runner'[job[j].runner] # None
    BY <2>3, ConstantTypes
  <2>5. \A k \in Jobs : Completed(k) \in deliveries' => Completed(k) \in deliveries \/ k = j
    BY <1>4 DEF Finish, Completed
  <2>6. queue' = queue /\ launch' = launch
    BY <1>4 DEF Finish
  <2>7. \A k \in Jobs : job[k].runner # None => job[k].runner \in Jobs
    BY <1>0 DEF JobStates
  <2>8. job[j].state \in {"queued", "running"}
    BY <1>4 DEF Finish
  <2>9. NamedRunnerExists'
    BY <2>1, <2>2, <2>4, <2>7
  <2>10. RunnerServesOneJob'
    BY <2>1, <2>2, <2>3, <2>7
  <2>11. RunningJobIsServed'
    BY <2>1, <2>2, <2>7
  <2>12. EndsAreOfDoneJobs'
    BY <2>1, <2>5, <2>6
  <2>13. LaunchMakesRunner'
    <3>1. job[j].runner # None => launch[job[j].runner].pc = "done"
      BY <2>7
    <3> QED
      BY <2>2, <2>6, <3>1, ConstantTypes
  <2> QED
    BY <2>9, <2>10, <2>11, <2>12, <2>13
<1>5. CASE JanitorReaps(j)
  <2>1. runner[j] \in Runners /\ runner[j].state \in {"idle", "spent"}
    BY <1>0, <1>5 DEF JanitorReaps
  <2>2. runner'[j] \in Runners /\ runner'[j].state = "ended"
    BY <1>0, <1>5, <2>1 DEF JanitorReaps, Runners
  <2>3. runner'[j] # None
    BY <2>2, ConstantTypes
  <2>4. \A r \in Jobs : r # j => runner'[r] = runner[r]
    BY <1>0, <1>5 DEF JanitorReaps
  <2>5. job' = job /\ deliveries' = deliveries /\ queue' = queue /\ launch' = launch
    BY <1>5 DEF JanitorReaps, github
  <2>6. \A k \in Jobs : job[k].runner # None => job[k].runner \in Jobs
    BY <1>0 DEF JobStates
  <2>7. runner[j] # None
    BY <1>5 DEF JanitorReaps
  <2> QED
    BY <2>1, <2>2, <2>3, <2>4, <2>5, <2>6, <2>7
<1> QED
  BY <1>1, <1>2, <1>3, <1>4, <1>5

LEMMA ServiceInvariant == Spec => []ServiceInv
<1>1. ServiceInv /\ [Next]_vars => ServiceInv'
  <2> SUFFICES ASSUME ServiceInv, [Next]_vars PROVE ServiceInv'
    OBVIOUS
  <2>1. TypeOK'
    BY NextTypeOK DEF ServiceInv
  <2>2. Service'
    <3>1. CASE UNCHANGED <<job, deliveries, queue, launch, runner>>
      BY <3>1 DEF ServiceInv, Service, NamedRunnerExists, RunnerServesOneJob, RunningJobIsServed,
                  EndsAreOfDoneJobs, LaunchMakesRunner
    <3>2. CASE Deploy \/ DeploymentStep \/ UNCHANGED vars
      BY <3>1, <3>2 DEF Deploy, DeploymentStep, RebuildImage, UpdateFunction, vars, github
    <3> QED
      BY <3>2, WebhookService, LauncherService, GithubService DEF Next
  <2> QED
    BY <2>1, <2>2 DEF ServiceInv, Service
<1> QED
  BY InitServiceInv, <1>1, PTL DEF Spec

\* Every variable of the functions, of GitHub and of the deployment has its type.
THEOREM TypeCorrect == Spec => []TypeOK
<1>1. ServiceInv => TypeOK
  BY DEF ServiceInv
<1> QED
  BY ServiceInvariant, <1>1, PTL

\* Whichever runner of the pool takes a job, no terminate message and no sweep
\* ends its VM while the job runs.
THEOREM JobsKeepTheirVms == Spec => []RunningJobKeepsVm
<1>1. ServiceInv => RunningJobKeepsVm
  BY ConstantTypes DEF ServiceInv, RunningJobIsServed, NamedRunnerExists, RunningJobKeepsVm, Running
<1> QED
  BY ServiceInvariant, <1>1, PTL

-----------------------------------------------------------------------------
(* A launch has a target that covers its job.                              *)

\* A launch is claimed only in the scope of the configuration it goes on with.
ClaimedInScope ==
  \A j \in Jobs : launch[j].pc = "claimed" => IsRepoInScope(launch[j].config.scope, JobRepo[j])

RunnersFit == \A j \in Jobs : runner[j] # None => CanServe(runner[j], j)

FitInv == ServiceInv /\ ClaimedInScope /\ RunnersFit

\* What a runner can take does not depend on what it is doing.
LEMMA StateIsNoFit ==
  ASSUME NEW r \in Runners, NEW s, NEW j \in Jobs
  PROVE  CanServe([r EXCEPT !.state = s], j) <=> CanServe(r, j)
  BY DEF Runners, CanServe

LEMMA LauncherFits ==
  ASSUME FitInv, NEW m \in queue, LaunchStep(m) \/ TakeTerminate(m)
  PROVE  ClaimedInScope' /\ RunnersFit'
<1>0. launch \in [Jobs -> Attempts] /\ runner \in [Jobs -> Runners \cup {None}] /\ TypeOK
  BY DEF FitInv, ServiceInv, TypeOK, Attempts
<1> USE DEF FitInv, ClaimedInScope, RunnersFit
<1>1. CASE DropLaunch(m)
  BY <1>1 DEF DropLaunch
<1>2. CASE ClaimLaunch(m)
  BY <1>0, <1>2, LaunchMessage DEF ClaimLaunch, Attempts
<1>3. CASE CompleteLaunch(m)
  <2> DEFINE j == m.job
             scope == launch[j].config.scope
             target == ResolveTarget(scope, JobRepo[j])
  <2>1. j \in Jobs /\ m.labels = JobLabels[j] /\ launch[j].pc = "claimed"
    BY <1>0, <1>3, LaunchMessage DEF CompleteLaunch
  <2>2. scope \in Scopes /\ JobRepo[j] \in Repositories /\ IsRepoInScope(scope, JobRepo[j])
    BY <1>0, <2>1, ConfigTypes, ConstantTypes DEF Attempts
  <2>3. Covers(target, JobRepo[j])
    BY <2>2, ScopeHasTarget
  <2>4. runner'[j].labels = JobLabels[j] /\ runner'[j].target = target
    BY <1>0, <1>3, <2>1 DEF CompleteLaunch
  <2>5. CanServe(runner'[j], j)
    BY <2>3, <2>4 DEF CanServe
  <2>6. \A k \in Jobs : k # j => runner'[k] = runner[k] /\ launch'[k] = launch[k]
    BY <1>0, <1>3 DEF CompleteLaunch
  <2>7. launch'[j].pc = "done"
    BY <1>0, <1>3, <2>1 DEF CompleteLaunch, Attempts
  <2> HIDE DEF j, scope, target
  <2> QED
    BY <2>5, <2>6, <2>7
<1>4. CASE FailLaunch(m)
  BY <1>0, <1>4 DEF FailLaunch, Attempts
<1>5. CASE TakeTerminate(m)
  <2>1. m.runner \in Jobs
    BY <1>0, <1>5, TerminateMessage DEF TakeTerminate
  <2> QED
    BY <1>0, <1>5, <2>1, StateIsNoFit DEF TakeTerminate
<1> QED
  BY <1>1, <1>2, <1>3, <1>4, <1>5 DEF LaunchStep

LEMMA GithubFits ==
  ASSUME FitInv, NEW j \in Jobs,
         QueueJob(j) \/ Redeliver(j) \/ Assign(j) \/ Finish(j) \/ JanitorReaps(j)
  PROVE  ClaimedInScope' /\ RunnersFit'
<1>0. runner \in [Jobs -> Runners \cup {None}] /\ NamedRunnerExists /\ job \in [Jobs -> JobStates]
  BY DEF FitInv, ServiceInv, TypeOK, JobStates
<1>1. UNCHANGED launch
  BY DEF QueueJob, Redeliver, Assign, Finish, JanitorReaps
<1>2. ASSUME NEW r \in Jobs
      PROVE  runner'[r] = runner[r]
             \/ (runner[r] # None /\ \E s \in {"busy", "spent", "ended"} :
                                       runner'[r] = [runner[r] EXCEPT !.state = s])
  <2>1. CASE QueueJob(j) \/ Redeliver(j)
    BY <2>1 DEF QueueJob, Redeliver
  <2>2. CASE Assign(j)
    BY <1>0, <2>2 DEF Assign
  <2>3. CASE Finish(j)
    BY <1>0, <2>3, ConstantTypes DEF Finish, NamedRunnerExists
  <2>4. CASE JanitorReaps(j)
    BY <1>0, <2>4 DEF JanitorReaps
  <2> QED
    BY <2>1, <2>2, <2>3, <2>4
<1>3. ASSUME NEW r \in Jobs, runner'[r] # None PROVE CanServe(runner'[r], r)
  <2>1. CASE runner'[r] = runner[r]
    BY <1>3, <2>1 DEF FitInv, RunnersFit
  <2>2. CASE runner'[r] # runner[r]
    <3>1. PICK s \in {"busy", "spent", "ended"} : runner'[r] = [runner[r] EXCEPT !.state = s]
      BY <1>2, <2>2
    <3>2. runner[r] \in Runners /\ CanServe(runner[r], r)
      BY <1>0, <1>2, <2>2 DEF FitInv, RunnersFit
    <3> QED
      BY <3>1, <3>2, StateIsNoFit
  <2> QED
    BY <2>1, <2>2
<1> QED
  BY <1>1, <1>3 DEF FitInv, ClaimedInScope, RunnersFit

LEMMA FitInvariant == Spec => []FitInv
<1>1. Init => FitInv
  BY InitServiceInv DEF Init, FitInv, ClaimedInScope, RunnersFit
<1>2. ServiceInv' /\ FitInv /\ [Next]_vars => FitInv'
  <2> SUFFICES ASSUME ServiceInv', FitInv, [Next]_vars PROVE ClaimedInScope' /\ RunnersFit'
    BY DEF FitInv
  <2>1. CASE UNCHANGED <<launch, runner>>
    BY <2>1 DEF FitInv, ClaimedInScope, RunnersFit, CanServe
  <2>2. CASE (\E d \in deliveries : Deliver(d) \/ DeliveryFails(d)) \/ Deploy \/ DeploymentStep
             \/ UNCHANGED vars
    BY <2>1, <2>2
    DEF Deliver, DeliveryFails, Deploy, DeploymentStep, RebuildImage, UpdateFunction, vars
  <2> QED
    BY <2>2, LauncherFits, GithubFits DEF Next
<1> QED
  BY ServiceInvariant, <1>1, <1>2, PTL DEF Spec

\* A claimed launch has a target to register with, so that no missing target
\* leaves its claim behind, and the runner it makes carries the labels of its
\* job and serves the job's repository, whatever was deployed in the meantime.
THEOREM OwnJobFits == Spec => []RunnerFitsItsJob
<1>1. FitInv => RunnerFitsItsJob
  <2> SUFFICES ASSUME FitInv, NEW j \in Jobs, launch[j].pc = "claimed"
               PROVE  ResolveTarget(launch[j].config.scope, JobRepo[j]) # None
    BY DEF FitInv, RunnersFit, RunnerFitsItsJob
  <2>1. launch[j].config.scope \in Scopes /\ JobRepo[j] \in Repositories
    BY ConfigTypes, ConstantTypes DEF FitInv, ServiceInv, TypeOK
  <2> QED
    BY <2>1, ScopeHasTarget DEF FitInv, ClaimedInScope
<1> QED
  BY FitInvariant, <1>1, PTL

-----------------------------------------------------------------------------
(* The cap.                                                                *)

\* Launches under way count before they have a VM: that is what bounds them.
CapInv == ServiceInv /\ Cardinality(Running) + Cardinality(InProgress) < MaxConcurrent + MaxLaunchers

LEMMA FiniteCounts ==
  /\ IsFiniteSet(Running) /\ Cardinality(Running) \in Nat
  /\ IsFiniteSet(InProgress) /\ Cardinality(InProgress) \in Nat
<1>1. Running \in SUBSET Jobs /\ InProgress \in SUBSET Jobs
  BY DEF Running, InProgress
<1> QED
  BY <1>1, JobsAssumption, FS_Subset, FS_CardinalityType

LEMMA OneMore ==
  ASSUME NEW S, IsFiniteSet(S), NEW x
  PROVE  /\ IsFiniteSet(S \cup {x}) /\ Cardinality(S \cup {x}) \in Nat
         /\ Cardinality(S \cup {x}) <= Cardinality(S) + 1
<1>1. /\ IsFiniteSet(S \cup {x})
      /\ Cardinality(S \cup {x}) = IF x \in S THEN Cardinality(S) ELSE Cardinality(S) + 1
  BY FS_AddElement
<1>2. Cardinality(S) \in Nat /\ Cardinality(S \cup {x}) \in Nat
  BY <1>1, FS_CardinalityType
<1> QED
  BY <1>1, <1>2

LEMMA FewerCounts ==
  ASSUME Running' \subseteq Running, InProgress' \subseteq InProgress, CapInv
  PROVE  Cardinality(Running') + Cardinality(InProgress') < MaxConcurrent + MaxLaunchers
<1>1. /\ Cardinality(Running') \in Nat /\ Cardinality(Running') <= Cardinality(Running)
      /\ Cardinality(InProgress') \in Nat /\ Cardinality(InProgress') <= Cardinality(InProgress)
  BY FiniteCounts, FS_Subset, FS_CardinalityType
<1> QED
  BY <1>1, FiniteCounts, ConstantTypes DEF CapInv

LEMMA LauncherCap ==
  ASSUME CapInv, NEW m \in queue, LaunchStep(m) \/ TakeTerminate(m)
  PROVE  Cardinality(Running') + Cardinality(InProgress') < MaxConcurrent + MaxLaunchers
<1>0. launch \in [Jobs -> Attempts] /\ runner \in [Jobs -> Runners \cup {None}] /\ TypeOK
  BY DEF CapInv, ServiceInv, TypeOK, Attempts
<1>1. CASE DropLaunch(m)
  BY <1>1, FewerCounts DEF DropLaunch, Running, InProgress
<1>2. CASE ClaimLaunch(m)
  <2>1. InProgress' \subseteq InProgress \cup {m.job} /\ Running' = Running
    BY <1>0, <1>2 DEF ClaimLaunch, Running, InProgress
  <2>2. Cardinality(InProgress') <= Cardinality(InProgress) + 1 /\ Cardinality(InProgress') \in Nat
    <3>1. IsFiniteSet(InProgress \cup {m.job})
          /\ Cardinality(InProgress \cup {m.job}) \in Nat
          /\ Cardinality(InProgress \cup {m.job}) <= Cardinality(InProgress) + 1
      BY FiniteCounts, OneMore
    <3>2. IsFiniteSet(InProgress') /\ Cardinality(InProgress') <= Cardinality(InProgress \cup {m.job})
      BY <2>1, <3>1, FS_Subset
    <3>3. Cardinality(InProgress') \in Nat
      BY <3>2, FS_CardinalityType
    <3> QED
      BY <3>1, <3>2, <3>3, FiniteCounts
  <2>3. Cardinality(Running) < MaxConcurrent /\ Cardinality(InProgress) < MaxLaunchers
    BY <1>2, FiniteCounts, ConstantTypes DEF ClaimLaunch, AtCapacity
  <2> QED
    BY <2>1, <2>2, <2>3, FiniteCounts, ConstantTypes
<1>3. CASE CompleteLaunch(m)
  <2>1. m.job \in InProgress
    BY <1>0, <1>3, LaunchMessage DEF CompleteLaunch, InProgress
  <2>2. InProgress' \subseteq InProgress \ {m.job} /\ Running' \subseteq Running \cup {m.job}
    BY <1>0, <1>3 DEF CompleteLaunch, Running, InProgress, Attempts
  <2>3. /\ IsFiniteSet(InProgress \ {m.job})
        /\ Cardinality(InProgress \ {m.job}) = Cardinality(InProgress) - 1
    BY <2>1, FiniteCounts, FS_RemoveElement
  <2>4. /\ IsFiniteSet(Running \cup {m.job}) /\ Cardinality(Running \cup {m.job}) \in Nat
        /\ Cardinality(Running \cup {m.job}) <= Cardinality(Running) + 1
    BY FiniteCounts, OneMore
  <2>5. /\ IsFiniteSet(InProgress') /\ Cardinality(InProgress') <= Cardinality(InProgress) - 1
        /\ IsFiniteSet(Running') /\ Cardinality(Running') <= Cardinality(Running \cup {m.job})
    BY <2>2, <2>3, <2>4, FS_Subset
  <2>6. Cardinality(InProgress') \in Nat /\ Cardinality(Running') \in Nat
    BY <2>5, FS_CardinalityType
  <2> QED
    BY <2>4, <2>5, <2>6, FiniteCounts, ConstantTypes DEF CapInv
<1>4. CASE FailLaunch(m)
  BY <1>0, <1>4, FewerCounts DEF FailLaunch, Running, InProgress, Attempts
<1>5. CASE TakeTerminate(m)
  <2>1. m.runner \in Jobs
    BY <1>0, <1>5, TerminateMessage DEF TakeTerminate
  <2>2. Running' \subseteq Running
    BY <1>0, <1>5, <2>1 DEF TakeTerminate, Running, Runners
  <2>3. InProgress' = InProgress
    BY <1>5 DEF TakeTerminate, InProgress
  <2> QED
    BY <2>2, <2>3, FewerCounts
<1> QED
  BY <1>1, <1>2, <1>3, <1>4, <1>5 DEF LaunchStep

LEMMA GithubCap ==
  ASSUME CapInv, NEW j \in Jobs,
         QueueJob(j) \/ Redeliver(j) \/ Assign(j) \/ Finish(j) \/ JanitorReaps(j)
  PROVE  Cardinality(Running') + Cardinality(InProgress') < MaxConcurrent + MaxLaunchers
<1>0. runner \in [Jobs -> Runners \cup {None}]
      /\ NamedRunnerExists /\ RunnerServesOneJob /\ RunningJobIsServed
  BY DEF CapInv, ServiceInv, TypeOK
<1>1. InProgress' = InProgress
  BY DEF QueueJob, Redeliver, Assign, Finish, JanitorReaps, InProgress
<1>2. Running' \subseteq Running
  <2>1. CASE QueueJob(j) \/ Redeliver(j)
    BY <2>1 DEF QueueJob, Redeliver, Running
  <2>2. CASE Assign(j)
    BY <1>0, <2>2 DEF Assign, Running
  <2>3. CASE Finish(j)
    <3>1. \A r \in Jobs : r = job[j].runner => runner[r] # None /\ runner[r].state = "busy"
      BY <1>0, <2>3, ConstantTypes
      DEF Finish, NamedRunnerExists, RunnerServesOneJob, RunningJobIsServed
    <3>2. \A r \in Jobs : r # job[j].runner => runner'[r] = runner[r]
      BY <2>3 DEF Finish
    <3> QED
      BY <3>1, <3>2 DEF Running
  <2>4. CASE JanitorReaps(j)
    BY <1>0, <2>4 DEF JanitorReaps, Running, Runners
  <2> QED
    BY <2>1, <2>2, <2>3, <2>4
<1> QED
  BY <1>1, <1>2, FewerCounts

LEMMA CapInvariant == Spec => []CapInv
<1>1. Init => CapInv
  <2> SUFFICES ASSUME Init PROVE CapInv
    OBVIOUS
  <2>1. Running = {} /\ InProgress = {}
    BY DEF Init, Running, InProgress
  <2> QED
    BY <2>1, InitServiceInv, FS_EmptySet, ConstantTypes DEF CapInv
<1>2. ServiceInv' /\ CapInv /\ [Next]_vars => CapInv'
  <2> SUFFICES ASSUME ServiceInv', CapInv, [Next]_vars
               PROVE  Cardinality(Running') + Cardinality(InProgress') < MaxConcurrent + MaxLaunchers
    BY DEF CapInv
  <2>1. CASE UNCHANGED <<launch, runner>>
    BY <2>1, FewerCounts DEF Running, InProgress
  <2>2. CASE (\E d \in deliveries : Deliver(d) \/ DeliveryFails(d)) \/ Deploy \/ DeploymentStep
             \/ UNCHANGED vars
    BY <2>1, <2>2
    DEF Deliver, DeliveryFails, Deploy, DeploymentStep, RebuildImage, UpdateFunction, vars
  <2> QED
    BY <2>2, LauncherCap, GithubCap DEF Next
<1> QED
  BY ServiceInvariant, <1>1, <1>2, PTL DEF Spec

\* However many invocations read the cap side by side, the VMs that run exceed
\* it by fewer than there may be launches under way.
THEOREM CapHolds == Spec => []OverrunIsBounded
<1>1. CapInv => OverrunIsBounded
  BY FiniteCounts, ConstantTypes DEF CapInv, OverrunIsBounded
<1> QED
  BY CapInvariant, <1>1, PTL

-----------------------------------------------------------------------------
(* Deployments that only narrow the scope lose no accepted job.            *)

\* A repository that a deployment serves, every earlier one served.
NeverWidens ==
  \A i, k \in DOMAIN Configs : i <= k =>
    \A j \in Jobs :
      IsRepoInScope(Configs[k].scope, JobRepo[j]) => IsRepoInScope(Configs[i].scope, JobRepo[j])

\* A function runs with what was deployed last or earlier.
RunsADeployed == \A f \in Handlers : \E i \in DOMAIN Configs : i <= deployed /\ env[f] = Configs[i]

\* Only jobs that exist are announced and accepted.
AnnouncedExists ==
  \A j \in Jobs : j \in accepted \/ Queued(j) \in deliveries => job[j].state # "none"

TrackedInv == ServiceInv /\ RunsADeployed /\ AnnouncedExists /\ AcceptedJobIsTracked

LEMMA WebhookTracks ==
  ASSUME TrackedInv, NEW d \in deliveries, Deliver(d) \/ DeliveryFails(d)
  PROVE  TrackedInv' \/ ~ServiceInv'
<1>1. d.job \in Jobs /\ (d.kind = "queued" => d = Queued(d.job))
  BY DEF TrackedInv, ServiceInv, TypeOK, Queued
<1>2. queue \subseteq queue' /\ deliveries' \subseteq deliveries
      /\ UNCHANGED <<deployed, env, job, launch>>
  BY DEF Deliver, DeliveryFails, deployment
<1>3. \A j \in Jobs :
        j \in accepted' => j \in accepted \/ (Queued(j) \in deliveries /\ Launch(j) \in queue')
  BY <1>1, RouteTypes DEF TrackedInv, ServiceInv, Deliver, DeliveryFails
<1> QED
  BY <1>2, <1>3
  DEF TrackedInv, ServiceInv, TypeOK, RunsADeployed, AnnouncedExists, AcceptedJobIsTracked, InScopeNow

LEMMA LauncherTracks ==
  ASSUME NeverWidens, TrackedInv, NEW m \in queue, LaunchStep(m) \/ TakeTerminate(m)
  PROVE  TrackedInv' \/ ~ServiceInv'
<1>0. launch \in [Jobs -> Attempts] /\ TypeOK /\ accepted \subseteq Jobs
  BY DEF TrackedInv, ServiceInv, TypeOK, Attempts
<1>1. UNCHANGED <<deployed, env, job, deliveries, accepted>>
  BY DEF LaunchStep, DropLaunch, ClaimLaunch, CompleteLaunch, FailLaunch, TakeTerminate,
         deployment, github
<1>2. ASSUME NEW j \in accepted, job[j].state = "queued", InScopeNow(j)
      PROVE  Launch(j) \in queue' \/ launch'[j].pc = "done"
  <2>0. j \in Jobs /\ (Launch(j) \in queue \/ launch[j].pc = "done")
    BY <1>0, <1>2 DEF TrackedInv, AcceptedJobIsTracked
  <2>1. CASE DropLaunch(m)
    <3>1. launch' = launch /\ queue' = queue \ {m} /\ Dropped(m.job)
      BY <2>1 DEF DropLaunch
    <3>2. IsRepoInScope(env.launcher.scope, JobRepo[j])
      <4>1. PICK i \in DOMAIN Configs : i <= deployed /\ env["launcher"] = Configs[i]
        BY DEF TrackedInv, RunsADeployed, Handlers
      <4> QED
        BY <1>0, <1>2, <2>0, <4>1 DEF NeverWidens, InScopeNow, TypeOK
    <3>3. CASE m = Launch(j)
      BY <1>2, <3>1, <3>2, <3>3 DEF Dropped, Cancelled, Launch
    <3> QED
      BY <2>0, <3>1, <3>3
  <2>2. CASE ClaimLaunch(m)
    BY <1>0, <2>0, <2>2 DEF ClaimLaunch, Attempts
  <2>3. CASE CompleteLaunch(m)
    <3>1. m.job \in Jobs /\ m = Launch(m.job)
      BY <1>0, <2>3, LaunchMessage DEF CompleteLaunch
    <3>2. launch'[m.job].pc = "done" /\ \A k \in Jobs : k # m.job => launch'[k] = launch[k]
      BY <1>0, <2>3, <3>1 DEF CompleteLaunch, Attempts
    <3>3. queue' = queue \ {m}
      BY <2>3 DEF CompleteLaunch
    <3> QED
      BY <2>0, <3>1, <3>2, <3>3 DEF Launch
  <2>4. CASE FailLaunch(m)
    BY <1>0, <2>0, <2>4 DEF FailLaunch, Attempts
  <2>5. CASE TakeTerminate(m)
    BY <2>0, <2>5 DEF TakeTerminate, Launch
  <2> QED
    BY <2>1, <2>2, <2>3, <2>4, <2>5 DEF LaunchStep
<1> QED
  BY <1>1, <1>2
  DEF TrackedInv, RunsADeployed, AnnouncedExists, AcceptedJobIsTracked, InScopeNow

LEMMA GithubTracks ==
  ASSUME TrackedInv, NEW j \in Jobs,
         QueueJob(j) \/ Redeliver(j) \/ Assign(j) \/ Finish(j) \/ JanitorReaps(j)
  PROVE  TrackedInv' \/ ~ServiceInv'
<1>0. job \in [Jobs -> JobStates] /\ accepted \subseteq Jobs
  BY DEF TrackedInv, ServiceInv, TypeOK, JobStates
<1>1. UNCHANGED <<deployed, env, accepted, queue, launch>>
  BY DEF QueueJob, Redeliver, Assign, Finish, JanitorReaps, deployment
<1>2. \A k \in Jobs : job'[k].state = job[k].state
                      \/ (k = j /\ job'[j].state \in {"running", "done"})
                      \/ (k = j /\ job[j].state = "none" /\ job'[j].state = "queued")
  BY <1>0 DEF QueueJob, Redeliver, Assign, Finish, JanitorReaps, github, JobStates
<1>3. \A k \in Jobs : Queued(k) \in deliveries' =>
                        Queued(k) \in deliveries \/ (k = j /\ job'[j].state # "none")
  BY <1>0 DEF QueueJob, Redeliver, Assign, Finish, JanitorReaps, github, Queued, Completed, JobStates
<1>4. AnnouncedExists'
  BY <1>1, <1>2, <1>3 DEF TrackedInv, AnnouncedExists
<1>5. AcceptedJobIsTracked'
  BY <1>0, <1>1, <1>2 DEF TrackedInv, AnnouncedExists, AcceptedJobIsTracked, InScopeNow
<1> QED
  BY <1>1, <1>4, <1>5 DEF TrackedInv, RunsADeployed

LEMMA DeploymentTracks ==
  ASSUME NeverWidens, TrackedInv, Deploy \/ DeploymentStep
  PROVE  TrackedInv' \/ ~ServiceInv'
<1>0. deployed \in DOMAIN Configs /\ env \in [Handlers -> Range(Configs)] /\ accepted \subseteq Jobs
  BY DEF TrackedInv, ServiceInv, TypeOK
<1>1. UNCHANGED <<job, deliveries, accepted, queue, launch>>
  BY DEF Deploy, DeploymentStep, RebuildImage, UpdateFunction, github
<1>2. deployed' \in DOMAIN Configs /\ deployed <= deployed' /\ Len(Configs) \in Nat
  BY <1>0, ConfigsAssumption DEF Deploy, DeploymentStep, RebuildImage, UpdateFunction
<1>3. RunsADeployed'
  <2>1. \A f \in Handlers : env'[f] = env[f] \/ env'[f] = Configs[deployed]
    BY <1>0 DEF Deploy, DeploymentStep, RebuildImage, UpdateFunction
  <2>2. DOMAIN Configs \subseteq Int
    BY ConfigsAssumption
  <2>3. ASSUME NEW f \in Handlers PROVE \E i \in DOMAIN Configs : i <= deployed' /\ env'[f] = Configs[i]
    <3>1. PICK i \in DOMAIN Configs : i <= deployed /\ env[f] = Configs[i]
      BY DEF TrackedInv, RunsADeployed
    <3> QED
      BY <1>0, <1>2, <2>1, <2>2, <3>1
  <2> QED
    BY <2>3 DEF RunsADeployed
<1>4. \A j \in Jobs : InScopeNow(j)' => InScopeNow(j)
  BY <1>0, <1>2 DEF NeverWidens, InScopeNow
<1> QED
  BY <1>0, <1>1, <1>3, <1>4 DEF TrackedInv, AnnouncedExists, AcceptedJobIsTracked

\* When no deployment brings a repository back into scope, a job whose delivery
\* was answered "queued" stays tracked until it is launched or no longer waits:
\* whatever is redelivered, rejected at capacity, failed and deployed.
THEOREM AcceptedJobsAreTracked ==
  ASSUME NeverWidens
  PROVE  Spec => []AcceptedJobIsTracked
<1>1. Init => TrackedInv
  BY InitServiceInv, FirstConfig
  DEF Init, TrackedInv, RunsADeployed, AnnouncedExists, AcceptedJobIsTracked, Handlers
<1>2. ServiceInv' /\ TrackedInv /\ [Next]_vars => TrackedInv'
  <2>1. CASE UNCHANGED vars
    BY <2>1 DEF vars, TrackedInv, RunsADeployed, AnnouncedExists, AcceptedJobIsTracked, InScopeNow
  <2> QED
    BY NeverWidens, <2>1, WebhookTracks, LauncherTracks, GithubTracks, DeploymentTracks DEF Next
<1>3. TrackedInv => AcceptedJobIsTracked
  BY DEF TrackedInv
<1> QED
  BY ServiceInvariant, <1>1, <1>2, <1>3, PTL DEF Spec

-----------------------------------------------------------------------------
(* While classes keep their indices, a job gets a VM of its size.          *)

\* No deployment puts another class at the index of one.
IndicesKept ==
  \A i, k \in DOMAIN Configs :
    \A c \in DOMAIN Configs[i].classes \cap DOMAIN Configs[k].classes :
      Configs[i].classes[c] = Configs[k].classes[c]

AllAscending == \A i \in DOMAIN Configs : Ascending(Configs[i].classes)

\* An image is built as the class some deployment has at its index.
ImagesAreClasses ==
  \A c \in Indices : image[c] # None =>
    \E i \in DOMAIN Configs : c \in DOMAIN Configs[i].classes /\ image[c] = Configs[i].classes[c]

\* The runner of a job carries its labels.
AssignedCanServe == \A j \in Jobs : job[j].runner # None => CanServe(runner[job[j].runner], j)

SizeInv == ImagesAreClasses /\ BootsTheMatchedClass /\ AssignedCanServe

Booted(r) == r.class = r.config.classes[ImageFor(r.config, r.labels)]

LEMMA StateIsNoClass ==
  ASSUME NEW r \in Runners, NEW s
  PROVE  Booted([r EXCEPT !.state = s]) <=> Booted(r)
  BY DEF Runners, Booted

\* The image is that of the index the launch matched.
LEMMA ImageIndex ==
  ASSUME NEW config \in Range(Configs), NEW labels
  PROVE  ImageFor(config, labels) \in DOMAIN config.classes
<1>1. config.classes \in Seq(Labels) /\ 1 \in DOMAIN config.classes
  BY ConfigTypes
<1>2. DefaultImageArn(config) \in DOMAIN config.classes
  BY <1>1 DEF DefaultImageArn, Range
<1>3. ASSUME MatchSizeClass(config.classes, labels) # 0
      PROVE  MatchSizeClass(config.classes, labels) \in DOMAIN config.classes
  <2>1. Requested(config.classes, labels) # {}
    BY <1>3 DEF MatchSizeClass
  <2> QED
    BY <1>1, <2>1, MatchIsRequested
<1> QED
  BY <1>2, <1>3 DEF ImageFor

LEMMA ImageSteps ==
  ASSUME TypeOK, ImagesAreClasses, [Next]_vars
  PROVE  ImagesAreClasses'
<1>1. ASSUME NEW c \in Indices, RebuildImage(c)
      PROVE  ImagesAreClasses'
  <2> DEFINE wanted == ImagesOf(Configs[deployed])[c]
  <2>1. deployed \in DOMAIN Configs /\ image' = [image EXCEPT ![c] = wanted]
    BY <1>1 DEF RebuildImage, TypeOK
  <2>2. wanted # None =>
          c \in DOMAIN Configs[deployed].classes /\ wanted = Configs[deployed].classes[c]
    BY DEF ImagesOf
  <2> HIDE DEF wanted
  <2> QED
    BY <2>1, <2>2 DEF ImagesAreClasses, TypeOK
<1>2. CASE UNCHANGED image
  BY <1>2 DEF ImagesAreClasses
<1>3. CASE \E f \in Handlers : UpdateFunction(f)
  BY <1>2, <1>3 DEF UpdateFunction
<1> QED
  BY <1>1, <1>2, <1>3
  DEF Next, vars, Deliver, DeliveryFails, LaunchStep, DropLaunch, ClaimLaunch, CompleteLaunch,
      FailLaunch, TakeTerminate, QueueJob, Redeliver, Assign, Finish, JanitorReaps, Deploy,
      DeploymentStep, deployment

\* A runner after a step is one there was, but for its state, or one just launched.
LEMMA RunnerSteps ==
  ASSUME ServiceInv, [Next]_vars, NEW r \in Jobs, runner'[r] # None
  PROVE  \/ runner[r] # None /\ runner'[r] = runner[r]
         \/ runner[r] # None /\ \E s \in {"busy", "spent", "ended"} :
                                   runner'[r] = [runner[r] EXCEPT !.state = s]
         \/ /\ runner[r] = None
            /\ \E m \in queue : m.job = r /\ CompleteLaunch(m)
<1>0. /\ runner \in [Jobs -> Runners \cup {None}] /\ NamedRunnerExists /\ job \in [Jobs -> JobStates]
      /\ TypeOK /\ LaunchMakesRunner
  BY DEF ServiceInv, TypeOK, JobStates
<1>1. CASE UNCHANGED runner
  BY <1>1
<1>2. ASSUME NEW m \in queue, CompleteLaunch(m) PROVE
         runner'[r] = runner[r] \/ (r = m.job /\ runner[r] = None)
  BY <1>0, <1>2, LaunchMessage DEF CompleteLaunch, LaunchMakesRunner
<1>3. ASSUME NEW m \in queue, TakeTerminate(m) PROVE
         runner'[r] = runner[r] \/ (runner[r] # None /\ runner'[r] = [runner[r] EXCEPT !.state = "ended"])
  BY <1>0, <1>3, TerminateMessage DEF TakeTerminate
<1>4. ASSUME NEW j \in Jobs, Assign(j) \/ Finish(j) \/ JanitorReaps(j) PROVE
         runner'[r] = runner[r]
         \/ (runner[r] # None /\ \E s \in {"busy", "spent", "ended"} :
                                   runner'[r] = [runner[r] EXCEPT !.state = s])
  <2>1. CASE Assign(j)
    BY <1>0, <2>1 DEF Assign
  <2>2. CASE Finish(j)
    BY <1>0, <2>2, ConstantTypes DEF Finish, NamedRunnerExists
  <2>3. CASE JanitorReaps(j)
    BY <1>0, <2>3 DEF JanitorReaps
  <2> QED
    BY <1>4, <2>1, <2>2, <2>3
<1>5. CASE \/ \E d \in deliveries : Deliver(d) \/ DeliveryFails(d)
           \/ \E m \in queue : DropLaunch(m) \/ ClaimLaunch(m) \/ FailLaunch(m)
           \/ \E j \in Jobs : QueueJob(j) \/ Redeliver(j)
           \/ Deploy \/ DeploymentStep \/ UNCHANGED vars
  BY <1>1, <1>5
  DEF Deliver, DeliveryFails, DropLaunch, ClaimLaunch, FailLaunch, QueueJob, Redeliver, Deploy,
      DeploymentStep, RebuildImage, UpdateFunction, vars
<1> QED
  BY <1>2, <1>3, <1>4, <1>5 DEF Next, LaunchStep

LEMMA BootSteps ==
  ASSUME IndicesKept, ServiceInv, ImagesAreClasses, BootsTheMatchedClass, [Next]_vars
  PROVE  BootsTheMatchedClass'
<1> SUFFICES ASSUME NEW r \in Jobs, runner'[r] # None PROVE Booted(runner'[r])
  BY DEF BootsTheMatchedClass, Booted
<1>1. runner[r] # None => runner[r] \in Runners /\ Booted(runner[r])
  BY DEF ServiceInv, TypeOK, BootsTheMatchedClass, Booted
<1>2. CASE runner[r] # None /\ runner'[r] = runner[r]
  BY <1>1, <1>2
<1>3. CASE runner[r] # None /\ \E s \in {"busy", "spent", "ended"} :
                                  runner'[r] = [runner[r] EXCEPT !.state = s]
  <2>1. PICK s \in {"busy", "spent", "ended"} : runner'[r] = [runner[r] EXCEPT !.state = s]
    BY <1>3
  <2> QED
    BY <1>1, <1>3, <2>1, StateIsNoClass
<1>4. ASSUME NEW m \in queue, m.job = r, CompleteLaunch(m) PROVE Booted(runner'[r])
  <2> DEFINE config == launch[r].config
             index == ImageFor(config, m.labels)
  <2>1. config \in Range(Configs)
    BY DEF ServiceInv, TypeOK
  <2>2. index \in DOMAIN config.classes /\ index \in Indices
    BY <2>1, ImageIndex, ImageIsOfAClass
  <2>3. /\ image[index] # None
        /\ runner'[r].labels = m.labels /\ runner'[r].config = config
        /\ runner'[r].class = image[index]
    BY <1>4 DEF CompleteLaunch, ServiceInv, TypeOK
  <2>4. image[index] = config.classes[index]
    <3>1. PICK k \in DOMAIN Configs : config = Configs[k]
      BY <2>1 DEF Range
    <3>2. PICK i \in DOMAIN Configs :
            index \in DOMAIN Configs[i].classes /\ image[index] = Configs[i].classes[index]
      BY <2>2, <2>3 DEF ImagesAreClasses
    <3> HIDE DEF index, config
    <3> QED
      BY <2>2, <3>1, <3>2 DEF IndicesKept
  <2> HIDE DEF config
  <2> QED
    BY <2>3, <2>4 DEF Booted
<1> QED
  BY <1>2, <1>3, <1>4, RunnerSteps

LEMMA AssignSteps ==
  ASSUME ServiceInv, ServiceInv', AssignedCanServe, [Next]_vars
  PROVE  AssignedCanServe'
<1>0. /\ runner \in [Jobs -> Runners \cup {None}] /\ job \in [Jobs -> JobStates] /\ NamedRunnerExists
  BY DEF ServiceInv, TypeOK, JobStates
<1>1. ASSUME NEW r \in Jobs, NEW k \in Jobs, runner[r] # None, CanServe(runner[r], k)
      PROVE  runner'[r] = None \/ CanServe(runner'[r], k)
  <2>1. runner[r] \in Runners
    BY <1>0, <1>1
  <2>2. \/ runner'[r] \in {None, runner[r]}
        \/ \E s \in {"busy", "spent", "ended"} : runner'[r] = [runner[r] EXCEPT !.state = s]
    BY <1>1, RunnerSteps
  <2>3. ASSUME NEW s, runner'[r] = [runner[r] EXCEPT !.state = s] PROVE CanServe(runner'[r], k)
    BY <1>1, <2>1, <2>3, StateIsNoFit
  <2> QED
    BY <1>1, <2>2, <2>3
<1>2. ASSUME NEW k \in Jobs, job'[k].runner # None
      PROVE  /\ job'[k].runner \in Jobs /\ runner[job'[k].runner] # None
             /\ CanServe(runner[job'[k].runner], k)
  <2>1. CASE job'[k].runner = job[k].runner
    BY <1>0, <1>2, <2>1 DEF JobStates, NamedRunnerExists, AssignedCanServe
  <2>2. ASSUME NEW j \in Jobs, Assign(j)
        PROVE  \/ job'[k].runner = job[k].runner
               \/ job'[k].runner \in Jobs /\ runner[job'[k].runner] # None
                    /\ CanServe(runner[job'[k].runner], k)
    <3>1. PICK r \in Jobs : /\ runner[r] # None /\ CanServe(runner[r], j)
                           /\ job' = [job EXCEPT ![j] = [state |-> "running", runner |-> r]]
      BY <2>2 DEF Assign
    <3>2. job'[k].runner = IF k = j THEN r ELSE job[k].runner
      BY <1>0, <3>1
    <3> QED
      BY <3>1, <3>2
  <2>3. CASE ~\E j \in Jobs : Assign(j)
    <3>1. CASE \E j \in Jobs : QueueJob(j) \/ Finish(j)
      BY <1>0, <2>1, <3>1 DEF QueueJob, Finish, JobStates
    <3>2. CASE UNCHANGED job
      BY <2>1, <3>2
    <3>3. CASE DeploymentStep
      BY <3>2, <3>3 DEF DeploymentStep, RebuildImage, UpdateFunction, github
    <3> QED
      BY <2>3, <3>1, <3>2, <3>3
      DEF Next, vars, github, Deliver, DeliveryFails, LaunchStep, DropLaunch, ClaimLaunch,
          CompleteLaunch, FailLaunch, TakeTerminate, Redeliver, JanitorReaps, Deploy
  <2> QED
    BY <2>1, <2>2, <2>3
<1>3. \A k \in Jobs : job'[k].runner # None => runner'[job'[k].runner] # None
  BY DEF ServiceInv, NamedRunnerExists
<1> QED
  BY <1>1, <1>2, <1>3 DEF AssignedCanServe

\* The VM of a launch is built as the class the launch matched, and a job whose
\* runner serves it gets no VM smaller than the classes it asks for: as long as
\* no deployment moves a class to another index, and classes are declared
\* smallest first ("largest match wins", size-class-match.ts).
THEOREM JobsGetTheirSize ==
  ASSUME IndicesKept, AllAscending
  PROVE  Spec => [](BootsTheMatchedClass /\ JobGetsItsSize)
<1>1. Init => SizeInv
  <2>1. Init => ImagesAreClasses
    BY FirstConfig DEF Init, ImagesAreClasses, ImagesOf
  <2> QED
    BY <2>1 DEF Init, SizeInv, BootsTheMatchedClass, AssignedCanServe
<1>2. ServiceInv /\ ServiceInv' /\ SizeInv /\ [Next]_vars => SizeInv'
  BY IndicesKept, ImageSteps, BootSteps, AssignSteps DEF SizeInv, ServiceInv
<1>3. ServiceInv /\ SizeInv => JobGetsItsSize
  <2> SUFFICES ASSUME ServiceInv, SizeInv, NEW j \in Jobs, NEW r \in Jobs,
                      job[j] = [state |-> "running", runner |-> r],
                      NEW label \in JobLabels[j] \cap Range(runner[r].config.classes)
               PROVE  Size[label] <= Size[runner[r].class]
    BY DEF JobGetsItsSize
  <2> DEFINE classes == runner[r].config.classes
             labels == runner[r].labels
  <2>1. runner[r] # None /\ runner[r] \in Runners /\ CanServe(runner[r], j) /\ Booted(runner[r])
    BY ConstantTypes
    DEF SizeInv, ServiceInv, TypeOK, NamedRunnerExists, AssignedCanServe, BootsTheMatchedClass, Booted
  <2>2. runner[r].config \in Range(Configs) /\ label \in labels \cap Range(classes)
    BY <2>1 DEF Runners, CanServe
  <2>3. classes \in Seq(Labels)
    BY <2>2, ConfigTypes
  <2>4. Ascending(classes)
    BY <2>2 DEF AllAscending, Range
  <2>5. ImageFor(runner[r].config, labels) = MatchSizeClass(classes, labels)
    <3>1. Requested(classes, labels) # {}
      BY <2>2 DEF Requested, Range
    <3>2. MatchSizeClass(classes, labels) # 0
      BY <2>3, <3>1, MatchIsRequested
    <3> QED
      BY <3>2 DEF ImageFor
  <2>6. runner[r].class = classes[MatchSizeClass(classes, labels)]
    BY <2>1, <2>5 DEF Booted
  <2> HIDE DEF classes, labels
  <2> QED
    BY <2>2, <2>3, <2>4, <2>6, LargestMatchWins
<1>4. SizeInv => BootsTheMatchedClass
  BY DEF SizeInv
<1> QED
  BY ServiceInvariant, <1>1, <1>2, <1>3, <1>4, PTL DEF Spec

=============================================================================
