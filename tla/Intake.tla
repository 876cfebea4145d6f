-------------------------------- MODULE Intake --------------------------------
(***************************************************************************)
(* A job's way through a runner set: GitHub's delivery, the webhook        *)
(* function (webhook.ts), the job queue, the launcher's choice of class,   *)
(* target and labels under its concurrency cap (launcher.ts), the runner   *)
(* GitHub then assigns, and the delivery that ends its VM; while a         *)
(* deployment replaces the images and the configuration of one function    *)
(* after the other.  How a claim is fought for and how a launch fails half *)
(* way are in Launcher; what becomes of a launch that came to nothing, in  *)
(* Recovery.                                                               *)
(***************************************************************************)
EXTENDS RunnerSet, FiniteSets

CONSTANTS
  Jobs,
  JobRepo,        \* the repository of each job, as [owner, name]
  JobLabels,      \* what its runs-on requests
  Configs,        \* the configurations, in the order they are deployed
  MaxConcurrent,  \* MAX_CONCURRENT
  MaxLaunchers,   \* bound: launches in progress at one time
  MaxFaults       \* bound: deliveries lost or repeated, and failing calls

ASSUME JobsAssumption ==
  /\ JobRepo \in [Jobs -> Repositories] /\ JobLabels \in [Jobs -> SUBSET Labels]
  /\ IsFiniteSet(Jobs) /\ None \notin Jobs
\* No class is registered twice, so that there is an index for each of them.
ASSUME ConfigsAssumption ==
  /\ IsFiniteSet(Labels)
  /\ Configs \in Seq([scope : Scopes, classes : Seq(Labels)]) /\ Configs # <<>>
  /\ \A i \in DOMAIN Configs :
       Synthesizes(Configs[i].classes) /\ Len(Configs[i].classes) <= Cardinality(Labels)
ASSUME BoundsAssumption ==
  MaxConcurrent \in Nat \ {0} /\ MaxLaunchers \in Nat \ {0} /\ MaxFaults \in Nat

VARIABLES
  deployed,    \* the configuration last deployed, an index of Configs
  image,       \* the class each image, by index, is built as
  env,         \* the configuration each function runs with
  job,         \* GitHub's view: the job's state, and the runner that took it
  deliveries,  \* deliveries on their way
  accepted,    \* jobs whose delivery was answered "queued"
  queue,       \* the job queue
  launch,      \* the launch of each job: where it is, and the configuration it read
  runner,      \* the runner launched for each job, None before
  faults

vars == <<deployed, image, env, job, deliveries, accepted, queue, launch, runner, faults>>
github == <<job, deliveries>>
deployment == <<deployed, image, env>>

Handlers == {"webhook", "launcher"}
Indices == 1..Cardinality(Labels)

\* The image of a class is named after the class's index.
ImagesOf(config) == [i \in Indices |-> IF i \in DOMAIN config.classes THEN config.classes[i] ELSE None]

Queued(j) == [kind |-> "queued", job |-> j]
Completed(j) == [kind |-> "completed", job |-> j]
Launch(j) == [kind |-> "launch", job |-> j, labels |-> JobLabels[j]]
Terminate(r) == [kind |-> "terminate", runner |-> r]

\* A runner: what it was registered with and booted from, and what it does.
Runners == [labels : SUBSET Labels, target : Targets, class : Labels, config : Range(Configs),
            state : {"idle", "busy", "spent", "ended"}]

ASSUME RunnersAssumption == None \notin Runners

NoFault == UNCHANGED faults
Fault == faults < MaxFaults /\ faults' = faults + 1

-----------------------------------------------------------------------------
Init ==
  /\ deployed = 1 /\ image = ImagesOf(Configs[1]) /\ env = [f \in Handlers |-> Configs[1]]
  /\ job = [j \in Jobs |-> [state |-> "none", runner |-> None]]
  /\ deliveries = {} /\ accepted = {} /\ queue = {}
  /\ launch = [j \in Jobs |-> [pc |-> "idle", config |-> Configs[1]]]
  /\ runner = [j \in Jobs |-> None]
  /\ faults = 0

-----------------------------------------------------------------------------
(* The webhook (handler).                                                  *)

RequestsAClass(config, j) == \E label \in JobLabels[j] : label \in Range(config.classes)

\* Mutant: the runner's name is not checked.
RouteUnnamed(config, d) ==
  CASE d.kind = "queued" /\ IsRepoInScope(config.scope, JobRepo[d.job]) /\ RequestsAClass(config, d.job)
         -> Launch(d.job)
    [] d.kind = "completed" -> Terminate(job[d.job].runner)
    [] OTHER -> None

\* Mutant: the VM launched for the job goes, not the one whose runner served it.
RouteByJob(config, d) ==
  CASE d.kind = "queued" /\ IsRepoInScope(config.scope, JobRepo[d.job]) /\ RequestsAClass(config, d.job)
         -> Launch(d.job)
    [] d.kind = "completed" -> Terminate(d.job)
    [] OTHER -> None

\* The message a delivery asks for; None when it is ignored.
Route(config, d) ==
  CASE d.kind = "queued" /\ IsRepoInScope(config.scope, JobRepo[d.job]) /\ RequestsAClass(config, d.job)
         -> Launch(d.job)
    [] d.kind = "completed" /\ job[d.job].runner # None -> Terminate(job[d.job].runner)
    [] OTHER -> None

Deliver(d) ==
  LET m == Route(env.webhook, d) IN
  /\ d \in deliveries /\ deliveries' = deliveries \ {d}
  /\ queue' = IF m = None THEN queue ELSE queue \cup {m}
  /\ accepted' = IF m # None /\ d.kind = "queued" THEN accepted \cup {d.job} ELSE accepted
  /\ NoFault /\ UNCHANGED <<deployment, job, launch, runner>>

\* Mutant: an error of the queue is logged and the delivery answered all the same.
DeliverySwallows(d) ==
  /\ d \in deliveries /\ deliveries' = deliveries \ {d}
  /\ accepted' = IF d.kind = "queued" THEN accepted \cup {d.job} ELSE accepted
  /\ Fault /\ UNCHANGED <<deployment, job, queue, launch, runner>>

\* The delivery never arrives; it is refused, its signature having been checked
\* against a webhook secret that is out of date; the secret cannot be read; the
\* message cannot be sent, or it is sent and the answer is lost.
DeliveryFails(d) ==
  LET m == Route(env.webhook, d) IN
  /\ d \in deliveries /\ deliveries' = deliveries \ {d}
  /\ UNCHANGED queue \/ (m # None /\ queue' = queue \cup {m})
  /\ Fault /\ UNCHANGED <<deployment, job, accepted, launch, runner>>

-----------------------------------------------------------------------------
(* The launcher (processRecord, handleLaunch, handleTerminate).            *)

\* skipCancelledJob: over, and no runner served it.
Cancelled(j) == job[j].state = "done" /\ job[j].runner = None

Dropped(j) ==
  \/ ~IsRepoInScope(env.launcher.scope, JobRepo[j])
  \/ Cancelled(j)
  \/ launch[j].pc = "done"

\* A message that is being handled is hidden from other invocations.
DropLaunch(m) ==
  /\ m \in queue /\ m.kind = "launch" /\ launch[m.job].pc # "claimed" /\ Dropped(m.job)
  /\ queue' = queue \ {m}
  /\ NoFault /\ UNCHANGED <<deployment, github, accepted, launch, runner>>

\* Mutant: VMs that have ended count.
EverRan == {r \in Jobs : runner[r] # None}

Running == {r \in Jobs : runner[r] # None /\ runner[r].state # "ended"}
InProgress == {j \in Jobs : launch[j].pc = "claimed"}

\* Mutant: one VM too many.
AtCapacityLate == Cardinality(Running) > MaxConcurrent

AtCapacity == Cardinality(Running) >= MaxConcurrent

\* At capacity the message goes back to the queue; a job whose state cannot be
\* read counts as waiting.
ClaimLaunch(m) ==
  LET j == m.job IN
  /\ m \in queue /\ m.kind = "launch"
  /\ IsRepoInScope(env.launcher.scope, JobRepo[j])
  /\ IF Cancelled(j) THEN Fault ELSE NoFault
  /\ ~AtCapacity /\ Cardinality(InProgress) < MaxLaunchers
  /\ launch[j].pc = "idle"
  /\ launch' = [launch EXCEPT ![j] = [pc |-> "claimed", config |-> env.launcher]]
  /\ UNCHANGED <<deployment, github, accepted, queue, runner>>

\* resolveImageArn: the class that serves the labels, else the default image.
ImageFor(config, labels) ==
  IF MatchSizeClass(config.classes, labels) = 0 THEN DefaultImageArn(config)
  ELSE MatchSizeClass(config.classes, labels)

\* The runner is registered with every label of the message, and a VM booted
\* for it, from whatever its image is built as by now: RunMicrovm names no version.
CompleteLaunch(m) ==
  LET j == m.job
      config == launch[j].config
      class == image[ImageFor(config, m.labels)]
      target == ResolveTarget(config.scope, JobRepo[j])
  IN
  /\ m \in queue /\ m.kind = "launch" /\ launch[j].pc = "claimed"
  /\ target # None /\ class # None
  /\ runner' = [runner EXCEPT ![j] = [labels |-> m.labels, target |-> target, class |-> class,
                                      config |-> config, state |-> "idle"]]
  /\ launch' = [launch EXCEPT ![j].pc = "done"]
  /\ queue' = queue \ {m}
  /\ NoFault /\ UNCHANGED <<deployment, github, accepted>>

\* The claim is released and the message comes back.  An error outside the
\* part that releases it, such as a missing target, leaves the claim behind.
FailLaunch(m) ==
  LET j == m.job config == launch[j].config IN
  /\ m \in queue /\ m.kind = "launch" /\ launch[j].pc = "claimed"
  /\ ResolveTarget(config.scope, JobRepo[j]) # None
  /\ IF image[ImageFor(config, m.labels)] = None THEN NoFault ELSE Fault
  /\ launch' = [launch EXCEPT ![j].pc = "idle"]
  /\ UNCHANGED <<deployment, github, accepted, queue, runner>>

\* The VM that carries the runner named by the message ends.
TakeTerminate(m) ==
  /\ m \in queue /\ m.kind = "terminate" /\ queue' = queue \ {m}
  /\ runner' = IF runner[m.runner] = None THEN runner
               ELSE [runner EXCEPT ![m.runner].state = "ended"]
  /\ NoFault /\ UNCHANGED <<deployment, github, accepted, launch>>

-----------------------------------------------------------------------------
(* GitHub, and the janitor as far as the VMs go.                           *)

QueueJob(j) ==
  /\ job[j].state = "none"
  /\ job' = [job EXCEPT ![j].state = "queued"]
  /\ deliveries' = deliveries \cup {Queued(j)}
  /\ NoFault /\ UNCHANGED <<deployment, accepted, queue, launch, runner>>

\* A delivery is repeated.
Redeliver(j) ==
  /\ job[j].state # "none" /\ Queued(j) \notin deliveries /\ Fault
  /\ deliveries' = deliveries \cup {Queued(j)}
  /\ UNCHANGED <<deployment, job, accepted, queue, launch, runner>>

CanServe(r, j) == JobLabels[j] \subseteq r.labels /\ Covers(r.target, JobRepo[j])

\* Runners are a pool: any idle one that carries the labels may take the job.
Assign(j) ==
  /\ job[j].state = "queued"
  /\ \E r \in Jobs :
       /\ runner[r] # None /\ runner[r].state = "idle" /\ CanServe(runner[r], j)
       /\ job' = [job EXCEPT ![j] = [state |-> "running", runner |-> r]]
       /\ runner' = [runner EXCEPT ![r].state = "busy"]
  /\ NoFault /\ UNCHANGED <<deployment, deliveries, accepted, queue, launch>>

\* The job is over; one cancelled while queued names no runner.
Finish(j) ==
  /\ job[j].state \in {"queued", "running"}
  /\ job' = [job EXCEPT ![j].state = "done"]
  /\ runner' = [r \in Jobs |-> IF r = job[j].runner THEN [runner[r] EXCEPT !.state = "spent"]
                               ELSE runner[r]]
  /\ deliveries' = deliveries \cup {Completed(j)}
  /\ NoFault /\ UNCHANGED <<deployment, accepted, queue, launch>>

\* A VM whose runner is gone, or has been idle past its grace period.
JanitorReaps(r) ==
  /\ runner[r] # None /\ runner[r].state \in {"idle", "spent"}
  /\ runner' = [runner EXCEPT ![r].state = "ended"]
  /\ NoFault /\ UNCHANGED <<deployment, github, accepted, queue, launch>>

-----------------------------------------------------------------------------
(* Deployments: images first, then the functions that refer to them, and   *)
(* in the end the images without a class go.                               *)

Settled == \A f \in Handlers : env[f] = Configs[deployed]

Deploy ==
  /\ deployed < Len(Configs) /\ deployed' = deployed + 1
  /\ Settled /\ image = ImagesOf(Configs[deployed])
  /\ UNCHANGED <<image, env, github, accepted, queue, launch, runner, faults>>

\* An image keeps its name and is rebuilt in place.
RebuildImage(i) ==
  LET wanted == ImagesOf(Configs[deployed])[i] IN
  /\ image[i] # wanted /\ (wanted # None \/ Settled)
  /\ image' = [image EXCEPT ![i] = wanted]
  /\ UNCHANGED <<deployed, env, github, accepted, queue, launch, runner, faults>>

\* The launcher's configuration refers to the images; the webhook's to none.
UpdateFunction(f) ==
  LET wanted == ImagesOf(Configs[deployed]) IN
  /\ env[f] # Configs[deployed]
  /\ f = "launcher" => \A i \in Indices : wanted[i] # None => image[i] = wanted[i]
  /\ env' = [env EXCEPT ![f] = Configs[deployed]]
  /\ UNCHANGED <<deployed, image, github, accepted, queue, launch, runner, faults>>

-----------------------------------------------------------------------------
LaunchStep(m) == DropLaunch(m) \/ ClaimLaunch(m) \/ CompleteLaunch(m) \/ FailLaunch(m)
DeploymentStep == (\E i \in Indices : RebuildImage(i)) \/ (\E f \in Handlers : UpdateFunction(f))

Next ==
  \/ \E d \in deliveries : Deliver(d) \/ DeliveryFails(d)
  \/ \E m \in queue : LaunchStep(m) \/ TakeTerminate(m)
  \/ \E j \in Jobs : QueueJob(j) \/ Redeliver(j) \/ Assign(j) \/ Finish(j) \/ JanitorReaps(j)
  \/ Deploy \/ DeploymentStep

Spec == Init /\ [][Next]_vars

\* The queue redrives each message, a deployment ends, jobs have a longest
\* duration and the janitor runs on a schedule.
Fairness ==
  /\ \A j \in Jobs : WF_vars(LaunchStep(Launch(j))) /\ WF_vars(JanitorReaps(j))
                     /\ WF_vars(job[j].state = "running" /\ Finish(j))
  /\ WF_vars(DeploymentStep)

FairSpec == Spec /\ Fairness

-----------------------------------------------------------------------------
(* Properties.                                                             *)

States == {"none", "queued", "running", "done"}

\* The functions' state keeps its types.
TypeOK ==
  /\ deployed \in DOMAIN Configs
  /\ image \in [Indices -> Labels \cup {None}]
  /\ env \in [Handlers -> Range(Configs)]
  /\ job \in [Jobs -> [state : States, runner : Jobs \cup {None}]]
  /\ deliveries \subseteq [kind : {"queued", "completed"}, job : Jobs]
  /\ accepted \subseteq Jobs
  /\ queue \subseteq {Launch(j) : j \in Jobs} \cup {Terminate(r) : r \in Jobs}
  /\ launch \in [Jobs -> [pc : {"idle", "claimed", "done"}, config : Range(Configs)]]
  /\ runner \in [Jobs -> Runners \cup {None}]
  /\ faults \in 0..MaxFaults

InScopeNow(j) == IsRepoInScope(Configs[deployed].scope, JobRepo[j])

\* A job GitHub was told is queued has its message on the queue or its launch
\* under way, as long as the runner set serves its repository and it waits.
AcceptedJobIsTracked ==
  \A j \in accepted :
    job[j].state = "queued" /\ InScopeNow(j) => Launch(j) \in queue \/ launch[j].pc = "done"

\* And its launch does get done, however often it is rejected at capacity and
\* whatever is deployed meanwhile, unless it no longer has to be.
AcceptedJobIsLaunched ==
  \A j \in Jobs :
    j \in accepted /\ job[j].state = "queued"
      ~> launch[j].pc = "done" \/ job[j].state # "queued" \/ ~InScopeNow(j)

\* "Largest match wins" (size-class-match.ts), whosever VM the job gets, runners
\* being a pool: no class it asks for is larger than the VM.
JobGetsItsSize ==
  \A j, r \in Jobs :
    job[j] = [state |-> "running", runner |-> r] =>
      \A label \in JobLabels[j] \cap Range(runner[r].config.classes) :
        Size[label] <= Size[runner[r].class]

\* A launched runner can take the job it was launched for, and a claimed launch
\* has a target to register its runner with: the claim of one that has none is
\* never released.
RunnerFitsItsJob ==
  \A j \in Jobs :
    /\ runner[j] # None => CanServe(runner[j], j)
    /\ launch[j].pc = "claimed" => ResolveTarget(launch[j].config.scope, JobRepo[j]) # None

\* No delivery about one job ends the VM another job runs on.
RunningJobKeepsVm == \A j, r \in Jobs : job[j] = [state |-> "running", runner |-> r] => r \in Running

\* The cap is read, not reserved: launches that read it side by side overrun
\* it, by no more than the launches that were under way.
OverrunIsBounded == Cardinality(Running) < MaxConcurrent + MaxLaunchers

\* The VM of a launch is built as the class the launch matched ("so a pin would
\* add nothing", microvm-client.ts).  Index shifts between deployments break it.
BootsTheMatchedClass ==
  \A r \in Jobs :
    runner[r] # None =>
      LET config == runner[r].config IN
      runner[r].class = config.classes[ImageFor(config, runner[r].labels)]

=============================================================================
