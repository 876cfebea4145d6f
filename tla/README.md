# Formal models of cdk-github-microvm-runners

A runner set turns GitHub `workflow_job` webhooks into single-use self-hosted runners, each in a MicroVM of its own.
This directory holds TLA+ models of its run-time part, the configurations that model-check them with TLC, and proofs
checked by TLAPS. Paths are relative to the repository; "launcher.ts" stands for `src/handlers/launcher.ts` and so on.

    tlc -workers 2 -config LauncherCold.cfg MCLauncher      # any run: PROJECT.json lists module and cfg
    tlapm LauncherVms_proofs.tla                            # any of the *_proofs modules

## 1. Inventory

### The system's parts

| Part | Code | State it keeps | Operations |
|---|---|---|---|
| Webhook Lambda | `webhook.ts`, `shared/runner-set-config.ts`, `shared/size-class-match.ts` | none | verify, filter by scope and labels, send `launch` / `terminate` to SQS |
| Launcher Lambda | `launcher.ts`, `shared/launch-params.ts`, `shared/warm-claim.ts` | job claims, mapping rows, warm claims in the runner table | `handleLaunch` (claim, warm path, cold path, commit, compensate), `handleTerminate` |
| Janitor Lambda | `janitor.ts` | strikes on mapping rows, orphan rows | sweep: reconcile VMs and rows, prune image versions, recover stuck launches, measure queued jobs |
| Warm-pool Lambda | `warm-pool.ts` | none (the suspended VMs are the pool) | tick: retire aged or superseded VMs, launch and suspend up to the target |
| GitHub client | `shared/github-client.ts` | installation ids and tokens, per execution environment | runners, registrations, jobs; bounded replays |
| MicroVM client | `shared/microvm-client.ts` | none | run, get, list, suspend, resume, terminate; throttle retries |
| In-VM agent | `image/assets/agent.mjs` | whether it has been configured, its daemons | hooks, accept one configuration, wait for Docker, start one runner |
| Construct | `github-microvm-runners.ts` | none at run time | registry of classes; wires queues, schedules, timeouts, alarms |
| Image pipeline | `image/*.ts` | none at run time | generates Dockerfiles and a build pipeline |
| Metrics, scripts | `shared/emf.ts`, `scripts/` | none | log formatting, operator setup |

The parts share four things, and every hard behaviour comes from them:

- **The runner table** (DynamoDB): `job#<repo>#<id>` claims, `warmvm#<id>` claims, `<runnerName>` mapping rows (with the
  janitor's `suspectSince` and cached `runnerId`), `orphan-vm-<id>` rows. Single-item conditional writes and one
  two-item transaction are the only synchronisation. Rows with an `expiresAt` disappear by TTL.
- **The job queue** (SQS, at least once, batches of five, 180 s visibility, a dead-letter queue after 20 receives).
- **The MicroVM platform**: VMs are pending, running, suspended, terminated, and end by themselves at their
  `maximumDurationInSeconds`. Any call may succeed and lose its answer.
- **GitHub**: registrations by name, a list that lags, ids that change, runners that become busy at any moment, and jobs
  that any idle runner with the labels may take.

And they are deployed one after the other: while a deployment is under way, functions and images are of two configurations.

### What is hard, and what must hold

| Part | Hard behaviour | What makes it correct |
|---|---|---|
| Launcher | duplicate and redelivered messages, takeover of stale claims, crashes between any two calls, ambiguous pushes, compensations that fail, warm candidates contended for and ageing | one live VM per job; a running launch keeps its claim; a mapped VM seals its claim; a VM of the pool serves one launch and outlives its job; a released claim leaves no armed VM |
| Janitor: reconciliation | decisions on a stale list, a stale scan and a stale clock; strikes compared with a jittering schedule; rows deleted under an update; killed sweeps; rotated images | never the VM of a busy runner, of a launch under way, of a young job; every useless VM goes; the backstop is real |
| Janitor: recovery | delete-before-send, send-before-delete, a relaunch counter threaded through messages, caps per sweep, deletes that lose their answer | a job is dropped by few failures and by no interleaving, and relaunches are bounded |
| Janitor: queued-job scan | pages read one after the other while runs leave the listings, budgets per sweep, repositories that cannot be read | no job that waits is missed without a word |
| Warm pool | overlapping ticks, a listing read page by page, retirement racing a claim, two clocks and two configurations | a launch takes no VM a tick has condemned, but where the two judge differently; the pool is bounded and converges |
| Webhook and routing | failed, lost and repeated deliveries; labels and scope judged by two functions of different configurations; a pool of runners that crosses jobs over; a cap that is read and not reserved | an accepted job is tracked and launched, its runner fits it, it gets a VM of its size and keeps it; the overrun is bounded |
| Agent | two configurations, answers that are lost, a snapshot and a suspension that freeze processes, a daemon that hangs, a check that cannot be run | one runner per VM, started fit but for that check; no frozen daemon; an accepted configuration is decided |
| GitHub client | replays after a lost answer, tokens that age between the look at the cache and the request, one cache for many owners | only reads are replayed; a request carries a live token of its owner |

`PROJECT.json` lists the individual hazards with the line where each one bites and the properties aimed at it.

## 2. Plan

Order of work, most important behaviour first.

| # | Module | Covers | State |
|---|---|---|---|
| 1 | `Launcher`, `MCLauncher` | the launch and terminate handlers, composed with table, platform and GitHub | done |
| 2 | `LaunchLease` | abstract specification of the job claim, implemented by 1 | done |
| 3 | `Launcher_proofs`, `LauncherVms_proofs` | types, claims, the refinement, one VM per job, the warm pool's VMs: for all constants | done |
| 4 | `Janitor`, `Janitor_proofs` | `reconcileTable`, rules 1 to 6, composed with an abstract launcher and warm pool; what stale readings mean, and the bounds a sweep on time keeps | done |
| 5 | `Recovery`, `Recovery_proofs` | committed-claim reconciliation, relaunch after a reap, dead-letter recovery, the attempt bound and the caps; composed with the queues and the launcher's claims | done |
| 6 | `WarmPool`, `MCWarmPool`, `WarmPool_proofs` | ticks that overlap, composed with launches, deployments and the clock | done |
| 7 | `RunnerSet`, `Intake`, `MCIntake`, `Intake_proofs` | scope and classes as operators; the way of a job from its delivery to its runner, under deployments | done |
| 8 | `GithubClient`, `QueuedScan`, `MCQueuedScan`, `QueuedScan_proofs` | caches and replays; the scan that calls through them | done |
| 9 | `Agent`, `Agent_proofs` | the VM from its image's build to its runner | done |

Left, most useful first: an abstract specification of what `Recovery` promises of a job's supply (tracked until it is served
or given up) with the refinement; sweeps that overlap.

## 3. The modules

### `Launcher` (launcher.ts, launch-params.ts, warm-claim.ts)

An *attempt* is one SQS record in one invocation: `pc[a]` is the call it is about to make, `local[a]` its local
variables, which end with it. One action is one awaited call with everything the code computes up to the next one, so
every interleaving of two invocations at an `await` is a behaviour.

| State | Code |
|---|---|
| `claim[j]` | the `job#` row: `attemptToken` (`holder`), `claimedAt`, `microvmId` or `'pending'`, `expiresAt` |
| `mapping[a]` | the row written under the attempt's runner name |
| `warmClaim[v]` | the `warmvm#` row |
| `vm[v]` | the platform's VM: state, `startedAt`, and the attempts whose configuration it has accepted |
| `registered`, `finished` | runner names known to GitHub; completed webhooks sent |
| `now`, `faults` | a clock that advances up to `MaxNow`, and how many calls have failed |

`DeliverLaunch` to `TakeOver` are the admission and `acquireLaunchClaim`; `ListPool` to `WarmFallBack` are
`tryWarmPath`; `ColdJit` to `Compensate` the cold path; `CommitLaunch` the two-row transaction; `DeliverTerminate`,
`KillVm`, `Unmap` are `handleTerminate`. A failing call fails before or after its effect where the code cannot tell
which. `Crash` ends an invocation anywhere, without any compensation. `Boot`, `LifetimeEnds`, `RunnerFinishes` are the
platform and GitHub; `LifetimeEnds` stands for the platform's limit and the janitor's backstop together.

The pool is filled in `Init`: VMs in `Pool` are suspended, those in `Superseded` hold an older image.

### `LaunchLease`

Each job is free, held by one attempt, or launched by one. `Launcher` ends with the mapping of claim rows and program counters to
that lease (`LeaseOf`; a live holder first, since after a commit with a lost answer the attempt still runs), and `ImplementsLease` is
both a property of its runs and a theorem. `MCLauncher` adds the symmetry TLC uses.

### `Janitor` (janitor.ts, with the parts of launcher.ts and warm-pool.ts that change what it sees)

A sweep is `StartSweep`, `ListVms`, `ScanTable`, `MapVms`, then one item after the other. `snap[v]` is what the sweep
has read and computed from its `nowMs`; `item` the row or VM in hand and the call that is next; the order of `SweepStep`
actions is the order of the code's awaits. Items are taken in any order, since scan order is arbitrary; the code also
puts rule-5 deletions before and unmapped VMs after the rows, which makes no difference for one VM because these kinds
exclude each other.

Times are ages that saturate at `MaxAge`. A timestamp `t` was `t - clock` old when the sweep read its clock, so
`IsOlderThanInterval(t)` is exactly the code's comparison with a `nowMs` that is stale by then. A row the code would
write without its `microvmId` is kept as `"zombie"`, so that `NoZombieRow` can be asked.

The launcher and the warm pool are reduced to their effects on VMs, rows and runners: cold launch, warm claim, resume,
arm, commit, failure (with or without a compensating terminate), pool fill and suspend, terminate on a webhook.
GitHub's list `listed` catches up with `runner` at some later moment; a single-runner read is never stale, but an id may
have been rotated out. GitHub refuses to delete a runner that is busy.

Decisions of the model, none of them visible in a sentence of the code:

- Sweeps do not overlap: the janitor's Lambda times out at five minutes, its default interval. Configured for less, or
  retried late, they may; this is not modelled.
- Lambda retries an invocation that died, so a second sweep can follow at once: this is what makes a *fresh* strike of
  another sweep reachable.
- A boot, and the lag of GitHub's list, take less than a time unit; a runner id changes only between sweeps.
- The platform's own `maximumDurationInSeconds` is left out, so that the backstop is tested and not the platform.
- The launcher only claims warm VMs of the current image. Without that guard a VM resumed between a scan and the
  `getMicrovm` of its orphan row would be killed at once.
- The relaunch that ends rule 1 touches job claims and the queue only; `Recovery` has it.

### `Recovery` (janitor.ts, with what launcher.ts does to claims and messages)

| State | Code |
|---|---|
| `queue`, `dlq` | the job queue and the dead-letter queue, as bags of launch messages with their `relaunchAttempts` |
| `claim[j]` | the `job#` row: pending or committed, its VM, `relaunchAttempts`, and how many sweeps its VM has been gone |
| `vm[v]`, `row[v]`, `launch[v]` | a VM with its runner, its mapping row and strike, the message an invocation launches it for |
| `github[j]`, `exhausted` | the job's status; jobs whose relaunch bound was raised as a metric and an error |
| `sweep`, `snap`, `todo`, `item` | the phase of the sweep, the VM list and table scan it works from, what is left, the item in hand and its next call |
| `faults`, `lost` | how many calls failed or sweeps were killed; jobs a failure in the middle of a relaunch or release has dropped (history) |

`ListVms`, `ScanTable`, the claims, the rows, then the letters: the order of `reconcileTable` and `handler`.
`ProbeClaimVm` to `RestoreClaim` are `reconcileCommittedClaim`; `Reap`, `ProbeReapedJob` and the shared
`DeleteClaim`, `SendRelaunch`, `RestoreClaim` are `relaunchUnregisteredJob`, which decides on the claim *as scanned*
(`Scanned`); `ProbeLetter` to `DeleteLetter` are `recoverOneStuckLaunch`. The other rules of the sweep, which
`Janitor` has in detail, are reduced to `JudgeRow`, and the launcher to winning, committing and failing a claim. Decisions of the
model: every failing write may have taken effect, which the code is told only as an error: the delete and the restore of a claim, the send (its message
is on the queue), a strike, the delete of a letter, the commit (released all the same, or, with the terminate failing too, left
committed; this counts as two faults). The delete of a claim stands before the `try` whose `catch` restores it, so one that loses its
answer drops the job: `lost`. How often a message was received is left out, so that
any failed delivery may dead-letter; a dead letter that arrives while a sweep is at its letters waits for the next sweep; a claim
expires `ClaimLife` sweeps after its VM has gone (an hour at the least in the code, twelve sweeps at the default
interval) and its age is counted only from there; a launch can be delivered whenever its claim allows it (the
visibility timeout and the concurrency cap only delay it).

### `WarmPool` (warm-pool.ts, the listing of microvm-client.ts, the warm path of launcher.ts)

One runner class, since the labels of a tick share nothing. `image` is the deployed version, `tick[t]` an invocation (its
configured version, the page it reads next, the VMs listed and then those still to retire, how many VMs it still wants,
the VM in hand), `launch[a]` a launch on the warm path with the clock and version it began with, `spared` a history: the
suspended VMs that a listing missed or a retirement left alive. `StartTick` to `ListFails` are the tick and
`listSuspendedVmsForImage`: a page is a step, so that a VM may be suspended, claimed or ended between two pages. `Retire`,
`RunMicrovm`, `SuspendVm`, `Compensate`, `EndTick` are `convergeLabel` and `launchAndSuspendOne`, each failing before or after its
effect. `StartLaunch` to `FallBack` have of `tryWarmPath` what the pool sees; the detail is in `Launcher`. Ticks overlap
because a fill may outlast the schedule. An id is reused when nothing refers to it any more, and `MCWarmPool` places three ids on two
pages.

### `RunnerSet`, `Intake` (webhook.ts, runner-set-config.ts, size-class-match.ts, and what launcher.ts and the construct make of a job)

`RunnerSet` has operators only: the registry of classes, the default image, `isRepoInScope`, `resolveTarget`,
`matchSizeClass`, with names as they are spelled and as they fold. `Intake` deploys a sequence of configurations:

| State | Code |
|---|---|
| `deployed`, `image`, `env` | the configuration last deployed, the class that each image (by index) is built as, the configuration each function still runs with |
| `job`, `deliveries`, `accepted` | GitHub's view of each job and the runner that took it; deliveries on their way; jobs answered `queued` |
| `queue`, `launch` | messages; where each job's launch is, and the configuration its invocation read |
| `runner` | the labels, target and class of the runner launched for each job, and what it does |

`Deliver` and `DeliveryFails` are the webhook; `DropLaunch` to `FailLaunch` and `TakeTerminate` the launcher's decisions (scope, a
cancelled job, the cap, class, target) with claims and compensations reduced to a claimed launch that succeeds or fails; `Assign` is
GitHub giving a job to *any* idle runner with its labels; `Deploy`, `RebuildImage`, `UpdateFunction` a deployment: images in place, under
names that are their indices, then functions, the launcher's after the images it refers to.

### `GithubClient`, `QueuedScan` (github-client.ts; measureQueuedJobAge of janitor.ts)

`GithubClient` is one execution environment: the two caches (`ids`, `tokens`) that survive an invocation, and the call under
way with its attempts and how often it has taken effect. A caller begins with `Request` and goes on from `Answer` or
`Failure`. `QueuedScan` extends it: `scan` is the sweep's position (organizations, repositories, status, page, runs of
the page, page of jobs), its budgets, errors and what it has counted; `job` is what GitHub knows meanwhile. A listing is computed when it
is asked for: the positions of the repository's runs that have the status (`Listed`), newest first, of which a page has the places `Before(page) + 1` to `Before(page + 1)`. A run that
leaves a listing moves the later ones a place forward. `ReposOf` is what an installation lists. A run is of one repository (`RunsAssumption`). An earlier call of the
sweep, which deletes a runner, stands for its other phases.

### `Agent` (image/assets/agent.mjs, with the pushes of launcher.ts)

One VM from the build of its image (`/ready`, snapshot) over boot, suspension and resume to its end: `daemons` the state of
containerd and dockerd, `accepted` the configuration taken, `wait` where `decideAndStartRunner` and `waitForDockerReady` are with
their deadline and timer, `runner` how many runners were started, `push` and `arriving` the configurations launches send, which may be lost
or arrive after the launcher has given up. The daemons come up or hang; nothing is assumed of them. `Decide` goes by what the check for Docker answers
(`ImageHasDockerd`), and a check that cannot be run reads as an image without Docker.

## 4. The runs

| Run | Instance | What it shows |
|---|---|---|
| `launcher_cold` | 1 job in scope and 1 out, 3 attempts, 2 cold VMs, 1 fault, time 0..4 | types; a running launch keeps its claim (`HolderKeepsClaim`); `OneLiveVmPerJob`; `MappedVmSealsClaim`; a mapped VM is armed; a released claim leaves no armed VM; the lease is implemented |
| `launcher_warm` | 2 jobs, 2 attempts, a pool of one current and one superseded VM, 1 cold VM, 2 faults, time 0..5 | `WarmVmServesOneLaunch`, `CompensationSparesOthers` (a compensation terminates no VM another launch armed), `WarmVmOutlivesJob`, and one live VM per job across the fall-back |
| `janitor_cold` | 1 cold VM, interval 4 with slack and jitter 1, 1 fault | `BusyRunnerSpared`, `ColdLaunchSpared`, `NoZombieRow`, `StrikeSettledByNextSweep`, and under fairness `UselessVmIsReaped` |
| `janitor_warm` | 1 VM of the pool, interval 3, job limit 1, ages up to 11 | `BackstopHolds`, `LifetimeSparesYoungJobs`, `BusyRunnerSpared` with expiring claims and rows |
| `warm_pool` | 2 ticks, 1 launch, 3 VM ids on 2 pages, a target of 1, 1 deployment or step of the clock, 1 fault | `PoolIsBounded` (one target for each tick that may overlap), `LaunchShunsTheCondemned`, and under fairness `PoolConverges` |
| `recovery` | 1 job, 2 VM ids, 1 relaunch, caps of 1, 2 faults, claims that outlive their VM by 4 sweeps | the relaunch bound (in `TypeOK`), `QueuedJobIsTracked`, and under fairness `QueuedJobIsResolved` |
| `intake` | 2 jobs, 2 classes, 3 configurations that take out a class and then an organization, a cap of 1, 2 launches at a time, 1 fault; or 3 jobs, of which one runs and two wait at the cap | `AcceptedJobIsTracked`, `JobGetsItsSize`, `RunnerFitsItsJob`, `RunningJobKeepsVm`, `OverrunIsBounded`, and under fairness `AcceptedJobIsLaunched` |
| `queued_scan` | 2 organizations, 2 repositories of 2 runs each, pages of 1, 2 sweeps, budgets of 7 listings, 1 change, 1 fault, time 0..3; metrics on and off, App and PAT, the three kinds of scope | `NothingMissedSilently`, `TokenServesItsRequest`, `MutatesOnce` |
| `agent` | 2 launches push to 1 VM, with and without Docker, 2 faults, a readiness bound of 5, probes of 2 | `NoDaemonIsFrozen`, `RunnerStartsOnceAndFit`, and under fairness `AcceptedConfigIsDecided` |
| `launcher_fallback`, `janitor_orphan`, `intake_widening` | as small as the counterexample allows | disagreements between the code and what it says of itself, section 6 |

**Why the bounds are enough.** One job suffices for the claim protocol because claims of different jobs share nothing;
three attempts give a holder, a taker and a terminate or third delivery. Two warm VMs and two launches give every
contention; a third VM is the cold fall-back. The launcher's clock reaches past the stale lease, the claim's TTL and a
VM's lifetime. The janitor decides about one VM at a time and its VMs share only the runner list and the sweep's
clock, so one VM of each kind meets every rule; ages reach beyond two intervals or, in `janitor_warm`, beyond the lifetime cap and
a sweep. In `recovery` one job suffices because claims, rows and letters of
different jobs meet only at the caps; two faults reach a failed send
followed by a failed restore, a delete that strands the job after another failure, and a dead letter whose recovery fails; `ClaimLife` exceeds the sweeps those faults can
cost. Two ticks and two pages give every order of a listing, a fill and a retirement; one VM id more than two ticks can
fill keeps a claimed one beside them. In `intake` two jobs cross over runners and compete for the cap. To pass the
bound of `OverrunIsBounded`, two launches that read the cap side by side must meet a VM that runs already: that takes three jobs, so `MCIntake` begins, besides with
two jobs to come, where one runs and two wait at capacity (`TwoAtCapacity`); `Init` leads to both states, `IntakeBurst.cfg` has every way between them. The proofs of section 5 cover every number and every sequence of configurations. The budgets of
`queued_scan` just suffice for a scan that nothing disturbs, so that one more run or job exhausts either, and pages of one item make every listing pass a full page.
A configuration beyond the second meets the agent as the second does.
In the constants a unit of time stands for about the launcher's timeout in `Launcher` and `Janitor`; what matters is their order:
launcher timeout < stale lease, launcher timeout + the time a sweep takes to list < interval - slack, twice the launcher timeout <
warm claim TTL, claim TTL > a VM's life; in `GithubClient` a call ends within the skew by which a token is renewed early.

**Bounds by name.** `MaxNow` and `MaxFaults` in `Launcher` and `GithubClient`, `MaxAge` and `MaxFaults` in `Janitor`, `MaxFaults` in
`Recovery`, `MaxChanges` (clock and deployments) and `MaxFaults` in `WarmPool`, `MaxLaunchers` and `MaxFaults` in `Intake`,
`MaxSweeps` and `MaxChanges` in `QueuedScan`, `MaxSuspended` and `MaxFaults` in `Agent`, and the sets
themselves. The runs of `Launcher`, `WarmPool`, `Intake`, `QueuedScan` and `Agent` say `CHECK_DEADLOCK FALSE` because a finite batch of jobs, sweeps or pushes, or a clock at its end,
leaves nothing to do. The janitor's time never stops, nor do its sweeps, and the runs of `Janitor` and `Recovery` check deadlock: a sweep never waits on itself.

**Fairness.** The launcher's properties are safety only: no step of an invocation is assumed to be taken, since it may
be killed at any moment. The janitor's liveness assumes weak fairness of the sweep's steps (a scheduled Lambda runs
until it ends or is killed, and `MaxFaults` bounds the killings), of time, of a boot (the platform answers) and of
GitHub's list catching up. Nothing is assumed of the launcher, of webhooks, of jobs, of the TTL.
`Recovery` assumes of the sweep the same; of the queue that it delivers (SQS does) and of an invocation that it commits or fails
(its Lambda times out); that an idle runner gets a queued job, that jobs end, and that a VM without a row is reaped (rule 6, checked in
`Janitor`). It does not assume that a runner ever registers, that a VM lives, or that the TTL runs.
`WarmPool` assumes that ticks are scheduled and run on unless killed, that a launch under way ends, that VMs meet their lifetime cap, that the
janitor reaps orphans and that the TTL runs; not that anything is deployed, launched or fails.
`Intake` assumes that the queue redelivers each message, that a deployment ends, that a running job ends (GitHub's longest duration) and that the janitor
ends idle and spent runners; not that GitHub assigns a job or that a delivery arrives.
`Agent` assumes of the agent's timers that they fire, and of the daemons nothing. Safety alone is checked of `QueuedScan`.

Each property has a mutant in `PROJECT.json`: an operator `..Unchecked`, `..TooSoon` and so on, next to the definition it
would replace, which is a plausible bug of that code and makes TLC find the property violated.

## 5. The proofs

All theorems hold for every value of the constants that satisfies the named assumptions of the module; TLC evaluates those on
every run.

**`Launcher_proofs`** (for every set of jobs, attempts and VMs).

- `TypeCorrect`: `Spec => []TypeOK`, one lemma for each group of variables.
- `ClaimInvariant`: the strengthening. `HolderKeepsClaim` is not inductive: a takeover is harmless only because the
  claim it has *read* is of a dead attempt. `ClaimInv` adds that a running attempt is within its timeout (`Timed`) and read
  its clock since it started (`Stamped`), that its claim lives as long as that stamp says (`Held`), that no claim is
  older than the holder it names, if that one still runs (`Owned`), and that the holder an attempt has seen in a stale claim is gone for good (`SeenIsGone`). `MovedByStep` and `ClaimEffects` first state what any step can do to a
  program counter and to a claim, so that the preservation proof is about those few effects, not each action.
- `ClaimsAreKept`: `Spec => []HolderKeepsClaim`, and `OneHolder`: two running attempts never hold one job.
- `LauncherImplementsLease`: `Spec => ImplementsLease`. The mapping `LeaseOf` (in `Launcher`) prefers a live holder, because after a
commit whose answer was lost the attempt still runs. `LeaseInv` adds to `ClaimInv` that a committed claim names an attempt, and that a claim about to be
taken over is still pending if it still has the token that was seen. Each effect of `ClaimEffects` is then one action of `LaunchLease` or a stutter.

**`LauncherVms_proofs`**. `VmInvariant` and from it `OneVmPerJob`, `ClaimsAreSealed`, `MappedVmsAreArmed`, `OneLaunchPerWarmVm`, `CompensationsSpareOthers`,
`WarmVmsOutliveJobs`, `ReleasesLeaveNoColdVm`. `VmInv` says whose a VM is at each point of a launch (`WarmOwned`, `ColdOwned`), that a VM which has left the pool since it was listed
carries a warm claim that lasts as long as any launch that may still have it as a candidate (`CandidatesHeld`), that nothing but the owner's configuration is in a live VM
(`ArmedOnce`), and that the claim of a launched or mapped VM lasts longer than the VM can (`Sealed`). An attempt's step is first shown to be one of ten kinds
(`StepKinds`: it bids, wins, resumes, arms, runs, commits, kills, ...), and each part of the invariant is kept by each kind. What the constants must satisfy is `TtlAssumption`: the launcher's timeout (120 s) is no longer than the grace
of a VM's `maximumDurationInSeconds` (300 s), that grace with a launch before it or the backstop's lag after it stays below the claim's TTL grace (3600 s), and two
launcher timeouts stay below the warm claim's TTL (300 s). The last is used where a launch lists a VM just before another resumes it and bids for it when that one's
claim has nearly run out; the backstop's lag, a janitor interval and a sweep, is the one of these numbers that a user sets.
`ReleasesLeaveNoColdVm` needs `ColdArms` besides: how far a configuration has come at each point of a launch, and that a release is reached unarmed or from a terminate that answered. It holds with and
without a pool; `ReleaseLeavesNoArmedVm`, which is about all VMs, follows where `Pool = {}`. That hypothesis is needed: the warm fall-back may leave an armed VM in the pool (finding 1).

**`Intake_proofs`** (for all jobs, labels, configurations and launchers).

- Of `RunnerSet`'s operators: `ScopeHasTarget`: a repository in scope always has a target, and runners of that target serve it, whatever the spelling of its
  owner. `LargestMatchWins`: of classes declared smallest first, `matchSizeClass` picks one the job asks for and none smaller than any it asks for. Both rest
  on a least and a greatest index existing, proved from the finiteness of a sequence's domain.
- `TypeCorrect`, `JobsKeepTheirVms` from `ServiceInv`: a runner serves one job, and a message or delivery that would end a VM exists only for a runner whose job is done.
- `OwnJobFits` from `FitInv`: a launch is claimed only where its configuration has the repository in scope, so `ScopeHasTarget` applies.
- `CapHolds` from `CapInv`: VMs that run, with launches under way, stay below the cap plus `MaxLaunchers`.
- `AcceptedJobsAreTracked`, if `NeverWidens`: no deployment brings a repository back into scope. The hypothesis is needed: `intake_widening`.
- `JobsGetTheirSize`, if `IndicesKept` and `AllAscending`: no deployment moves a class to another index. The hypothesis is needed: `IntakeInserting.cfg`, section 7.

**`Agent_proofs`** (for any launches and timing constants). `TypeCorrect`, `DaemonsAreNotFrozen`, `OneFitRunner` (with Docker up, but for a check that could not be run), and `BoundedWait`: the wait for Docker is
over one poll interval after its deadline at the latest. `AgentInv`: before any push no daemon runs and nothing is accepted (`Untouched`), no push meets a VM that is not
running (`PushedOnlyRunning`), no runner has started before or while the agent decides (`Deciding`), and the timer of each stage is bounded by the deadline (`Timed`).

**`QueuedScan_proofs`** (for any scope, runs and jobs, page size, budgets, clock and number of faults, if a call is over before a token the cache returned as fresh expires:
`CallTime <= Skew < TokenLife`). `TypeCorrect`; `TokensServe`: every request carries a live token of its owner; `CallsMutateOnce`: nothing that changes
GitHub takes effect twice in a call. From `ScanInv`: a cached token is of the owner it is cached for (`CachedIsOwn`), a call
stays within its time (`CallIsTimely`) and its token outlives it (`TokenOutlivesCall`), only the last attempt of a call can have taken
effect (`EffectIsLast`), a run in hand is of the repository in hand (`RepoInHand`), and a listing is under way only while its budget lasts (`CallsPlaced`).
`NoneMissedSilently`: `NothingMissedSilently`, from `CoverInv`. A job that has waited since the scan began, in a repository none of whose listings has lost a run, is
counted or the scan has something to report, or it is still to come: its repository (`RepoToCome`), its run's place in the listing (`RunToCome`) or its own page of the run's jobs
(`JobToCome`). As long as no run leaves a listing, places in it only grow, so a run not read yet cannot slip onto a page that has been; a run that leaves moves the next one there, which is why the property
excludes those repositories (`QueuedScanShift.cfg`, section 7).

**`Janitor_proofs`** (for any VMs, any ages and number of faults, if the interval less its slack is longer than a launch and a sweep, a warm claim lasts
longer than a launch, and a mapping row longer than a job). `JanitorInvariant`, and from it `TypeCorrect`, `NoRowComesBack`, `BusyRunnersLive`, `YoungJobsLive`,
`ColdLaunchesLive`, `ColdLaunchesFinish`. The argument is about stale readings. `Lasts` lists what no step of anyone undoes: a launch committed, a VM
gone, a runner gone after the commit (`Finished`), a list of runners that has seen the runner (`Settled`), a cold launch that is over (`Landed`), a job past
`MaxJob` (`OldJob`). `WorldFacts` says what a row, a stamp or a strike means when it is read: a row that is a time unit old has been seen by the list, a strike is
no older than the launch it was made in plus a sweep, a claim's stamps are no older than its job. So an *old* strike is of a launch that is over and of a list that
is settled (`OldStrikes`), and a stamp beyond the cap is of an old job (`ServedFor`); `SweepFacts` carries these along in what the sweep has read, and
`ItemFacts` to the call that terminates. `ColdLaunchesLive` assumes that no row outlives its TTL within the ages considered: a VM that outlives its row, which
needs backstop and platform to fail for an hour, is rule 6's. `ColdLaunchesFinish` is the part that needs no such hypothesis: never during the launch.

`TimeInvariant` is a second inductive invariant of the same specification, about how long a sweep leaves things. While no call fails, the time since a sweep began is
the time since it was due (`OnTime`). A strike is then as old as that, or one interval older and in the hands of the sweep under way (`Pending`, phase by
phase); a VM that serves a job has served for less than the cap and the time since the last sweep, or the sweep under way is bound to kill it (`Doomed`). Both need what the ages
say: what a sweep reads is no younger than the job, but for the launch (`Counts`), and a VM comes under the watch of a sweep that has already passed it only while
its job is young (`Calm`). From it `StrikesSettle` and `JobsEnd`, the janitor's two bounds in time, with no hypothesis beyond the constants' assumptions.

**`WarmPool_proofs`** (for any finite sets of ticks, launches and VMs and any division of the listing into pages). `TypeCorrect`; `LaunchesShunTheCondemned`, from `CondemnedStayUnfit`: a
suspended VM a tick has on its list to retire is superseded or too old for the tick's deployment and clock, so it stays unfit for every launch that began no earlier.
`PoolStaysBounded`: ticks that overlap never make the pool larger than one target each. The bound is not inductive, since a tick that is still listing will add
whatever its count leaves of the target, and VMs suspended behind the page it has read are not in that count. The invariant says that these missed VMs leave room: for *every*
set `S` of ticks that are listing, the VMs all of them have missed and the slots the others have open come to no more than one target for each tick outside `S` (`RoomForListings`). A
tick that ends its listing turns what it found into slots and leaves every `S`; a tick that begins one has missed nothing.

**`Recovery_proofs`** (for any finite set of jobs, any VMs and caps). `TypeCorrect`, with the bound on relaunches, from `WorkInv`: what the item in hand is about, and
that the letters a sweep has pulled and not handled lie on the dead-letter queue as often as it has pulled them (`BagsHeld`). `QueuedJobsStayTracked`: between a claim's deletion, the send and the
restore, and between a letter's send and its deletion, a queued job has a message, a letter that will stay, a launch, a committed claim, or a sweep about to resend it, unless it was given up aloud or
dropped; and it is dropped by one of three failures only (a claim delete that loses its answer, a restore that fails, a sweep killed in between), one job by one failure (`LossesBounded`). `TrackInv`
is about ages, since the danger is a claim that expires before a sweep has come to it: while its job may still have to be recovered, a claim is no older than the faults there have been, plus one sweep that
has still to look at it (`AgeBound`), and what the sweep has read of it is still so. Two hypotheses are needed: `ClaimLife > MaxFaults + 1`, a claim outlives its VM by
more sweeps than calls fail, and `[]BacklogFits`, a sweep can probe all committed claims there are; without the second a job starves (`RecoveryBacklog.cfg`, section 7). The run `recovery` satisfies both.

**Only model-checked**: liveness under fairness (`UselessVmIsReaped`, `PoolConverges`, `QueuedJobIsResolved`,
`AcceptedJobIsLaunched`, `AcceptedConfigIsDecided`), which is out of the prover's reach. Every invariant and every other action property of the passing runs is stated by a theorem; `AcceptedJobsAreTracked`,
`JobsGetTheirSize`, `ColdLaunchesLive`, `QueuedJobsStayTracked` and `ReleasesLeaveNoArmedVm` carry the hypotheses named above, which the runs satisfy.

## 6. What the models disagree with

1. **The cold fall-back is not always safe** (`launcher_fallback`). A push whose answer was lost counts as not made: with the
   terminate failed too, the launch goes on cold beside an armed VM.
2. **Rule 6 may meet a runner** (`janitor_orphan`). "There is no runner to check in the first place" fails after a crash
   between the push and the commit: the VM is armed, its runner takes a job, and two sweeps later it is terminated busy.
3. **A widened scope loses a job** (`intake_widening`). While a deployment that widens the scope has reached the webhook and not yet the launcher, a job is
   accepted and its message deleted as one that "will never become in-scope".

Further disagreements, each with a configuration of its own, are in section 7.

## 7. Further checks run by hand

Configurations beside the runs of `PROJECT.json`, each for the module its name begins with (`MC` before it where there is one). The first is a larger
instance and passes; the others each end in a counterexample to something the repository says of itself or a reader would expect.

| Configuration | Property | What it shows |
|---|---|---|
| `IntakeBurst.cfg` | all invariants of `intake` | 3 jobs and 2 launches at a time, all from `Init`: 3.2 million states, four to five minutes |
| `LauncherRegistration.cfg` | `FailedLaunchLeavesNoRunner` | architecture.md:62-63 says the launcher releases the runner of a failed launch; it never calls `deleteRunner` |
| `LauncherSecondVm.cfg` | `RetainedClaimBlocksSecondVm` | after a failed compensating terminate the claim is kept "so nothing else launches a second VM", and taken over as stale three minutes later |
| `JanitorResume.cfg` | `LiveLaunchSpared` | a VM listed while the warm pool was filling gets an orphan row that nothing clears; after the resume its strike is long old, and the first sweep that sees the VM running terminates it before the launcher has written its mapping row |
| `RecoveryBacklog.cfg` | `BacklogDrains` | every committed claim counts against the cap of probes, those of running and of finished jobs too, and stays where it is in scan order; a stuck claim behind 25 of them expires unprobed |
| `RecoveryStrand.cfg` | `OneFailureStrandsNobody` | janitor.ts:941-942: "Only a send-AND-restore double failure strands"; the delete of the claim (994, 1146) is outside the `try` that restores it, so one delete that takes effect and loses its answer strands the job, and nothing logs it as stranded. The same call at the bound (977) keeps the exhaustion silent |
| `RecoveryDouble.cfg` | `NoDoubleLaunch` | a VM that ends between the VM list and the claims loop is gone for `reconcileCommittedClaim` and still running for the row loop, whose relaunch deletes the claim the first one's launch has committed since |
| `WarmPoolRetire.cfg` | `RetirementSparesJobs` | warm-pool.ts:222: a tick terminates a VM it listed as suspended, which a launch of an older clock or configuration has resumed and armed since |
| `WarmPoolCounted.cfg` | `CountedVmIsClaimable` | docs/warm-pools.md:71-72: "`poolCurrent` reflects VMs that can actually take a job"; a VM still under a dead launch's claim counts and cannot |
| `IntakeInserting.cfg` | `BootsTheMatchedClass` | microvm-client.ts:132-134 counts on an image's name to follow its contents; names follow the class's index and are rebuilt in place, so a class put before another boots the other's image while the launcher is still on the old configuration |
| `AgentCheck.cfg` | `FailedCheckIsNotMistaken` | agent.mjs:104-109: "a transient failure to run the check is never mistaken for \"no dockerd\""; `spawnSync` reports such a failure as status `null`, which is not 0 (113), so the runner starts at once on an image with Docker, with no daemon (279-281) |
| `QueuedScanShift.cfg` | `CompletedScanReports` | github-client.ts:619: "a completed scan never under-reports without saying so"; a run that leaves the listing moves the next one onto a page already read |
| `QueuedScanCap.cfg` | `ListingsAreCapped` | janitor.ts:1620: "Per-sweep cap on GitHub run listings"; a listing that fails is not counted |

## 8. Not modelled

- The pruning of image versions (`pruneImageVersions`): a selection from one list, with no step of another actor in between that it reads twice.
- Rows without a `microvmId`, malformed claims and letters: the code leaves them alone or deletes them; `NoZombieRow` shows that the code's own steps never make one.
- Sweeps of the janitor that overlap: its timeout is its default interval.
- The construct and the image pipeline, beyond the registry, the default image and the order of a deployment: they run once and keep
  no state; their timeouts and intervals are the constants here. The setup scripts are interactive and run once by an operator.
- Metrics and log lines, the signature check (one reason for a delivery to fail), the MicroVM auth token, the documentation site.
