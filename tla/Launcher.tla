------------------------------ MODULE Launcher ------------------------------
(***************************************************************************)
(* The launcher Lambda (src/handlers/launcher.ts): one SQS record at a     *)
(* time, each handled by an ATTEMPT of its own.  A launch record claims    *)
(* its job in the runner table, obtains a MicroVM on the warm or the cold  *)
(* path, pushes a single-use runner configuration into it and commits a    *)
(* mapping row; a terminate record looks the row up and kills the VM.      *)
(*                                                                         *)
(* One action per awaited call: between two of them any other invocation   *)
(* may run, time may pass and the invocation may be killed.  Every remote  *)
(* write has the three outcomes a remote write has: applied and answered,  *)
(* not applied and failed, applied with the answer lost.  The last two     *)
(* draw on the fault budget MaxFaults.                                     *)
(*                                                                         *)
(* An attempt's identity doubles as the attemptToken (a randomUUID per     *)
(* acquire) and as the runnerName (a uuid per launch): both are minted     *)
(* once per attempt and never reused.  Any attempt may start for any job   *)
(* at any time, which covers SQS redelivery, duplicate webhooks, the       *)
(* janitor's relaunches and a redriven dead-letter queue.                  *)
(***************************************************************************)
EXTENDS Integers, FiniteSets

CONSTANTS
  Jobs,           \* workflow jobs, the key job#<repo>#<jobId>
  InScope,        \* the jobs whose repository isRepoInScope accepts
  WarmJobs,       \* the jobs whose size class has a warm pool target
  Attempts,       \* SQS records being handled, each by one invocation
  Vms,            \* MicroVM ids
  Pool,           \* the VMs suspended in the warm pool at the start
  Superseded,     \* the pool VMs built from an older image version
  NoVm, Nobody,   \* null values
  MaxConcurrent,  \* MAX_CONCURRENT
  LambdaTimeout,  \* LAUNCHER_TIMEOUT_SECONDS, 120 s
  StaleLease,     \* STALE_LEASE_SECONDS, 180 s
  WarmClaimTtl,   \* WARM_CLAIM_TTL_SECONDS, 300 s
  MaxJob,         \* MAX_JOB_DURATION_SECONDS
  Grace,          \* MAX_DURATION_GRACE_SECONDS, 300 s
  TtlGrace,       \* TTL_GRACE_SECONDS, 3600 s
  PoolVmCap,      \* PLATFORM_VM_LIFETIME_CEILING_SECONDS, 8 h
  SweepLag,       \* how late the janitor's lifetime backstop may be
  MaxNow,         \* bound: where the clock stops
  MaxFaults       \* bound: how many calls fail or lose their answer

ASSUME SetsAssumption ==
  /\ InScope \subseteq Jobs /\ WarmJobs \subseteq Jobs
  /\ Pool \subseteq Vms /\ Superseded \subseteq Pool
  /\ NoVm \notin Vms /\ Nobody \notin Attempts

ASSUME TimesAssumption ==
  /\ {MaxConcurrent, LambdaTimeout, StaleLease, WarmClaimTtl, MaxJob, Grace,
      TtlGrace, PoolVmCap, SweepLag, MaxNow, MaxFaults} \subseteq Nat
  /\ LambdaTimeout < StaleLease

(***************************************************************************)
(* github-microvm-runners.ts keeps the claim (maxJobDuration + one hour)   *)
(* well above one invocation's lifetime and above the life of the VM it    *)
(* names: TTL_GRACE_SECONDS outlasts the grace of maximumDurationInSeconds *)
(* with a launch before it and the lag of a sweep after it.  That grace is *)
(* also no shorter than a launch.  A warm claim (five minutes) outlasts    *)
(* two invocations: the one that put it, and one that listed the VM just   *)
(* before it was resumed.                                                  *)
(***************************************************************************)
ASSUME TtlAssumption ==
  /\ LambdaTimeout < MaxJob + TtlGrace
  /\ LambdaTimeout + Grace < TtlGrace /\ Grace + SweepLag < TtlGrace
  /\ LambdaTimeout <= Grace
  /\ 2 * LambdaTimeout < WarmClaimTtl

VARIABLES
  now,         \* the clock
  claim,       \* job#... rows of the runner table
  mapping,     \* runner rows: runnerName -> microvmId
  warmClaim,   \* warmvm#... rows: expiresAt, 0 when there is no row
  vm,          \* the platform's MicroVMs
  registered,  \* runner names registered with GitHub
  finished,    \* runner names whose completed webhook has been sent
  faults,      \* faults spent
  jobOf,       \* the job of each attempt's message
  pc,          \* the await each attempt is at
  local,       \* its local variables while it runs
  vmOf         \* the VM it works, or last worked, on

tableVars == <<claim, mapping, warmClaim>>
worldVars == <<vm, registered, finished>>
attemptVars == <<jobOf, pc, local, vmOf>>
vars == <<now, tableVars, worldVars, faults, attemptVars>>

ClaimPcs == {"capacity", "acquire", "inspect", "takeover"}
WarmPcs == {"warm", "claimWarm", "resume", "warmJit", "warmPush",
            "warmCommit", "warmFail"}
ColdPcs == {"jit", "run", "push", "commit", "compensate", "release"}
TerminatePcs == {"kill", "unmap"}
FinalPcs == {"dropped", "skipped", "duplicate", "launched", "failed",
             "unknown", "terminated", "dead"}

\* The attempts past a won acquire, still running.
HoldPcs == WarmPcs \cup ColdPcs
LivePcs == ClaimPcs \cup HoldPcs \cup TerminatePcs

(***************************************************************************)
(* start: when the attempt began; stamp: its nowMs, read after the         *)
(* capacity check; seen: the token it found in a stale claim, or the       *)
(* runner name of a terminate; cands: the warm candidates still to try;    *)
(* pushed: jitConfigPushed.  They end with the invocation.                 *)
(***************************************************************************)
NoLocals == [start |-> 0, stamp |-> 0, seen |-> Nobody, cands |-> {}, pushed |-> FALSE]

Live(a) == pc[a] \in LivePcs
Holding(a) == pc[a] \in HoldPcs
Alive(v) == vm[v].state \in {"pending", "running"}
Exists(v) == vm[v].state \notin {"none", "terminated"}

ClaimTtl == MaxJob + TtlGrace
FreeClaim == [holder |-> Nobody, vm |-> NoVm, at |-> 0, expiresAt |-> 0]
Committed(j) == claim[j].vm # NoVm

(***************************************************************************)
(* When v is ended whatever it does: at RunMicrovm's                       *)
(* maximumDurationInSeconds, which for a pool VM is the platform's cap, or *)
(* by tryLifetimeKill, which counts a pool VM's time from its claim.       *)
(***************************************************************************)
Deadline(v) ==
  IF v \notin Pool THEN vm[v].born + MaxJob + Grace
  ELSE LET cap == vm[v].born + PoolVmCap
           served == vm[v].since + MaxJob + Grace + SweepLag
       IN  IF vm[v].owner = Nobody \/ cap < served THEN cap ELSE served

\* Attempt a moves on to p with the local variables l.
GoWith(a, p, l) ==
  /\ pc' = [pc EXCEPT ![a] = p]
  /\ local' = [local EXCEPT ![a] = IF p \in FinalPcs THEN NoLocals ELSE l]
Go(a, p) == GoWith(a, p, local[a])
NoFault == faults' = faults
Fault == faults < MaxFaults /\ faults' = faults + 1

-----------------------------------------------------------------------------
(* Plausible bugs, each a changed form of a definition further down.       *)

LeaseIsStaleTooSoon(a) == local[a].stamp - claim[jobOf[a]].at >= LambdaTimeout

PendingClaimNoTtl(a) == [holder |-> a, vm |-> NoVm, at |-> local[a].stamp]

ClaimAbsentUnchecked(a) == jobOf[a] \in Jobs

WarmClaimAbsentUnchecked(v) == v \in Vms

VmCanServeNoGrace(a, v) == PoolVmCap - (local[a].stamp - vm[v].born) >= MaxJob

CommitRowOnly(a) ==
  /\ mapping' = [mapping EXCEPT ![a] = vmOf[a]]
  /\ UNCHANGED claim

PushJitConfigUnchecked(a, next, onError) ==
  /\ \/ /\ vm[vmOf[a]].state = "running"
        /\ vm' = [vm EXCEPT ![vmOf[a]].armed = @ \cup {a}]
     \/ UNCHANGED vm
  /\ NoFault
  /\ GoWith(a, next, [local[a] EXCEPT !.pushed = TRUE])
  /\ UNCHANGED <<now, tableVars, registered, finished, jobOf, vmOf>>

CompensatedUnchecked(v) ==
  \/ vm' = [vm EXCEPT ![v].state = "terminated"]
  \/ UNCHANGED vm

-----------------------------------------------------------------------------
Init ==
  /\ now = 0
  /\ claim = [j \in Jobs |-> FreeClaim]
  /\ mapping = [a \in Attempts |-> NoVm]
  /\ warmClaim = [v \in Vms |-> 0]
  /\ vm = [v \in Vms |->
             [state |-> IF v \in Pool THEN "suspended" ELSE "none",
              born |-> 0, since |-> 0, owner |-> Nobody, armed |-> {}]]
  /\ registered = {} /\ finished = {}
  /\ faults = 0
  /\ jobOf \in [Attempts -> Jobs]
  /\ pc = [a \in Attempts |-> "idle"]
  /\ local = [a \in Attempts |-> NoLocals]
  /\ vmOf = [a \in Attempts |-> NoVm]

-----------------------------------------------------------------------------
(* Before the claim.                                                       *)

(***************************************************************************)
(* A record is delivered.  An out-of-scope job is dropped before any       *)
(* call.  skipCancelledJob then reads GitHub and fails open: only a        *)
(* definite answer that the job is gone, or completed with no runner,      *)
(* stops the launch.                                                       *)
(***************************************************************************)
DeliverLaunch(a) ==
  /\ pc[a] = "idle"
  /\ \/ jobOf[a] \notin InScope /\ Go(a, "dropped")
     \/ jobOf[a] \in InScope /\ Go(a, "skipped")
     \/ jobOf[a] \in InScope /\ GoWith(a, "capacity", [local[a] EXCEPT !.start = now])
  /\ UNCHANGED <<now, tableVars, worldVars, faults, jobOf, vmOf>>

\* runningRunnerSetVmCount: only RUNNING VMs count, and nowMs is read after it.
CheckCapacity(a) ==
  /\ pc[a] = "capacity"
  /\ IF Cardinality({v \in Vms : vm[v].state = "running"}) >= MaxConcurrent
       THEN Go(a, "failed")
       ELSE GoWith(a, "acquire", [local[a] EXCEPT !.stamp = now])
  /\ UNCHANGED <<now, tableVars, worldVars, faults, jobOf, vmOf>>

\* A call before the claim throws: nothing was written, the record fails.
FailUnclaimed(a) ==
  /\ pc[a] \in ClaimPcs
  /\ Fault
  /\ Go(a, "failed")
  /\ UNCHANGED <<now, tableVars, worldVars, jobOf, vmOf>>

-----------------------------------------------------------------------------
(* acquireLaunchClaim, releaseLaunchClaim, commitLaunch.                   *)

\* claimItem: a pending row under this attempt's own token.
PendingClaim(a) ==
  [holder |-> a, vm |-> NoVm, at |-> local[a].stamp, expiresAt |-> local[a].stamp + ClaimTtl]

ClaimAbsent(a) == claim[jobOf[a]] = FreeClaim

LeaseIsStale(a) == local[a].stamp - claim[jobOf[a]].at >= StaleLease

\* The row's attemptToken is the one this attempt minted.
OwnsClaim(a) == claim[jobOf[a]].holder = a

WriteClaim(a) == claim' = [claim EXCEPT ![jobOf[a]] = PendingClaim(a)]

(***************************************************************************)
(* Put, if attribute_not_exists.  When the answer is lost the SDK retries  *)
(* and meets this attempt's own row ("inspect"), or gives up ("failed").   *)
(***************************************************************************)
PutClaim(a) ==
  /\ pc[a] = "acquire"
  /\ IF ClaimAbsent(a)
       THEN /\ WriteClaim(a)
            /\ \/ NoFault /\ Go(a, "warm")
               \/ Fault /\ Go(a, "inspect")
               \/ Fault /\ Go(a, "failed")
       ELSE /\ Go(a, "inspect")
            /\ UNCHANGED <<claim, faults>>
  /\ UNCHANGED <<now, mapping, warmClaim, worldVars, jobOf, vmOf>>

InspectClaim(a) ==
  LET held == claim[jobOf[a]] IN
  /\ pc[a] = "inspect"
  /\ \/ held = FreeClaim /\ Go(a, "failed")
     \/ held # FreeClaim /\ Committed(jobOf[a]) /\ Go(a, "duplicate")
     \/ held # FreeClaim /\ ~Committed(jobOf[a]) /\ ~LeaseIsStale(a) /\ Go(a, "failed")
     \/ /\ held # FreeClaim /\ ~Committed(jobOf[a]) /\ LeaseIsStale(a)
        /\ GoWith(a, "takeover", [local[a] EXCEPT !.seen = held.holder])
  /\ UNCHANGED <<now, tableVars, worldVars, faults, jobOf, vmOf>>

\* Put, if the row still carries the token that was read.
TakeOver(a) ==
  /\ pc[a] = "takeover"
  /\ IF claim[jobOf[a]].holder = local[a].seen
       THEN /\ WriteClaim(a)
            /\ (NoFault /\ Go(a, "warm")) \/ (Fault /\ Go(a, "failed"))
       ELSE /\ Go(a, "failed")
            /\ UNCHANGED <<claim, faults>>
  /\ UNCHANGED <<now, mapping, warmClaim, worldVars, jobOf, vmOf>>

\* Delete, if the token is ours; a failed delete is only logged.
Release(a) ==
  /\ pc[a] = "release"
  /\ \/ /\ OwnsClaim(a)
        /\ claim' = [claim EXCEPT ![jobOf[a]] = FreeClaim]
        /\ NoFault
     \/ ~OwnsClaim(a) /\ NoFault /\ UNCHANGED claim
     \/ Fault /\ UNCHANGED claim
  /\ Go(a, "failed")
  /\ UNCHANGED <<now, mapping, warmClaim, worldVars, jobOf, vmOf>>

\* The transaction's two writes: the mapping row and the claim's microvmId.
CommitWrites(a) ==
  /\ mapping' = [mapping EXCEPT ![a] = vmOf[a]]
  /\ claim' = [claim EXCEPT ![jobOf[a]].vm = vmOf[a]]

\* commitLaunch: both writes if the token is ours, else neither.
CommitLaunch(a, onError) ==
  /\ \/ OwnsClaim(a) /\ CommitWrites(a) /\ NoFault /\ Go(a, "launched")
     \/ OwnsClaim(a) /\ CommitWrites(a) /\ Fault /\ Go(a, onError)
     \/ ~OwnsClaim(a) /\ UNCHANGED <<claim, mapping>> /\ NoFault /\ Go(a, onError)
     \/ UNCHANGED <<claim, mapping>> /\ Fault /\ Go(a, onError)
  /\ UNCHANGED <<now, warmClaim, worldVars, jobOf, vmOf>>

-----------------------------------------------------------------------------
(* Calls both paths make.                                                  *)

Terminated(v) == vm' = [vm EXCEPT ![v].state = "terminated"]

\* The agent in a RUNNING VM takes the pushed configuration of runner a.
Arm(a) == vm' = [vm EXCEPT ![vmOf[a]].armed = @ \cup {a}]

\* pushJitConfig: next on a 200, onError otherwise, delivered or not.
PushJitConfig(a, next, onError) ==
  /\ \/ /\ vm[vmOf[a]].state = "running" /\ Arm(a) /\ NoFault
        /\ GoWith(a, next, [local[a] EXCEPT !.pushed = TRUE])
     \/ vm[vmOf[a]].state = "running" /\ Arm(a) /\ Fault /\ Go(a, onError)
     \/ UNCHANGED vm /\ Fault /\ Go(a, onError)
     \/ ~Alive(vmOf[a]) /\ UNCHANGED vm /\ NoFault /\ Go(a, onError)
  /\ UNCHANGED <<now, tableVars, registered, finished, jobOf, vmOf>>

\* generateJitConfig registers the runner name; a name taken is an error.
GenerateJitConfig(a, next, onError) ==
  /\ \/ a \notin registered /\ registered' = registered \cup {a} /\ NoFault /\ Go(a, next)
     \/ a \notin registered /\ registered' = registered \cup {a} /\ Fault /\ Go(a, onError)
     \/ a \in registered /\ UNCHANGED registered /\ NoFault /\ Go(a, onError)
     \/ UNCHANGED registered /\ Fault /\ Go(a, onError)
  /\ UNCHANGED <<now, tableVars, vm, finished, jobOf, vmOf>>

-----------------------------------------------------------------------------
(* tryWarmPath.                                                            *)

\* No target for the label, or a failed listing, goes straight to cold.
ListPool(a) ==
  /\ pc[a] = "warm"
  /\ \/ /\ jobOf[a] \in WarmJobs /\ NoFault
        /\ GoWith(a, "claimWarm",
                  [local[a] EXCEPT !.cands = {v \in Vms : vm[v].state = "suspended"}])
     \/ jobOf[a] \notin WarmJobs /\ NoFault /\ Go(a, "jit")
     \/ jobOf[a] \in WarmJobs /\ Fault /\ Go(a, "jit")
  /\ UNCHANGED <<now, tableVars, worldVars, jobOf, vmOf>>

\* warmVmCanServeJob, against the nowMs read before the claim.
VmCanServe(a, v) == PoolVmCap - (local[a].stamp - vm[v].born) >= MaxJob + Grace

WarmClaimAbsent(v) == warmClaim[v] = 0

Skip(a, v) == GoWith(a, "claimWarm", [local[a] EXCEPT !.cands = @ \ {v}])

Usable(a, v) == v \notin Superseded /\ VmCanServe(a, v)

(***************************************************************************)
(* One turn of the candidate loop: skip or lose a VM, win it, or throw.    *)
(* A won put whose answer is lost reads as a lost one when the SDK retries.*)
(***************************************************************************)
ClaimWarmVm(a) ==
  /\ pc[a] = "claimWarm"
  /\ \/ /\ local[a].cands = {} /\ Go(a, "jit")
        /\ UNCHANGED <<warmClaim, vm, vmOf, faults>>
     \/ \E v \in local[a].cands :
          /\ ~Usable(a, v) \/ ~WarmClaimAbsent(v)
          /\ Skip(a, v)
          /\ UNCHANGED <<warmClaim, vm, vmOf, faults>>
     \/ \E v \in local[a].cands :
          /\ Usable(a, v) /\ WarmClaimAbsent(v)
          /\ warmClaim' = [warmClaim EXCEPT ![v] = local[a].stamp + WarmClaimTtl]
          /\ \/ /\ NoFault /\ Go(a, "resume")
                /\ vmOf' = [vmOf EXCEPT ![a] = v]
                /\ vm' = [vm EXCEPT ![v].owner = a, ![v].since = local[a].stamp]
             \/ Fault /\ Skip(a, v) /\ UNCHANGED <<vm, vmOf>>
             \/ Fault /\ Go(a, "jit") /\ UNCHANGED <<vm, vmOf>>
     \/ /\ local[a].cands # {} /\ Fault /\ Go(a, "jit")
        /\ UNCHANGED <<warmClaim, vm, vmOf>>
  /\ UNCHANGED <<now, claim, mapping, registered, finished, jobOf>>

\* resumeMicrovm throws when the VM is no longer suspended.
Resume(a) ==
  LET v == vmOf[a] IN
  /\ pc[a] = "resume"
  /\ \/ /\ vm[v].state = "suspended"
        /\ vm' = [vm EXCEPT ![v].state = "pending"]
        /\ (NoFault /\ Go(a, "warmJit")) \/ (Fault /\ Go(a, "warmFail"))
     \/ /\ vm[v].state # "suspended" /\ NoFault
        /\ Go(a, "warmFail") /\ UNCHANGED vm
     \/ Fault /\ Go(a, "warmFail") /\ UNCHANGED vm
  /\ UNCHANGED <<now, tableVars, registered, finished, jobOf, vmOf>>

\* Once RUNNING, a runner is registered under this launch's runnerName.
WarmJit(a) ==
  /\ pc[a] = "warmJit"
  /\ vm[vmOf[a]].state = "running"
  /\ GenerateJitConfig(a, "warmPush", "warmFail")

\* waitForMicrovmRunning runs into a terminal state or out of time.
WarmWaitFails(a) ==
  /\ pc[a] = "warmJit"
  /\ (~Alive(vmOf[a]) /\ NoFault) \/ Fault
  /\ Go(a, "warmFail")
  /\ UNCHANGED <<now, tableVars, worldVars, jobOf, vmOf>>

WarmPush(a) ==
  /\ pc[a] = "warmPush"
  /\ PushJitConfig(a, "warmCommit", "warmFail")

WarmCommit(a) ==
  /\ pc[a] = "warmCommit"
  /\ CommitLaunch(a, "warmFail")

(***************************************************************************)
(* The catch block: terminate what was claimed, then fall back to cold     *)
(* under the same claim, unless the VM is armed and may still be alive.    *)
(***************************************************************************)
WarmFallBack(a) ==
  /\ pc[a] = "warmFail"
  /\ \/ Terminated(vmOf[a]) /\ NoFault /\ Go(a, "jit")
     \/ Fault /\ ~local[a].pushed /\ (UNCHANGED vm \/ Terminated(vmOf[a])) /\ Go(a, "jit")
     \/ Fault /\ local[a].pushed /\ (UNCHANGED vm \/ Terminated(vmOf[a])) /\ Go(a, "failed")
  /\ UNCHANGED <<now, tableVars, registered, finished, jobOf, vmOf>>

-----------------------------------------------------------------------------
(* The cold path of handleLaunch.                                          *)

ColdJit(a) ==
  /\ pc[a] = "jit"
  /\ GenerateJitConfig(a, "run", "release")

\* RunMicrovm: on an error nothing is known to exist and the claim goes.
RunMicrovm(a) ==
  /\ pc[a] = "run"
  /\ \/ \E v \in Vms :
          /\ vm[v].state = "none"
          /\ vm' = [vm EXCEPT ![v] = [state |-> "pending", born |-> now,
                                      since |-> now, owner |-> a, armed |-> {}]]
          /\ \/ NoFault /\ Go(a, "push") /\ vmOf' = [vmOf EXCEPT ![a] = v]
             \/ Fault /\ Go(a, "release") /\ UNCHANGED vmOf
     \/ Fault /\ Go(a, "release") /\ UNCHANGED <<vm, vmOf>>
  /\ UNCHANGED <<now, tableVars, registered, finished, jobOf>>

\* Wait for RUNNING, mint the token, push: any failure is compensated.
ColdPush(a) ==
  /\ pc[a] = "push"
  /\ PushJitConfig(a, "commit", "compensate")

ColdCommit(a) ==
  /\ pc[a] = "commit"
  /\ CommitLaunch(a, "compensate")

\* compensateAfterRunMicrovm: release only once terminate has answered.
Compensate(a) ==
  /\ pc[a] = "compensate"
  /\ \/ Terminated(vmOf[a]) /\ NoFault /\ Go(a, "release")
     \/ Fault /\ (UNCHANGED vm \/ Terminated(vmOf[a])) /\ Go(a, "failed")
  /\ UNCHANGED <<now, tableVars, registered, finished, jobOf, vmOf>>

-----------------------------------------------------------------------------
(* handleTerminate.                                                        *)

DeliverTerminate(a) ==
  /\ pc[a] = "idle"
  /\ \E r \in finished :
       \/ mapping[r] = NoVm /\ Go(a, "unknown") /\ UNCHANGED vmOf
       \/ /\ mapping[r] # NoVm
          /\ GoWith(a, "kill", [local[a] EXCEPT !.start = now, !.seen = r])
          /\ vmOf' = [vmOf EXCEPT ![a] = mapping[r]]
  /\ UNCHANGED <<now, tableVars, worldVars, faults, jobOf>>

KillVm(a) ==
  /\ pc[a] = "kill"
  /\ \/ Terminated(vmOf[a]) /\ NoFault /\ Go(a, "unmap")
     \/ Fault /\ (UNCHANGED vm \/ Terminated(vmOf[a])) /\ Go(a, "failed")
  /\ UNCHANGED <<now, tableVars, registered, finished, jobOf, vmOf>>

\* Best effort: a leftover row is the janitor's.
Unmap(a) ==
  /\ pc[a] = "unmap"
  /\ \/ mapping' = [mapping EXCEPT ![local[a].seen] = NoVm] /\ NoFault
     \/ UNCHANGED mapping /\ Fault
  /\ Go(a, "terminated")
  /\ UNCHANGED <<now, claim, warmClaim, worldVars, jobOf, vmOf>>

-----------------------------------------------------------------------------
(* The world around the launcher.                                          *)

\* The invocation is killed: an error, a reclaim, or its timeout.
Crash(a) ==
  /\ Live(a)
  /\ Go(a, "dead")
  /\ UNCHANGED <<now, tableVars, worldVars, faults, jobOf, vmOf>>

Boot(v) ==
  /\ vm[v].state = "pending"
  /\ vm' = [vm EXCEPT ![v].state = "running"]
  /\ UNCHANGED <<now, tableVars, registered, finished, faults, attemptVars>>

LifetimeEnds(v) ==
  /\ Exists(v)
  /\ now >= Deadline(v)
  /\ Terminated(v)
  /\ UNCHANGED <<now, tableVars, registered, finished, faults, attemptVars>>

\* A runner runs one job and deregisters; its completed webhook names it.
RunnerFinishes(v) ==
  /\ vm[v].state = "running"
  /\ \E r \in vm[v].armed \ finished :
       /\ finished' = finished \cup {r}
       /\ registered' = registered \ {r}
  /\ UNCHANGED <<now, tableVars, vm, faults, attemptVars>>

\* DynamoDB's TTL and the janitor's hygiene remove rows past expiresAt.
ExpireClaim(j) ==
  /\ claim[j] # FreeClaim
  /\ claim[j].expiresAt <= now
  /\ claim' = [claim EXCEPT ![j] = FreeClaim]
  /\ UNCHANGED <<now, mapping, warmClaim, worldVars, faults, attemptVars>>

ExpireWarmClaim(v) ==
  /\ warmClaim[v] # 0
  /\ warmClaim[v] <= now
  /\ warmClaim' = [warmClaim EXCEPT ![v] = 0]
  /\ UNCHANGED <<now, claim, mapping, worldVars, faults, attemptVars>>

\* No invocation outlives its timeout and no VM its deadline.
Tick ==
  /\ now < MaxNow
  /\ \A a \in Attempts : Live(a) => now < local[a].start + LambdaTimeout
  /\ \A v \in Vms : Exists(v) => now < Deadline(v)
  /\ now' = now + 1
  /\ UNCHANGED <<tableVars, worldVars, faults, attemptVars>>

-----------------------------------------------------------------------------
LaunchStep(a) ==
  \/ DeliverLaunch(a) \/ CheckCapacity(a) \/ FailUnclaimed(a)
  \/ PutClaim(a) \/ InspectClaim(a) \/ TakeOver(a) \/ Release(a)
  \/ ListPool(a) \/ ClaimWarmVm(a) \/ Resume(a) \/ WarmJit(a) \/ WarmWaitFails(a)
  \/ WarmPush(a) \/ WarmCommit(a) \/ WarmFallBack(a)
  \/ ColdJit(a) \/ RunMicrovm(a) \/ ColdPush(a) \/ ColdCommit(a) \/ Compensate(a)

TerminateStep(a) == DeliverTerminate(a) \/ KillVm(a) \/ Unmap(a)

Next ==
  \/ \E a \in Attempts : LaunchStep(a) \/ TerminateStep(a) \/ Crash(a)
  \/ \E v \in Vms : Boot(v) \/ LifetimeEnds(v) \/ RunnerFinishes(v) \/ ExpireWarmClaim(v)
  \/ \E j \in Jobs : ExpireClaim(j)
  \/ Tick

Spec == Init /\ [][Next]_vars

-----------------------------------------------------------------------------
(* Properties.                                                             *)

\* Every variable has the shape the code gives it.
TypeOK ==
  /\ now \in 0..MaxNow
  /\ claim \in [Jobs -> [holder : Attempts \cup {Nobody}, vm : Vms \cup {NoVm},
                         at : Nat, expiresAt : Nat]]
  /\ mapping \in [Attempts -> Vms \cup {NoVm}]
  /\ warmClaim \in [Vms -> Nat]
  /\ vm \in [Vms -> [state : {"none", "suspended", "pending", "running", "terminated"},
                     born : Nat, since : Nat, owner : Attempts \cup {Nobody},
                     armed : SUBSET Attempts]]
  /\ registered \subseteq Attempts /\ finished \subseteq Attempts
  /\ faults \in 0..MaxFaults
  /\ jobOf \in [Attempts -> Jobs]
  /\ pc \in [Attempts -> {"idle"} \cup LivePcs \cup FinalPcs]
  /\ local \in [Attempts -> [start : Nat, stamp : Nat, seen : Attempts \cup {Nobody},
                             cands : SUBSET Vms, pushed : BOOLEAN]]
  /\ vmOf \in [Attempts -> Vms \cup {NoVm}]

(***************************************************************************)
(* An attempt between a won acquire and its end still has its own token in *)
(* the claim row: no takeover, release or expiry takes the job from under  *)
(* a live launch (STALE_LEASE_SECONDS: "never while it's simply still      *)
(* running").                                                              *)
(***************************************************************************)
HolderKeepsClaim == \A a \in Attempts : Holding(a) => OwnsClaim(a)

\* Two live attempts never both launch for one job.
OneHolderPerJob ==
  \A a, b \in Attempts : Holding(a) /\ Holding(b) /\ jobOf[a] = jobOf[b] => a = b

\* v outlived its launch: the launch was killed, or terminate failed on v.
LeftBehind(v) ==
  LET a == vm[v].owner IN pc[a] \in {"failed", "dead"} \/ vmOf[a] # v

(***************************************************************************)
(* Duplicate deliveries and concurrent invocations resolve to a single VM, *)
(* however the claim moves from attempt to attempt, except for VMs whose   *)
(* launch was killed or could not terminate them.                          *)
(***************************************************************************)
OneLiveVmPerJob ==
  \A v, w \in Vms :
    /\ v # w /\ Alive(v) /\ Alive(w)
    /\ Nobody \notin {vm[v].owner, vm[w].owner}
    /\ jobOf[vm[v].owner] = jobOf[vm[w].owner]
    => LeftBehind(v) \/ LeftBehind(w)

(***************************************************************************)
(* commitLaunch's reason to be one transaction: as long as a mapped VM is  *)
(* alive its job's claim names that VM, so no later delivery can find the  *)
(* claim pending or absent and launch a second one.                        *)
(***************************************************************************)
MappedVmSealsClaim ==
  \A a \in Attempts :
    mapping[a] # NoVm /\ Alive(mapping[a]) => claim[jobOf[a]].vm = mapping[a]

\* "A mapping only ever exists for a VM that can actually pick up a job."
MappedVmIsArmed ==
  \A a \in Attempts : mapping[a] # NoVm => a \in vm[mapping[a]].armed

(***************************************************************************)
(* A launch that gives its claim back leaves nothing alive that its        *)
(* configuration could still start a runner in (the cold path).            *)
(***************************************************************************)
ReleaseLeavesNoArmedVm ==
  [][\A a \in Attempts :
       pc[a] = "release" /\ OwnsClaim(a) /\ ~OwnsClaim(a)'
       => \A v \in Vms : a \in vm[v].armed => ~Alive(v)]_vars

\* A pooled VM takes one runner configuration and serves one launch at a time.
WarmVmServesOneLaunch ==
  /\ \A v \in Vms : Cardinality(vm[v].armed) <= 1
  /\ \A a, b \in Attempts :
       /\ {pc[a], pc[b]} \subseteq WarmPcs \ {"warm", "claimWarm"}
       /\ vmOf[a] = vmOf[b]
       => a = b

(***************************************************************************)
(* A compensating terminate never hits a VM another launch armed, although *)
(* the warm path terminates whatever it claimed when the resume fails.     *)
(***************************************************************************)
CompensationSparesOthers ==
  [][\A a \in Attempts :
       /\ pc[a] \in {"warmFail", "compensate"}
       /\ Alive(vmOf[a]) /\ ~Alive(vmOf[a])'
       /\ pc[a] # pc'[a] /\ pc'[a] # "dead"
       => vm[vmOf[a]].armed \subseteq {a}]_vars

(***************************************************************************)
(* A pooled VM that is handed a job has a whole job duration left, although*)
(* its age was judged with a nowMs up to one invocation old.               *)
(***************************************************************************)
WarmVmOutlivesJob ==
  [][\A v \in Pool :
       vm'[v].armed # vm[v].armed => vm[v].born + PoolVmCap - now >= MaxJob]_vars

-----------------------------------------------------------------------------
(* The claim, read as the lease it promises.                               *)

HolderOf(j) == {a \in Attempts : Holding(a) /\ jobOf[a] = j}

\* A live holder first: after a commit whose answer was lost it still holds.
ReadLease(holders, row) ==
  IF holders # {} THEN <<"held", CHOOSE a \in holders : TRUE>>
  ELSE IF row.vm # NoVm THEN <<"launched", row.holder>>
  ELSE <<"free">>

LeaseOf(j) == ReadLease(HolderOf(j), claim[j])

Lease == INSTANCE LaunchLease WITH lease <- [j \in Jobs |-> LeaseOf(j)]

\* The launcher's claim protocol implements the abstract lease.
ImplementsLease == Lease!Spec

-----------------------------------------------------------------------------
(* What the documents say and the code does not keep.                      *)

(***************************************************************************)
(* docs/architecture.md, lifecycle step 3: on the cold path the            *)
(* registration exists before the VM does, "and the launcher releases it   *)
(* if the launch then fails".                                              *)
(***************************************************************************)
FailedLaunchLeavesNoRunner ==
  \A a \in Attempts : pc[a] = "failed" => a \notin registered

(***************************************************************************)
(* compensateAfterRunMicrovm keeps the claim of a VM it could not          *)
(* terminate "so nothing else launches a second VM for this job while it   *)
(* might still be alive".                                                  *)
(***************************************************************************)
RetainedClaimBlocksSecondVm ==
  \A v, w \in Vms :
    /\ v # w /\ Alive(v) /\ Alive(w)
    /\ Nobody \notin {vm[v].owner, vm[w].owner}
    /\ pc[vm[v].owner] = "failed" /\ vmOf[vm[v].owner] = v
    => jobOf[vm[v].owner] # jobOf[vm[w].owner]

(***************************************************************************)
(* tryWarmPath: when the push did not succeed, "cold fallback remains safe *)
(* and unchanged" whatever became of the compensating terminate.           *)
(***************************************************************************)
ColdFallbackLeavesNoArmedVm ==
  \A v \in Vms :
    Alive(v) => \A a \in vm[v].armed : pc[a] \in ColdPcs => vmOf[a] = v /\ pc[a] # "jit"

=============================================================================
