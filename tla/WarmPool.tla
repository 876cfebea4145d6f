------------------------------- MODULE WarmPool -------------------------------
(***************************************************************************)
(* The warm pool of one runner class (src/handlers/warm-pool.ts): a        *)
(* scheduled tick lists the class's suspended VMs, retires those that can  *)
(* no longer serve a job, and boots and suspends what the target misses.   *)
(*                                                                         *)
(* Ticks overlap, because a fill may outlast the schedule's interval, and  *)
(* they share the pool with launches (the warm path of launcher.ts, whose  *)
(* detail is in Launcher), with deployments that supersede the image, and  *)
(* with the platform's lifetime cap.  Ticks and launches list the pool     *)
(* page by page through microvm-client.ts.                                 *)
(***************************************************************************)
EXTENDS Integers, FiniteSets, FiniteSetsExt, Sequences

CONSTANTS
  Ticks,        \* how many ticks may overlap
  Launches,     \* launches that try the warm path
  Pages,        \* the VM ids, numbers, as the pages a listing returns them on
  NoVm,
  Target,       \* the label's entry in WARM_POOL_JSON
  VmCap,        \* PLATFORM_VM_LIFETIME_CEILING_SECONDS
  JobNeed,      \* MAX_JOB_DURATION_SECONDS + MAX_DURATION_GRACE_SECONDS
  WarmClaimTtl, \* WARM_CLAIM_TTL_SECONDS
  MaxAttempts,  \* LIST_MICROVMS_MAX_ATTEMPTS
  MaxChanges,   \* bound: steps of the clock and deployments together
  MaxFaults     \* bound: failing calls, lost answers and killed invocations

Vms == UNION {Pages[i] : i \in DOMAIN Pages}

ASSUME SetsAssumption ==
  /\ Pages \in Seq(SUBSET Nat) /\ Pages # <<>>
  /\ IsFiniteSet(Vms) /\ NoVm \notin Vms /\ IsFiniteSet(Ticks)
ASSUME NumbersAssumption ==
  /\ {Target, VmCap, WarmClaimTtl, MaxAttempts} \subseteq Nat \ {0}
  /\ {JobNeed, MaxChanges, MaxFaults} \subseteq Nat /\ JobNeed <= VmCap

VARIABLES
  now,
  image,     \* the deployed image version: booted by RunMicrovm, and in every new SIZE_CLASSES_JSON
  vm,        \* each VM's state, creation time, image version, and whether it holds a job's runner
  warmClaim, \* warmvm#... rows: expiresAt, 0 when there is no row
  tick,
  launch,
  faults,    \* faults spent
  spared     \* suspended VMs a listing missed or a retirement left alive (history)

vars == <<now, image, vm, warmClaim, tick, launch, faults, spared>>

Ended == [state |-> "ended", born |-> 0, version |-> 0, armed |-> FALSE]

(***************************************************************************)
(* A tick: the image version it was configured with; the page it reads     *)
(* next and how often it asked; todo: the VMs listed, then those it has    *)
(* still to retire; want: VMs it has still to add; vm: the one in hand.    *)
(***************************************************************************)
Idle == [pc |-> "idle", version |-> 0, page |-> 1, tries |-> 1, todo |-> {}, want |-> 0, vm |-> NoVm]

\* A launch: its configured version and clock, both read when it began, and its VM.
NotLaunching == [pc |-> "idle", version |-> 0, stamp |-> 0, vm |-> NoVm]

Suspended(v) == vm[v].state = "suspended"
Held(v) == (\E t \in Ticks : tick[t].vm = v) \/ \E a \in Launches : launch[a].vm = v
\* A tick's own clock and configuration (c), or a launch's, judge a pooled VM.
WarmVmCanServeJob(v, t) == VmCap - (t - vm[v].born) >= JobNeed
CurrentContent(v, c) == vm[v].version = c
Usable(v, t, c) == CurrentContent(v, c) /\ WarmVmCanServeJob(v, t)

\* What a tick of configuration c may count, judged by the clock as it is.
UsableAmong(found, c) == {v \in found : Usable(v, now, c)}

\* With a VM goes the row of its claim, which nothing reads again.
EndVm(v) == vm' = [vm EXCEPT ![v] = Ended] /\ warmClaim' = [warmClaim EXCEPT ![v] = 0]

NoFault == faults' = faults
Fault == faults < MaxFaults /\ faults' = faults + 1

At(t, label) == tick[t].pc = label
Become(t, r) == tick' = [tick EXCEPT ![t] = r]
Go(t, label) == Become(t, [tick[t] EXCEPT !.pc = label])
LaunchOver(a) == launch' = [launch EXCEPT ![a] = [NotLaunching EXCEPT !.pc = "done"]]

-----------------------------------------------------------------------------
(* Plausible bugs, each a changed form of a definition further down.       *)

PlanFullTarget(current) == Target

\* Old VMs count towards the target and are left alone.
PlanKeepsOld(found, c) ==
  [Idle EXCEPT !.pc = "converge", !.version = c,
               !.want = IF Cardinality(found) < Target THEN Target - Cardinality(found) ELSE 0]

\* The pool is trimmed to its target as well, the oldest first.
PlanTrims(found, c) ==
  LET usable == UsableAmong(found, c)
      surplus == {v \in usable : Cardinality({w \in usable : w > v}) >= Target}
  IN [Idle EXCEPT !.pc = "converge", !.version = c, !.todo = (found \ usable) \cup surplus,
                  !.want = IF Cardinality(usable) < Target THEN Target - Cardinality(usable) ELSE 0]

-----------------------------------------------------------------------------
Init ==
  /\ now = 0 /\ image = 1
  /\ vm = [v \in Vms |-> Ended]
  /\ warmClaim = [v \in Vms |-> 0]
  /\ tick = [t \in Ticks |-> Idle] /\ launch = [a \in Launches |-> NotLaunching]
  /\ faults = 0 /\ spared = {}

-----------------------------------------------------------------------------
(* listSuspendedVmsForImage: one page a step, so that a later page is read *)
(* after the pool has changed.                                             *)

SuspendedOn(t) == {v \in Pages[tick[t].page] : Suspended(v)}

PlanConvergence(current) == IF current < Target THEN Target - current ELSE 0

\* The pool as listed, split by the clock read when the listing is over.
Plan(found, c) ==
  LET usable == UsableAmong(found, c)
  IN [pc |-> "converge", version |-> c, page |-> 1, tries |-> 1, todo |-> found \ usable,
      want |-> PlanConvergence(Cardinality(usable)), vm |-> NoVm]

\* A page, and an item that came without its startedAt left out of it.
ReadPage(t) ==
  /\ At(t, "list")
  /\ \E missed \in SUBSET SuspendedOn(t) :
       /\ Cardinality(missed) <= 1
       /\ IF missed = {} THEN NoFault ELSE Fault
       /\ spared' = spared \cup missed
       /\ LET found == tick[t].todo \cup (SuspendedOn(t) \ missed) IN
          Become(t, IF tick[t].page = Len(Pages) THEN Plan(found, tick[t].version)
                    ELSE [tick[t] EXCEPT !.todo = found, !.page = @ + 1, !.tries = 1])
  /\ UNCHANGED <<now, image, vm, warmClaim, launch>>

\* A throttled page is asked for again, the same page, a bounded number of times.
Throttled(t) ==
  /\ At(t, "list") /\ Fault
  /\ tick[t].tries < MaxAttempts
  /\ Become(t, [tick[t] EXCEPT !.tries = @ + 1])
  /\ UNCHANGED <<now, image, vm, warmClaim, launch, spared>>

\* Attempts used up, or another error: the tick leaves the label.
ListFails(t) ==
  /\ At(t, "list") /\ Fault
  /\ Become(t, Idle)
  /\ UNCHANGED <<now, image, vm, warmClaim, launch, spared>>

-----------------------------------------------------------------------------
(* The tick (handler, convergeLabel).                                      *)

StartTick(t) ==
  /\ At(t, "idle")
  /\ Become(t, [Idle EXCEPT !.pc = "list", !.version = image])
  /\ UNCHANGED <<now, image, vm, warmClaim, launch, faults, spared>>

(***************************************************************************)
(* One retirement of the loop.  The VM is whatever it has become since it  *)
(* was listed.  A failed call may have ended the VM, and the loop goes on. *)
(***************************************************************************)
Retire(t) ==
  /\ At(t, "converge")
  /\ tick[t].todo # {}
  /\ LET v == Min(tick[t].todo) IN
     /\ Become(t, [tick[t] EXCEPT !.todo = @ \ {v}])
     /\ \/ NoFault /\ EndVm(v) /\ spared' = spared \ {v}
        \/ Fault /\ UNCHANGED <<vm, warmClaim>> /\ spared' = spared \cup {v}
        \/ Fault /\ EndVm(v) /\ spared' = spared \ {v}
  /\ UNCHANGED <<now, image, launch>>

\* An id a new VM may have: nothing refers to it.  The ids of a page are interchangeable.
Unused(v) ==
  /\ vm[v].state = "ended" /\ ~Held(v)
  /\ \A t \in Ticks : v \notin tick[t].todo

FirstUnused(v) ==
  /\ Unused(v)
  /\ \E i \in DOMAIN Pages : v \in Pages[i] /\ \A w \in Pages[i] : w < v => ~Unused(w)

(***************************************************************************)
(* launchAndSuspendOne.  RunMicrovm boots the deployed version, whatever   *)
(* the tick's own is; one that fails may still have created a VM.          *)
(***************************************************************************)
RunMicrovm(t) ==
  /\ At(t, "converge") /\ tick[t].todo = {} /\ tick[t].want > 0
  /\ \/ \E v \in Vms :
          /\ FirstUnused(v)
          /\ vm' = [vm EXCEPT ![v] = [state |-> "running", born |-> now,
                                      version |-> image, armed |-> FALSE]]
          /\ warmClaim' = [warmClaim EXCEPT ![v] = 0]
          /\ spared' = spared \ {v}
          /\ \/ NoFault /\ Become(t, [tick[t] EXCEPT !.pc = "suspend", !.vm = v])
             \/ Fault /\ Become(t, [tick[t] EXCEPT !.want = @ - 1])
     \/ Fault /\ Become(t, [tick[t] EXCEPT !.want = @ - 1]) /\ UNCHANGED <<vm, warmClaim, spared>>
  /\ UNCHANGED <<now, image, launch>>

\* waitForMicrovmRunning, then suspendMicrovm.
SuspendVm(t) ==
  LET v == tick[t].vm IN
  /\ At(t, "suspend")
  /\ \/ /\ vm[v].state = "running" /\ vm' = [vm EXCEPT ![v].state = "suspended"]
        /\ \/ NoFault /\ Become(t, [tick[t] EXCEPT !.pc = "converge", !.want = @ - 1, !.vm = NoVm])
           \/ Fault /\ Go(t, "compensate")
     \/ vm[v].state = "ended" /\ NoFault /\ UNCHANGED vm /\ Go(t, "compensate")
     \/ Fault /\ UNCHANGED vm /\ Go(t, "compensate")
  /\ UNCHANGED <<now, image, warmClaim, launch, spared>>

\* The best-effort terminate: the VM counts as not launched either way.
Compensate(t) ==
  /\ At(t, "compensate")
  /\ \/ NoFault /\ EndVm(tick[t].vm) /\ UNCHANGED spared
     \/ Fault /\ UNCHANGED <<vm, warmClaim>> /\ spared' = spared \cup {tick[t].vm}
  /\ Become(t, [tick[t] EXCEPT !.pc = "converge", !.want = @ - 1, !.vm = NoVm])
  /\ UNCHANGED <<now, image, launch>>

EndTick(t) ==
  /\ At(t, "converge") /\ tick[t].todo = {} /\ tick[t].want = 0
  /\ Become(t, Idle)
  /\ UNCHANGED <<now, image, vm, warmClaim, launch, faults, spared>>

-----------------------------------------------------------------------------
(* A launch's warm path (tryWarmPath), up to the push.                     *)

StartLaunch(a) ==
  /\ launch[a].pc = "idle"
  /\ launch' = [launch EXCEPT ![a] = [pc |-> "claim", version |-> image, stamp |-> now, vm |-> NoVm]]
  /\ UNCHANGED <<now, image, vm, warmClaim, tick, faults, spared>>

ClaimAbsent(v) == warmClaim[v] = 0

\* List the pool, skip what cannot serve or is claimed, claim the first left; none, go cold.
ClaimWarmVm(a) ==
  LET l == launch[a]
      free == {v \in Vms : Suspended(v) /\ Usable(v, l.stamp, l.version) /\ ClaimAbsent(v)}
  IN
  /\ l.pc = "claim"
  /\ \/ /\ free # {} /\ NoFault
        /\ warmClaim' = [warmClaim EXCEPT ![Min(free)] = l.stamp + WarmClaimTtl]
        /\ launch' = [launch EXCEPT ![a] = [NotLaunching EXCEPT !.pc = "resume", !.vm = Min(free)]]
     \/ (IF free = {} THEN NoFault ELSE Fault) /\ UNCHANGED warmClaim /\ LaunchOver(a)
  /\ UNCHANGED <<now, image, vm, tick, spared>>

\* Resume and push: from then on the VM holds the job's runner.
TakeVm(a) ==
  LET v == launch[a].vm IN
  /\ launch[a].pc = "resume"
  /\ \/ /\ Suspended(v) /\ NoFault /\ LaunchOver(a)
        /\ vm' = [vm EXCEPT ![v].state = "running", ![v].armed = TRUE]
     \/ /\ UNCHANGED vm
        /\ IF Suspended(v) THEN Fault ELSE NoFault
        /\ launch' = [launch EXCEPT ![a].pc = "fail"]
  /\ UNCHANGED <<now, image, warmClaim, tick, spared>>

FallBack(a) ==
  LET v == launch[a].vm IN
  /\ launch[a].pc = "fail" /\ LaunchOver(a)
  /\ \/ NoFault /\ EndVm(v)
     \/ Fault /\ UNCHANGED <<vm, warmClaim>>
  /\ UNCHANGED <<now, image, tick, spared>>

-----------------------------------------------------------------------------
(* The platform, deployments and the janitor.                              *)

\* An invocation is killed: the function's timeout, or the platform.
KillTick(t) ==
  /\ ~At(t, "idle") /\ Fault
  /\ spared' = spared \cup {v \in tick[t].todo : Suspended(v)}
  /\ Become(t, Idle)
  /\ UNCHANGED <<now, image, vm, warmClaim, launch>>

KillLaunch(a) ==
  /\ launch[a].pc \notin {"idle", "done"} /\ Fault
  /\ LaunchOver(a)
  /\ UNCHANGED <<now, image, vm, warmClaim, tick, spared>>

\* The lifetime cap, which runs while a VM is suspended too; or a finished job.
VmEnds(v) ==
  /\ vm[v].state # "ended"
  /\ now - vm[v].born >= VmCap \/ vm[v].armed
  /\ EndVm(v)
  /\ spared' = spared \ {v}
  /\ UNCHANGED <<now, image, tick, launch, faults>>

\* Rule 6: a RUNNING VM with no row and no launch or fill behind it.
JanitorReapsOrphan(v) ==
  /\ vm[v].state = "running" /\ ~vm[v].armed /\ ~Held(v)
  /\ EndVm(v)
  /\ spared' = spared \ {v}
  /\ UNCHANGED <<now, image, tick, launch, faults>>

ExpireWarmClaim(v) ==
  /\ warmClaim[v] # 0 /\ now >= warmClaim[v]
  /\ warmClaim' = [warmClaim EXCEPT ![v] = 0]
  /\ UNCHANGED <<now, image, vm, tick, launch, faults, spared>>

Changing == now + image <= MaxChanges

Deploy ==
  /\ Changing /\ image' = image + 1
  /\ UNCHANGED <<now, vm, warmClaim, tick, launch, faults, spared>>

PassTime ==
  /\ Changing /\ now' = now + 1
  /\ \A v \in Vms : vm[v].state # "ended" => now - vm[v].born < VmCap
  /\ UNCHANGED <<image, vm, warmClaim, tick, launch, faults, spared>>

-----------------------------------------------------------------------------
TickStep(t) == ReadPage(t) \/ Retire(t) \/ RunMicrovm(t) \/ SuspendVm(t) \/ Compensate(t) \/ EndTick(t)
LaunchStep(a) == ClaimWarmVm(a) \/ TakeVm(a) \/ FallBack(a)
VmStep(v) == VmEnds(v) \/ JanitorReapsOrphan(v) \/ ExpireWarmClaim(v)

Next ==
  \/ \E t \in Ticks : StartTick(t) \/ TickStep(t) \/ Throttled(t) \/ ListFails(t) \/ KillTick(t)
  \/ \E a \in Launches : StartLaunch(a) \/ LaunchStep(a) \/ KillLaunch(a)
  \/ \E v \in Vms : VmStep(v)
  \/ Deploy \/ PassTime

(***************************************************************************)
(* The scheduler keeps starting ticks, an invocation that is not killed    *)
(* runs on, VMs end, the janitor keeps sweeping, and the table's time to   *)
(* live removes rows.  Faults, deployments and launches may never come.    *)
(***************************************************************************)
Fairness ==
  /\ \A t \in Ticks : WF_vars(StartTick(t)) /\ WF_vars(TickStep(t))
  /\ \A a \in Launches : WF_vars(LaunchStep(a))
  /\ \A v \in Vms : WF_vars(VmEnds(v)) /\ WF_vars(JanitorReapsOrphan(v))
                    /\ WF_vars(ExpireWarmClaim(v))

Spec == Init /\ [][Next]_vars /\ Fairness

-----------------------------------------------------------------------------
Vm == [state : {"running", "suspended", "ended"}, born : 0..MaxChanges,
       version : 0..MaxChanges + 1, armed : BOOLEAN]
Tick == [pc : {"idle", "list", "converge", "suspend", "compensate"}, version : 0..MaxChanges + 1,
         page : 1..Len(Pages), tries : 1..MaxAttempts, todo : SUBSET Vms, want : 0..Target,
         vm : Vms \cup {NoVm}]
Launch == [pc : {"idle", "claim", "resume", "fail", "done"}, version : 0..MaxChanges + 1,
           stamp : 0..MaxChanges, vm : Vms \cup {NoVm}]

\* The shape of every variable.
TypeOK ==
  /\ now \in 0..MaxChanges /\ image \in 1..MaxChanges + 1 /\ faults \in 0..MaxFaults
  /\ vm \in [Vms -> Vm] /\ warmClaim \in [Vms -> 0..MaxChanges + WarmClaimTtl]
  /\ tick \in [Ticks -> Tick] /\ launch \in [Launches -> Launch] /\ spared \subseteq Vms

Condemned(v) == \E t \in Ticks : At(t, "converge") /\ v \in tick[t].todo
Stock == {v \in Vms : /\ Suspended(v) /\ v \notin spared /\ ~Condemned(v)
                      /\ \A t \in Ticks : tick[t].vm # v}
Slots == {s \in Ticks \X (1..Target) : s[2] <= tick[s[1]].want}   \* that ticks have still to fill

(***************************************************************************)
(* Two overlapping ticks list the same pool and both fill it; nothing ever *)
(* shrinks a surplus.  Still the pool, with what is on its way to it,      *)
(* never exceeds one target for each tick that may overlap, however often  *)
(* ticks, claims and deployments follow each other.                        *)
(***************************************************************************)
PoolIsBounded == Cardinality(Stock) + Cardinality(Slots) <= Target * Cardinality(Ticks)

(***************************************************************************)
(* Once launches, deployments and faults stop, the pool is at its target   *)
(* with VMs that carry the deployed image and can outlive a job, holds no  *)
(* other, and stays so: a retirement that failed is tried again by a later *)
(* tick, and neither old VMs nor failed ticks keep a slot from refilling.  *)
(***************************************************************************)
PoolConverges ==
  LET pooled == {v \in Vms : Suspended(v)}
  IN <>[](Cardinality(pooled) >= Target /\ \A v \in pooled : Usable(v, now, image))

(***************************************************************************)
(* A launch claims a VM it listed and a tick ends a VM it listed, and      *)
(* neither asks the other: they stay apart because both judge a VM alike.  *)
(* So a launch takes a VM that a tick has condemned only when the two read *)
(* their clock or their configuration at different times.                  *)
(***************************************************************************)
LaunchShunsTheCondemned ==
  [][\A a \in Launches, t \in Ticks :
       launch[a].pc = "claim" /\ launch'[a].vm \in Vms /\ At(t, "converge")
         /\ launch'[a].vm \in tick[t].todo
         => launch[a].version # tick[t].version \/ launch[a].stamp < now]_vars

(***************************************************************************)
(* Retirement never ends a VM that already holds a job's runner (said of   *)
(* the retirement pass, warm-pool.ts:222: it "frees the launcher from ever *)
(* seeing" the VMs it retires).                                            *)
(***************************************************************************)
RetirementSparesJobs ==
  [][\A t \in Ticks, v \in Vms :
       At(t, "converge") /\ v \in tick[t].todo \ tick'[t].todo /\ vm[v].armed
         => vm'[v].armed]_vars

(***************************************************************************)
(* A VM that a tick counts as current can take a job: it is free, or the   *)
(* launch that claimed it is still at work on it (docs/warm-pools.md:72).  *)
(***************************************************************************)
CountedVmIsClaimable ==
  [][\A t \in Ticks : At(t, "list") /\ tick'[t].pc = "converge" =>
       \A v \in (tick[t].todo \cup SuspendedOn(t)) \ tick'[t].todo :
         Suspended(v) => ClaimAbsent(v) \/ Held(v)]_vars

=============================================================================
