------------------------------- MODULE Janitor -------------------------------
(***************************************************************************)
(* The janitor Lambda (src/handlers/janitor.ts): a scheduled sweep lists   *)
(* the runner set's MicroVMs, scans the runner table and decides about one *)
(* table row or one VM at a time, against GitHub's list of runners.  This  *)
(* module is its first phase, reconcileTable, with rules 1 to 6.           *)
(*                                                                         *)
(* One action per awaited call.  Decisions use what the sweep has read:    *)
(* the VM list, the table scan and the cached list of runners all age      *)
(* while the launcher, the warm pool, GitHub and the webhook go on.        *)
(*                                                                         *)
(* Time is kept as ages, counted up to MaxAge, so that behaviours need not *)
(* stop.  nowMs is read once, when a sweep starts: a timestamp t is        *)
(* t - clock old for that sweep, clock being the sweep's own age.          *)
(***************************************************************************)
EXTENDS Integers, FiniteSets

CONSTANTS
  Vms,           \* MicroVM ids; each serves at most one launch
  Pool,          \* the VMs the warm pool launches, the others are cold
  None,          \* a timestamp that is not there
  Interval,      \* JANITOR_INTERVAL_SECONDS
  Slack,         \* SWEEP_JITTER_SLACK_MS
  Jitter,        \* how early or late the schedule fires
  SweepTime,     \* how long a sweep runs
  LaunchTime,    \* LAUNCHER_TIMEOUT_SECONDS
  GracePeriod,   \* GRACE_SECONDS
  MaxJob,        \* MAX_JOB_DURATION_SECONDS
  LifetimeGrace, \* LIFETIME_CAP_GRACE_SECONDS
  WarmClaimTtl,  \* WARM_CLAIM_TTL_SECONDS
  RowTtl,        \* a mapping row's expiresAt: MaxJob + one hour
  MaxAge,        \* bound: ages count up to here
  MaxFaults      \* bound: how many calls fail and how often runner ids change

ASSUME SetsAssumption == IsFiniteSet(Vms) /\ Pool \subseteq Vms /\ None \notin Nat

ASSUME TimesAssumption ==
  /\ {Interval, Slack, Jitter, SweepTime, LaunchTime, GracePeriod, MaxJob,
      LifetimeGrace, WarmClaimTtl, RowTtl, MaxAge, MaxFaults} \subseteq Nat
  /\ Jitter <= Slack /\ MaxJob < RowTtl /\ SweepTime <= MaxAge

(***************************************************************************)
(* validateNumericProps: the interval exceeds the launcher's timeout, here *)
(* by the slack and by the time a sweep takes to reach its listing.        *)
(***************************************************************************)
ASSUME IntervalAssumption ==
  /\ LaunchTime + SweepTime < Interval - Slack
  /\ LaunchTime < WarmClaimTtl

VARIABLES
  vm,        \* state, age, and whether its image is one of the current ones
  job,       \* the launch that owns the VM: phase, configuration, age
  runner,    \* the VM's runner at GitHub
  listed,    \* the runner as listRunners still shows it
  row,       \* its mapping row: what it is, age, suspectSince, runnerId
  orphan,    \* the orphan-vm-<id> row: orphanSince, None when not there
  warmClaim, \* the warmvm#<id> row: claimedAt, None when not there
  clock,     \* time since the sweep under way read its nowMs
  due,       \* time since the schedule last fired
  sweep,     \* the phase of the sweep, "off" or "killed" between sweeps
  snap,      \* what the sweep has read of each VM and its rows
  cache,     \* runnersByTarget, Unloaded until the first use
  todo,      \* the items still to reconcile
  item,      \* the item being reconciled
  faults     \* faults spent

worldVars == <<vm, job, runner, listed, warmClaim>>
tableVars == <<row, orphan>>
sweepVars == <<sweep, snap, cache, todo, item>>
vars == <<worldVars, tableVars, clock, due, sweepVars, faults>>

Ages == 0..MaxAge
Times == Ages \cup {None}
RunnerStates == {"absent", "idle", "busy"}
VmStates == {"none", "pending", "running", "suspended", "terminated"}
Gone(v) == vm[v].state \in {"none", "terminated"}
Launching(v) == job[v].phase = "launching"
Idling(v) == job[v].phase = "pooled" \/ (Gone(v) /\ ~Launching(v))
Served(v) == job[v].phase \in {"launching", "committed"}

NoRow == [is |-> "none", age |-> 0, suspect |-> None, id |-> "none"]
Unloaded == <<>>
NoItem == [vm |-> None, kind |-> "none", step |-> "none", rule |-> "none", writes |-> {}]
Unread ==
  [state |-> "unlisted", graced |-> FALSE, aged |-> FALSE, served |-> FALSE,
   mapped |-> FALSE, expired |-> FALSE, suspect |-> "none", id |-> "none", orphan |-> "none"]

LifetimeCap == MaxJob + LifetimeGrace + Interval

NoFault == faults' = faults
Fault == faults < MaxFaults /\ faults' = faults + 1

At(v, step) == item.vm = v /\ item.step = step
Done == item' = NoItem
Then(step) == IF step = "done" THEN Done ELSE item' = [item EXCEPT !.step = step]

\* The per-item catch: a call that throws ends this item only.
ItemFails == Fault /\ Done

-----------------------------------------------------------------------------
(* Plausible bugs, each a changed form of a definition further down.       *)

IsOlderThanNothing(t) == t >= clock

IsOlderThanFullInterval(t) == t - clock >= Interval

ServedTooLongUnclaimed(v) == v \in Vms

UnlistedIgnored(v) == v \notin Vms

FirstStepRowsFirst(s, k) ==
  CASE k = "row" -> "judge"
    [] k = "goneRow" -> "unmap"
    [] k = "goneOrphan" -> "unstrike"
    [] k = "bare" -> "strike"
    [] k = "orphan" -> IF s.mapped THEN "unstrike" ELSE IF s.orphan = "old" THEN "reread" ELSE "done"

PutOrphanRowUndated(v) ==
  /\ At(v, "strike") /\ NoFault /\ Done
  /\ orphan' = [orphan EXCEPT ![v] = MaxAge + 1]
  /\ UNCHANGED <<worldVars, row, clock, due, sweep, snap, cache, todo>>

UpsertRow(v, new) ==
  row' = [row EXCEPT ![v] = [new EXCEPT !.is = IF @ = "none" THEN "zombie" ELSE @]]

DeregisterSkipped(v) ==
  /\ At(v, "deregister") /\ NoFault /\ Then("kill")
  /\ UNCHANGED <<worldVars, tableVars, clock, due, sweep, snap, cache, todo>>

-----------------------------------------------------------------------------
(* What a sweep computes from timestamps, with nowMs read at its start.    *)

\* isOlderThanInterval: was t written on an earlier sweep?
IsOlderThanInterval(t) == t - clock >= Interval - Slack

Strike(t) ==
  IF t = None THEN "none" ELSE IF IsOlderThanInterval(t) THEN "old" ELSE "fresh"

\* noteClaim's stamps of v: its mapping row's launchedAt, its warm claim's claimedAt.
ClaimTimes(v) ==
  (IF row[v].is = "mapping" THEN {row[v].age} ELSE {}) \cup ({warmClaim[v]} \ {None})

\* lifetimeAgeSeconds, when some claim is known: since the earliest, never the VM's age.
ServedTooLong(v) ==
  LET known == ClaimTimes(v) IN
  known # {} => \E t \in known : t - clock > LifetimeCap

-----------------------------------------------------------------------------
Init ==
  /\ vm = [v \in Vms |-> [state |-> "none", age |-> 0, current |-> TRUE]]
  /\ job = [v \in Vms |-> [phase |-> "none", config |-> "none", age |-> 0]]
  /\ runner = [v \in Vms |-> "absent"]
  /\ listed = [v \in Vms |-> "absent"]
  /\ row = [v \in Vms |-> NoRow]
  /\ orphan = [v \in Vms |-> None]
  /\ warmClaim = [v \in Vms |-> None]
  /\ clock = 0 /\ due = 0
  /\ sweep = "off" /\ snap = [v \in Vms |-> Unread]
  /\ cache = Unloaded /\ todo = {} /\ item = NoItem
  /\ faults = 0

-----------------------------------------------------------------------------
(* The sweep: buildContext, then the reads of reconcileTable.              *)

\* The schedule fires, or Lambda retries the invocation of a killed sweep.
StartSweep ==
  /\ \/ sweep \in {"off", "killed"} /\ due >= Interval - Jitter /\ due' = 0
     \/ sweep = "killed" /\ UNCHANGED due
  /\ sweep' = "list" /\ clock' = 0
  /\ UNCHANGED <<worldVars, tableVars, snap, cache, todo, item, faults>>

\* The sweep is over: its context goes with it.
SweepEnds(p) ==
  /\ sweep' = p /\ snap' = [v \in Vms |-> Unread]
  /\ cache' = Unloaded /\ todo' = {} /\ item' = NoItem

\* What a VM object of the platform tells the sweep.
ReadVm(s, v) ==
  [s EXCEPT !.state = vm[v].state,
            !.graced = vm[v].age - clock > GracePeriod,
            !.aged = vm[v].age - clock > LifetimeCap]

\* listRunnerSetVms: the VMs of the current image ARNs, in every state.
ListVms ==
  /\ sweep = "list"
  /\ \/ /\ NoFault
        /\ snap' = [v \in Vms |->
             IF vm[v].current /\ vm[v].state # "none" THEN ReadVm(snap[v], v) ELSE snap[v]]
        /\ sweep' = "scan"
        /\ UNCHANGED <<cache, todo, item>>
     \/ Fault /\ SweepEnds("off")
  /\ UNCHANGED <<worldVars, tableVars, clock, due>>

ReadRows(s, v) ==
  [s EXCEPT !.mapped = row[v].is = "mapping",
            !.expired = row[v].age - clock >= RowTtl,
            !.suspect = Strike(row[v].suspect),
            !.id = row[v].id,
            !.orphan = Strike(orphan[v]),
            !.served = ServedTooLong(v)]

ScanTable ==
  /\ sweep = "scan"
  /\ \/ /\ NoFault
        /\ snap' = [v \in Vms |-> ReadRows(snap[v], v)]
        /\ sweep' = "map"
        /\ UNCHANGED <<cache, todo, item>>
     \/ Fault /\ SweepEnds("off")
  /\ UNCHANGED <<worldVars, tableVars, clock, due>>

Rowed(s) == s.mapped \/ s.orphan # "none"
Unlisted(v) == snap[v].state = "unlisted" /\ Rowed(snap[v])

(***************************************************************************)
(* The items of the sweep: a row with a RUNNING VM, a row whose VM is gone *)
(* and that may be deleted (rule 5), a RUNNING VM with no row at all.      *)
(***************************************************************************)
ItemsOf(s) ==
  LET gone == s.state \in {"none", "terminated"}
      running == s.state = "running"
  IN  {k \in {"row", "orphan", "bare", "goneRow", "goneOrphan"} :
         \/ k = "row" /\ s.mapped /\ running
         \/ k = "orphan" /\ s.orphan # "none" /\ running
         \/ k = "bare" /\ ~Rowed(s) /\ running
         \/ k = "goneRow" /\ s.mapped /\ gone /\ s.expired
         \/ k = "goneOrphan" /\ s.orphan # "none" /\ gone}

\* buildVmMap: getMicrovm for the rows' VMs that were not listed.
MapVms ==
  /\ sweep = "map"
  /\ \E failed \in SUBSET {v \in Vms : Unlisted(v)} :
       /\ Cardinality(failed) + faults <= MaxFaults
       /\ faults' = faults + Cardinality(failed)
       /\ snap' = [v \in Vms |->
            IF Unlisted(v) /\ v \notin failed THEN ReadVm(snap[v], v) ELSE snap[v]]
  /\ todo' = UNION {{v} \X ItemsOf(snap'[v]) : v \in Vms}
  /\ sweep' = "items"
  /\ UNCHANGED <<worldVars, tableVars, clock, due, cache, item>>

\* The sweep ends after its last item, or is killed: an error or its timeout.
EndSweep ==
  /\ \/ sweep = "items" /\ todo = {} /\ item = NoItem /\ NoFault /\ SweepEnds("off")
     \/ sweep \notin {"off", "killed"} /\ Fault /\ SweepEnds("killed")
  /\ UNCHANGED <<worldVars, tableVars, clock, due>>

-----------------------------------------------------------------------------
(* One item.                                                               *)

\* reconcileRunningVm: the lifetime backstop first, then the row's rules.
FirstStep(s, k) ==
  IF k = "goneRow" THEN "unmap"
  ELSE IF k = "goneOrphan" THEN "unstrike"
  ELSE IF s.aged /\ s.served THEN "lifetimeKill"
  ELSE IF k = "bare" THEN "strike"
  ELSE IF k = "row" THEN "judge"
  ELSE IF s.mapped THEN "unstrike"
  ELSE IF s.orphan = "old" THEN "reread"
  ELSE "done"

TakeItem ==
  /\ sweep = "items" /\ item = NoItem
  /\ \E t \in todo :
       LET step == FirstStep(snap[t[1]], t[2]) IN
       /\ todo' = todo \ {t}
       /\ item' = IF step = "done" THEN NoItem
                  ELSE [NoItem EXCEPT !.vm = t[1], !.kind = t[2], !.step = step]
  /\ UNCHANGED <<worldVars, tableVars, clock, due, sweep, snap, cache, faults>>

\* terminateMicrovm, then the step that follows, or the item fails.
Kill(v, next) ==
  /\ \/ vm' = [vm EXCEPT ![v].state = "terminated"] /\ NoFault /\ Then(next)
     \/ vm' = [vm EXCEPT ![v].state = "terminated"] /\ ItemFails
     \/ UNCHANGED vm /\ ItemFails
  /\ UNCHANGED <<job, runner, listed, warmClaim, tableVars, clock, due, sweep, snap, cache, todo>>

\* tryLifetimeKill also deletes the row it was called with.
LifetimeKill(v) ==
  /\ At(v, "lifetimeKill")
  /\ Kill(v, CASE item.kind = "row" -> "unmap" [] item.kind = "orphan" -> "unstrike"
               [] OTHER -> "done")

\* deleteRow of the mapping row.
Unmap(v) ==
  /\ At(v, "unmap")
  /\ \/ row' = [row EXCEPT ![v] = NoRow] /\ NoFault /\ Done
     \/ row' = [row EXCEPT ![v] = NoRow] /\ ItemFails
     \/ UNCHANGED row /\ ItemFails
  /\ UNCHANGED <<worldVars, orphan, clock, due, sweep, snap, cache, todo>>

\* deleteRow of the orphan row.
Unstrike(v) ==
  /\ At(v, "unstrike")
  /\ \/ orphan' = [orphan EXCEPT ![v] = None] /\ NoFault /\ Done
     \/ orphan' = [orphan EXCEPT ![v] = None] /\ ItemFails
     \/ UNCHANGED orphan /\ ItemFails
  /\ UNCHANGED <<worldVars, row, clock, due, sweep, snap, cache, todo>>

-----------------------------------------------------------------------------
(* Rule 6: a RUNNING VM with no launcher-created row.                      *)

\* putOrphanRow: the first strike, dated nowIso.
PutOrphanRow(v) ==
  /\ At(v, "strike")
  /\ \/ orphan' = [orphan EXCEPT ![v] = clock] /\ NoFault /\ Done
     \/ orphan' = [orphan EXCEPT ![v] = clock] /\ ItemFails
     \/ UNCHANGED orphan /\ ItemFails
  /\ UNCHANGED <<worldVars, row, clock, due, sweep, snap, cache, todo>>

\* The consistent scan before the kill: has a mapping row appeared?
RereadTable(v) ==
  /\ At(v, "reread")
  /\ \/ NoFault /\ Then(IF row[v].is = "mapping" THEN "unstrike" ELSE "orphanKill")
     \/ ItemFails
  /\ UNCHANGED <<worldVars, tableVars, clock, due, sweep, snap, cache, todo>>

OrphanKill(v) == At(v, "orphanKill") /\ Kill(v, "unstrike")

-----------------------------------------------------------------------------
(* Rules 1 to 3: a RUNNING VM with a mapping row, against its runner.      *)

\* loadRunnersForTarget: one listRunners per sweep.
LoadRunners(v) ==
  /\ At(v, "judge") /\ cache = Unloaded
  /\ \/ cache' = listed /\ NoFault /\ UNCHANGED item
     \/ ItemFails /\ UNCHANGED cache
  /\ UNCHANGED <<worldVars, tableVars, clock, due, sweep, snap, todo>>

\* The writes that follow, without those that would change nothing.
Needed(v, w) ==
  {x \in w : /\ x = "clear" => snap[v].suspect # "none"
             /\ x = "cache" => snap[v].id # "current"}

ThenWrite(v, w) ==
  IF Needed(v, w) = {} THEN Done
  ELSE item' = [item EXCEPT !.step = "write", !.writes = Needed(v, w)]

\* Each judgement makes its writes in this order.
FirstWrite(w) == IF "clear" \in w THEN "clear" ELSE IF "cache" \in w THEN "cache" ELSE "suspect"

\* freshGetRunner starts with the cached id, if there is one.
ThenReadAfresh(v, rule) ==
  item' = [item EXCEPT !.rule = rule, !.step = IF snap[v].id = "none" THEN "relist" ELSE "byId"]

\* reconcileNormalRow's dispatch on the cached list; rule 2's first conditions.
JudgeRunner(v) ==
  /\ At(v, "judge") /\ cache # Unloaded
  /\ \/ cache[v] = "busy" /\ ThenWrite(v, {"clear", "cache"})
     \/ cache[v] = "absent" /\ ThenReadAfresh(v, "absent")
     \/ cache[v] = "idle" /\ ~snap[v].graced /\ ThenWrite(v, {"clear", "cache"})
     \/ /\ cache[v] = "idle" /\ snap[v].graced
        /\ \/ snap[v].suspect = "none" /\ ThenWrite(v, {"cache", "suspect"})
           \/ snap[v].suspect = "fresh" /\ Done
           \/ snap[v].suspect = "old" /\ ThenReadAfresh(v, "idle")
  /\ UNCHANGED <<worldVars, tableVars, clock, due, sweep, snap, cache, todo, faults>>

\* What follows a fresh read that shows r: spare the VM, strike it, or reap it.
OnFreshRead(v, r) ==
  \/ item.rule = "absent" /\ r # "absent" /\ ThenWrite(v, {"clear", "cache"})
  \/ item.rule = "absent" /\ r = "absent" /\ snap[v].suspect = "none" /\ ThenWrite(v, {"suspect"})
  \/ item.rule = "absent" /\ r = "absent" /\ snap[v].suspect = "fresh" /\ Done
  \/ /\ item.rule = "absent" /\ r = "absent" /\ snap[v].suspect = "old"
     /\ Then(IF snap[v].id = "none" THEN "kill" ELSE "deregister")
  \/ item.rule = "idle" /\ r # "idle" /\ ThenWrite(v, {"clear"})
  \/ item.rule = "idle" /\ r = "idle" /\ Then("deregister")

\* getRunner by id is never stale; an id that was rotated out answers 404.
GetRunner(v) ==
  /\ At(v, "byId")
  /\ \/ /\ NoFault
        /\ IF snap[v].id = "current" /\ runner[v] # "absent"
             THEN OnFreshRead(v, runner[v])
             ELSE Then("relist")
     \/ ItemFails
  /\ UNCHANGED <<worldVars, tableVars, clock, due, sweep, snap, cache, todo>>

\* The re-list by name, which also refreshes the cache.
RelistRunners(v) ==
  /\ At(v, "relist")
  /\ \/ cache' = listed /\ NoFault /\ OnFreshRead(v, listed[v])
     \/ ItemFails /\ UNCHANGED cache
  /\ UNCHANGED <<worldVars, tableVars, clock, due, sweep, snap, todo>>

\* updateExistingRow: only a row that is still there is written.
UpdateExistingRow(v, new) ==
  row' = IF row[v].is = "none" THEN row ELSE [row EXCEPT ![v] = new]

\* setSuspect, clearSuspect, cacheRunnerId.
Written(v, w) ==
  CASE w = "suspect" -> [row[v] EXCEPT !.suspect = clock]
    [] w = "clear"   -> [row[v] EXCEPT !.suspect = None]
    [] w = "cache"   -> [row[v] EXCEPT !.id = "current"]

WriteRow(v) ==
  LET w == FirstWrite(item.writes)
      rest == item.writes \ {w}
  IN
  /\ At(v, "write")
  /\ \/ /\ UpdateExistingRow(v, Written(v, w)) /\ NoFault
        /\ IF rest = {} THEN Done ELSE item' = [item EXCEPT !.writes = rest]
     \/ UpdateExistingRow(v, Written(v, w)) /\ ItemFails
     \/ UNCHANGED row /\ ItemFails
  /\ UNCHANGED <<worldVars, orphan, clock, due, sweep, snap, cache, todo>>

(***************************************************************************)
(* deleteRunner, by the row's id (rule 1) or the one just read (rule 2).   *)
(* GitHub answers 404, which counts as done, for an id it no longer knows, *)
(* and refuses to delete a runner that is running a job.                   *)
(***************************************************************************)
Deregister(v) ==
  LET known == item.rule = "idle" \/ snap[v].id = "current" IN
  /\ At(v, "deregister")
  /\ \/ /\ ~known \/ runner[v] = "absent"
        /\ UNCHANGED runner /\ NoFault /\ Then("kill")
     \/ /\ known /\ runner[v] = "idle"
        /\ runner' = [runner EXCEPT ![v] = "absent"]
        /\ (NoFault /\ Then("kill")) \/ ItemFails
     \/ known /\ runner[v] = "busy" /\ UNCHANGED runner /\ NoFault /\ Done
     \/ UNCHANGED runner /\ ItemFails
  /\ UNCHANGED <<vm, job, listed, warmClaim, tableVars, clock, due, sweep, snap, cache, todo>>

RunnerKill(v) == At(v, "kill") /\ Kill(v, "unmap")

-----------------------------------------------------------------------------
(* The launcher, seen from the janitor.                                    *)

\* The cold path registers the runner before RunMicrovm.
LaunchCold(v) ==
  /\ v \notin Pool /\ vm[v].state = "none"
  /\ vm' = [vm EXCEPT ![v].state = "pending", ![v].age = 0]
  /\ job' = [job EXCEPT ![v] = [phase |-> "launching", config |-> "none", age |-> 0]]
  /\ runner' = [runner EXCEPT ![v] = "idle"]
  /\ UNCHANGED <<listed, warmClaim, tableVars, clock, due, sweepVars, faults>>

\* The warm path claims a suspended VM of the current image, then resumes it.
ClaimWarm(v) ==
  /\ job[v].phase = "pooled" /\ vm[v].current /\ warmClaim[v] = None
  /\ warmClaim' = [warmClaim EXCEPT ![v] = 0]
  /\ job' = [job EXCEPT ![v] = [phase |-> "launching", config |-> "none", age |-> 0]]
  /\ UNCHANGED <<vm, runner, listed, tableVars, clock, due, sweepVars, faults>>

Resume(v) ==
  /\ Launching(v) /\ vm[v].state = "suspended"
  /\ vm' = [vm EXCEPT ![v].state = "pending"]
  /\ UNCHANGED <<job, runner, listed, warmClaim, tableVars, clock, due, sweepVars, faults>>

\* pushJitConfig; on the warm path the runner is registered just before.
Arm(v) ==
  /\ Launching(v) /\ job[v].config = "none" /\ vm[v].state = "running"
  /\ job' = [job EXCEPT ![v].config = "armed"]
  /\ runner' = [runner EXCEPT ![v] = IF v \in Pool THEN "idle" ELSE @]
  /\ UNCHANGED <<vm, listed, warmClaim, tableVars, clock, due, sweepVars, faults>>

\* commitLaunch writes the mapping row last, whatever became of the VM.
Commit(v) ==
  /\ Launching(v) /\ job[v].config # "none"
  /\ job' = [job EXCEPT ![v].phase = "committed"]
  /\ row' = [row EXCEPT ![v] = [NoRow EXCEPT !.is = "mapping"]]
  /\ UNCHANGED <<vm, runner, listed, warmClaim, orphan, clock, due, sweepVars, faults>>

\* The launch, or the fill, fails: compensated, or killed before it could be.
LaunchFails(v) ==
  /\ Launching(v) \/ job[v].phase = "filling"
  /\ \/ vm' = [vm EXCEPT ![v].state = "terminated"]
     \/ UNCHANGED vm
  /\ job' = [job EXCEPT ![v].phase = "lost"]
  /\ UNCHANGED <<runner, listed, warmClaim, tableVars, clock, due, sweepVars, faults>>

\* handleTerminate, on the completed webhook, if it is delivered at all.
TerminateOnWebhook(v) ==
  /\ row[v].is = "mapping" /\ job[v].config = "spent"
  /\ vm[v].state = "running"
  /\ vm' = [vm EXCEPT ![v].state = "terminated"]
  /\ UNCHANGED <<job, runner, listed, warmClaim, tableVars, clock, due, sweepVars, faults>>

UnmapOnWebhook(v) ==
  /\ row[v].is = "mapping" /\ vm[v].state = "terminated" /\ job[v].config = "spent"
  /\ row' = [row EXCEPT ![v] = NoRow]
  /\ UNCHANGED <<worldVars, orphan, clock, due, sweepVars, faults>>

-----------------------------------------------------------------------------
(* The warm pool, the platform, GitHub and time.                           *)

\* launchAndSuspendOne: RunMicrovm, then suspend once RUNNING.
LaunchPooled(v) ==
  /\ v \in Pool /\ vm[v].state = "none"
  /\ vm' = [vm EXCEPT ![v].state = "pending", ![v].age = 0]
  /\ job' = [job EXCEPT ![v].phase = "filling"]
  /\ UNCHANGED <<runner, listed, warmClaim, tableVars, clock, due, sweepVars, faults>>

SuspendPooled(v) ==
  /\ job[v].phase = "filling" /\ vm[v].state = "running"
  /\ vm' = [vm EXCEPT ![v].state = "suspended"]
  /\ job' = [job EXCEPT ![v].phase = "pooled"]
  /\ UNCHANGED <<runner, listed, warmClaim, tableVars, clock, due, sweepVars, faults>>

Boot(v) ==
  /\ vm[v].state = "pending"
  /\ vm' = [vm EXCEPT ![v].state = "running"]
  /\ UNCHANGED <<job, runner, listed, warmClaim, tableVars, clock, due, sweepVars, faults>>

\* A deploy replaces the image v was booted from.
RotateImage(v) ==
  /\ vm[v].current /\ vm[v].state # "none"
  /\ vm' = [vm EXCEPT ![v].current = FALSE]
  /\ UNCHANGED <<job, runner, listed, warmClaim, tableVars, clock, due, sweepVars, faults>>

\* GitHub assigns a queued job to the idle runner of an armed VM.
AssignJob(v) ==
  /\ job[v].config = "armed" /\ vm[v].state = "running" /\ runner[v] = "idle"
  /\ runner' = [runner EXCEPT ![v] = "busy"]
  /\ UNCHANGED <<vm, job, listed, warmClaim, tableVars, clock, due, sweepVars, faults>>

\* A runner ends its one job and deregisters.
RunnerFinishes(v) ==
  /\ vm[v].state = "running" /\ runner[v] = "busy"
  /\ runner' = [runner EXCEPT ![v] = "absent"]
  /\ job' = [job EXCEPT ![v].config = "spent"]
  /\ UNCHANGED <<vm, listed, warmClaim, tableVars, clock, due, sweepVars, faults>>

\* GitHub loses a registration that never ran a job.
RunnerDropped(v) ==
  /\ vm[v].state = "running" /\ runner[v] = "idle"
  /\ runner' = [runner EXCEPT ![v] = "absent"]
  /\ UNCHANGED <<vm, job, listed, warmClaim, tableVars, clock, due, sweepVars, faults>>

\* The runner is registered again under its name, between two sweeps.
RotateId(v) ==
  /\ sweep \in {"off", "killed"} /\ row[v].id = "current" /\ runner[v] # "absent"
  /\ Fault
  /\ row' = [row EXCEPT ![v].id = "stale"]
  /\ UNCHANGED <<worldVars, orphan, clock, due, sweepVars>>

ListCatchesUp(v) ==
  /\ listed[v] # runner[v]
  /\ listed' = [listed EXCEPT ![v] = runner[v]]
  /\ UNCHANGED <<vm, job, runner, warmClaim, tableVars, clock, due, sweepVars, faults>>

\* DynamoDB's TTL.
ExpireRow(v) ==
  /\ row[v].is = "mapping" /\ row[v].age >= RowTtl
  /\ row' = [row EXCEPT ![v] = NoRow]
  /\ UNCHANGED <<worldVars, orphan, clock, due, sweepVars, faults>>

ExpireWarmClaim(v) ==
  /\ warmClaim[v] # None /\ warmClaim[v] >= WarmClaimTtl
  /\ warmClaim' = [warmClaim EXCEPT ![v] = None]
  /\ UNCHANGED <<vm, job, runner, listed, tableVars, clock, due, sweepVars, faults>>

Older(t) == IF t = None \/ t = MaxAge THEN t ELSE t + 1

(***************************************************************************)
(* One unit of time.  Sweeps start and end on time, a launch ends within   *)
(* its timeout, and a boot and the lag of GitHub's list are below a unit.  *)
(***************************************************************************)
Tick ==
  /\ due < Interval + Jitter
  /\ sweep \notin {"off", "killed"} => clock < SweepTime
  /\ \A v \in Vms :
       /\ job[v].phase \in {"launching", "filling"} => job[v].age < LaunchTime
       /\ vm[v].state # "pending" /\ listed[v] = runner[v]
  /\ clock' = (IF sweep \in {"off", "killed"} THEN 0 ELSE clock + 1)
  /\ due' = due + 1
  /\ vm' = [v \in Vms |-> [vm[v] EXCEPT !.age = IF Gone(v) THEN 0 ELSE Older(@)]]
  /\ job' = [v \in Vms |-> [job[v] EXCEPT !.age = IF Idling(v) THEN 0 ELSE Older(@)]]
  /\ row' = [v \in Vms |-> IF row[v].is = "none" THEN row[v]
                           ELSE [row[v] EXCEPT !.age = Older(@), !.suspect = Older(@)]]
  /\ orphan' = [v \in Vms |-> Older(orphan[v])]
  /\ warmClaim' = [v \in Vms |-> Older(warmClaim[v])]
  /\ UNCHANGED <<runner, listed, sweepVars, faults>>

-----------------------------------------------------------------------------
ReconcileStep(v) ==
  \/ LifetimeKill(v) \/ Unmap(v) \/ Unstrike(v)
  \/ PutOrphanRow(v) \/ RereadTable(v) \/ OrphanKill(v)
  \/ LoadRunners(v) \/ JudgeRunner(v) \/ GetRunner(v) \/ RelistRunners(v)
  \/ WriteRow(v) \/ Deregister(v) \/ RunnerKill(v)

SweepStep ==
  \/ StartSweep \/ ListVms \/ ScanTable \/ MapVms \/ TakeItem \/ EndSweep
  \/ \E v \in Vms : ReconcileStep(v)

WorldStep(v) ==
  \/ LaunchCold(v) \/ ClaimWarm(v) \/ Resume(v) \/ Arm(v) \/ Commit(v) \/ LaunchFails(v)
  \/ TerminateOnWebhook(v) \/ UnmapOnWebhook(v)
  \/ LaunchPooled(v) \/ SuspendPooled(v) \/ Boot(v) \/ RotateImage(v)
  \/ AssignJob(v) \/ RunnerFinishes(v) \/ RunnerDropped(v)
  \/ RotateId(v) \/ ListCatchesUp(v)
  \/ ExpireRow(v) \/ ExpireWarmClaim(v)

Next == SweepStep \/ (\E v \in Vms : WorldStep(v)) \/ Tick

Fairness ==
  /\ WF_vars(SweepStep) /\ WF_vars(Tick)
  /\ WF_vars(\E v \in Vms : Boot(v) \/ ListCatchesUp(v))

Spec == Init /\ [][Next]_vars
FairSpec == Spec /\ Fairness

-----------------------------------------------------------------------------
(* Properties.                                                             *)

\* Every variable has the shape the code gives it.
TypeOK ==
  /\ vm \in [Vms -> [state : VmStates, age : Ages, current : BOOLEAN]]
  /\ job \in [Vms -> [phase : {"none", "filling", "pooled", "launching", "committed", "lost"},
                      config : {"none", "armed", "spent"}, age : Ages]]
  /\ runner \in [Vms -> RunnerStates] /\ listed \in [Vms -> RunnerStates]
  /\ row \in [Vms -> [is : {"none", "mapping", "zombie"}, age : Ages, suspect : Times,
                      id : {"none", "current", "stale"}]]
  /\ orphan \in [Vms -> Times] /\ warmClaim \in [Vms -> Times]
  /\ clock \in 0..SweepTime /\ due \in 0..(Interval + Jitter)
  /\ sweep \in {"off", "killed", "list", "scan", "map", "items"}
  /\ todo \subseteq Vms \X {"row", "orphan", "bare", "goneRow", "goneOrphan"}
  /\ item = NoItem \/ item.vm \in Vms
  /\ faults \in 0..MaxFaults

\* The sweep terminates v, alive until then, in step s of an item.
Reaps(v, s) ==
  At(v, s) /\ item' # item /\ vm[v].state = "running" /\ vm'[v].state = "terminated"

(***************************************************************************)
(* Rules 1 to 3 never take a VM whose runner is running a job, however     *)
(* stale the list, the cached id and the sweep's first reading were: the   *)
(* wrong kill the janitor's two strikes and fresh reads exist to avoid.    *)
(***************************************************************************)
BusyRunnerSpared == [][\A v \in Vms : Reaps(v, "kill") => runner[v] # "busy"]_vars

(***************************************************************************)
(* Rule 6 never takes a cold VM whose launch is still under way or has     *)
(* just been recorded, the reason janitorInterval must exceed the          *)
(* launcher's timeout.                                                     *)
(***************************************************************************)
ColdLaunchSpared ==
  [][\A v \in Vms \ Pool : Reaps(v, "orphanKill") => ~Served(v)]_vars

(***************************************************************************)
(* The lifetime backstop counts from the claim: a VM from the pool is not  *)
(* taken during the job it was claimed for, however old it is.             *)
(***************************************************************************)
LifetimeSparesYoungJobs ==
  [][\A v \in Vms : Reaps(v, "lifetimeKill") /\ Served(v) => job[v].age > MaxJob]_vars

\* A write that races a row's deletion never brings the row back.
NoZombieRow == \A v \in Vms : row[v].is # "zombie"

(***************************************************************************)
(* With no failing call, the sweep after an orphan strike settles it: the  *)
(* cold VM is reaped or the strike withdrawn, never put off to a third     *)
(* sweep because the schedule fired a little early.                        *)
(***************************************************************************)
StrikeSettledByNextSweep ==
  \A v \in Vms \ Pool :
    faults = 0 /\ vm[v].state = "running" /\ orphan[v] # None
    => orphan[v] <= Interval + Jitter + SweepTime

(***************************************************************************)
(* With no failing call, no VM serves one job much longer than the         *)
(* lifetime cap, even if its runner stays busy and the platform's own      *)
(* limit never fires.                                                      *)
(***************************************************************************)
BackstopHolds ==
  \A v \in Vms :
    faults = 0 /\ Served(v) /\ vm[v].state = "running" /\ (vm[v].current \/ row[v].is = "mapping")
    => job[v].age <= LaunchTime + LifetimeCap + Interval + Jitter + SweepTime

\* A VM that runs with nothing to do: no runner, an idle one, or no launch.
Useless(v) ==
  /\ vm[v].state = "running"
  /\ \/ job[v].phase = "committed" /\ runner[v] # "busy"
     \/ job[v].phase = "lost" /\ vm[v].current

(***************************************************************************)
(* Every useless VM is put to use or reaped in the end, although single    *)
(* calls fail and sweeps die.                                              *)
(***************************************************************************)
UselessVmIsReaped == \A v \in Vms : Useless(v) ~> ~Useless(v)

-----------------------------------------------------------------------------
(* What the documents say and the code does not keep.                      *)

(***************************************************************************)
(* The conservative two-strike rule: a VM is terminated as an orphan only  *)
(* after it was seen running with no row on two sweeps, one interval       *)
(* apart, longer than any launch lasts; so never during a launch.          *)
(***************************************************************************)
LiveLaunchSpared ==
  [][\A v \in Vms : Reaps(v, "orphanKill") => ~Launching(v)]_vars

(***************************************************************************)
(* Rule 6 needs no fresh read of GitHub because "there is no runner to     *)
(* check in the first place".                                              *)
(***************************************************************************)
OrphanHasNoRunner ==
  [][\A v \in Vms : Reaps(v, "orphanKill") => runner[v] # "busy"]_vars

=============================================================================
