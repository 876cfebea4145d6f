---------------------------- MODULE Janitor_proofs ----------------------------
(***************************************************************************)
(* The janitor's sweep, for any VMs and any times that respect the         *)
(* assumptions of its module: it never takes the VM of a busy runner, of a *)
(* cold launch, or of a young job, and no write brings a row back; and     *)
(* while no call fails, a strike is settled by the next sweep and a job    *)
(* past its cap is ended by the next one.                                  *)
(***************************************************************************)
EXTENDS Janitor, FiniteSetTheorems, TLAPS

-----------------------------------------------------------------------------
(* Types.                                                                  *)

VmRecords == [state : VmStates, age : Ages, current : BOOLEAN]
Phases == {"none", "filling", "pooled", "launching", "committed", "lost"}
JobRecords == [phase : Phases, config : {"none", "armed", "spent"}, age : Ages]
RowRecords == [is : {"none", "mapping", "zombie"}, age : Ages, suspect : Times,
               id : {"none", "current", "stale"}]
Kinds == {"row", "orphan", "bare", "goneRow", "goneOrphan"}
Strikes == {"none", "fresh", "old"}
Readings == [state : VmStates \cup {"unlisted"}, graced : BOOLEAN, aged : BOOLEAN,
             served : BOOLEAN, mapped : BOOLEAN, expired : BOOLEAN, suspect : Strikes,
             id : {"none", "current", "stale"}, orphan : Strikes]
Steps == {"lifetimeKill", "unmap", "unstrike", "strike", "reread", "orphanKill", "judge",
          "byId", "relist", "write", "deregister", "kill"}
Items == [vm : Vms, kind : Kinds, step : Steps, rule : {"none", "absent", "idle"},
          writes : SUBSET {"clear", "cache", "suspect"}]

WorldTypes ==
  /\ vm \in [Vms -> VmRecords] /\ job \in [Vms -> JobRecords]
  /\ runner \in [Vms -> RunnerStates] /\ listed \in [Vms -> RunnerStates]
  /\ row \in [Vms -> RowRecords]
  /\ orphan \in [Vms -> Times] /\ warmClaim \in [Vms -> Times]
  /\ clock \in 0..SweepTime /\ due \in 0..(Interval + Jitter) /\ faults \in 0..MaxFaults

SweepTypes ==
  /\ sweep \in {"off", "killed", "list", "scan", "map", "items"}
  /\ snap \in [Vms -> Readings]
  /\ cache = Unloaded \/ cache \in [Vms -> RunnerStates]
  /\ todo \subseteq Vms \X Kinds
  /\ item = NoItem \/ item \in Items

-----------------------------------------------------------------------------
(* What lasts: facts that no step of anyone undoes.                        *)

Committed(v) == job[v].phase = "committed"
Dead(v) == vm[v].state = "terminated"

\* Its job is over, or never came: nothing can bring the runner back.
Finished(v) == Committed(v) /\ runner[v] = "absent"

\* The list of runners has seen the runner of v.
Settled(v) == Committed(v) /\ (listed[v] = "absent" => runner[v] = "absent")

\* A cold VM whose launch is over; there is no other.
Landed(v) == ~Launching(v) /\ vm[v].state # "none"

\* A commit, if there was one, has lost its row to the end of the VM or to the row's age.
Over(v) == Committed(v) => Dead(v) \/ job[v].age >= RowTtl

\* The launch that v serves, if any, is the last it will serve.
Claimed(v) == job[v].phase \in {"launching", "committed", "lost"}

OldJob(v) == Claimed(v) /\ (Served(v) /\ ~Gone(v) => job[v].age > MaxJob)

Unclaimable(v) == ~vm[v].current /\ vm[v].state # "none" /\ ~Served(v)

NeverYoung(v) == OldJob(v) \/ Unclaimable(v)

Lasts(v) ==
  /\ Committed(v) => Committed(v)'
  /\ Dead(v) => Dead(v)'
  /\ vm[v].state # "none" => vm'[v].state # "none"
  /\ ~vm[v].current => ~vm'[v].current
  /\ Finished(v) => Finished(v)'
  /\ Settled(v) => Settled(v)'
  /\ v \notin Pool /\ Landed(v) => Landed(v)'
  /\ v \notin Pool /\ Landed(v) /\ Over(v) => Over(v)'
  /\ Claimed(v) => Claimed(v)'
  /\ OldJob(v) => OldJob(v)'
  /\ NeverYoung(v) => NeverYoung(v)'

-----------------------------------------------------------------------------
(* The invariant: launches, rows and ages.                                 *)

\* Phases and the VM's states.
Launches(v) ==
  /\ vm[v].state = "none" => job[v].phase = "none" /\ orphan[v] = None
  /\ job[v].phase = "none" => Gone(v) /\ job[v].age = 0
  /\ v \notin Pool => job[v].phase \notin {"filling", "pooled"}
  /\ job[v].phase = "pooled" => vm[v].state \in {"suspended", "terminated"}
  /\ job[v].phase \in {"launching", "filling"} => job[v].age <= LaunchTime

\* Where a VM has only served what it was launched for, it is no older than that.
VmAges(v) ==
  (job[v].phase = "filling" \/ (v \notin Pool /\ Served(v))) /\ ~Gone(v) => vm[v].age <= job[v].age

\* A row is written by the commit, and seen by the list of runners in time.
RowFacts(v) ==
  /\ row[v].is # "none" => row[v].is = "mapping" /\ Committed(v)
  /\ row[v].is = "none" => row[v] = NoRow
  /\ row[v].suspect # None => row[v].suspect <= row[v].age + SweepTime
  /\ row[v].is = "mapping" /\ row[v].age >= 1 => Settled(v)
  /\ row[v].is = "mapping" /\ ~Gone(v) => row[v].age <= job[v].age
  /\ row[v].is = "mapping" \/ Over(v)

\* The claim of a warm VM lasts as long as its launch.
ClaimFacts(v) ==
  /\ warmClaim[v] # None => Claimed(v)
  /\ warmClaim[v] # None /\ (Launching(v) \/ (Committed(v) /\ ~Gone(v))) => warmClaim[v] <= job[v].age
  /\ v \in Pool /\ Launching(v) => warmClaim[v] # None

\* A strike is made of a VM that runs: its launch is at least as old.
OrphanFacts(v) ==
  v \notin Pool /\ Launching(v) /\ orphan[v] # None => orphan[v] <= job[v].age + SweepTime

Facts(v) == Launches(v) /\ VmAges(v) /\ RowFacts(v) /\ ClaimFacts(v) /\ OrphanFacts(v)

WorldFacts == \A v \in Vms : Facts(v)

-----------------------------------------------------------------------------
(* The invariant: what the sweep has read still means something.           *)

Phasing ==
  /\ sweep # "items" => cache = Unloaded /\ todo = {} /\ item = NoItem
  /\ sweep \in {"off", "killed", "list"} => snap = [v \in Vms |-> Unread]

SeenVm(v) ==
  /\ snap[v].state # "none"
  /\ snap[v].state = "terminated" => Dead(v)
  /\ snap[v].state # "unlisted" \/ Rowed(snap[v]) => vm[v].state # "none"

SeenRow(v) ==
  /\ snap[v].mapped => Committed(v)
  /\ snap[v].suspect = "old" => Settled(v)
  /\ snap[v].orphan = "old" /\ v \notin Pool => Landed(v)
  /\ snap[v].suspect = "old" /\ cache # Unloaded /\ cache[v] = "absent" => runner[v] = "absent"

\* What has been too old for its job stays so, or never gets one.
SeenAge(v) ==
  /\ snap[v].aged /\ snap[v].state = "running" => Claimed(v) /\ (v \notin Pool => OldJob(v))
  /\ sweep \in {"map", "items"} /\ snap[v].served /\ snap[v].aged /\ snap[v].state = "running"
       => NeverYoung(v)
  /\ sweep = "scan" /\ snap[v].state = "unlisted" => ~vm[v].current \/ orphan[v] = None
  /\ sweep = "map" /\ snap[v].state = "unlisted" /\ snap[v].served /\ Rowed(snap[v])
       => NeverYoung(v) \/ v \notin Pool

ItemFacts(v) ==
  /\ vm[v].state # "none"
  /\ item.step = "lifetimeKill" => NeverYoung(v)
  /\ item.step = "unmap" => Dead(v)
  /\ item.step \in {"reread", "orphanKill"} /\ v \notin Pool => Landed(v)
  /\ item.step = "orphanKill" /\ v \notin Pool => Over(v)
  /\ item.step \in {"judge", "byId", "relist", "deregister"} => Committed(v)
  /\ item.step = "deregister" => item.rule = "idle" \/ Finished(v)
  /\ item.step = "kill" => Finished(v)

SweepFacts ==
  /\ Phasing
  /\ \A v \in Vms : SeenVm(v) /\ SeenRow(v) /\ SeenAge(v)
  /\ \A t \in todo : t[2] \in ItemsOf(snap[t[1]])
  /\ item # NoItem => ItemFacts(item.vm)

JanitorInv == WorldTypes /\ SweepTypes /\ WorldFacts /\ SweepFacts

LEMMA Times0 ==
  /\ Interval \in Nat /\ Slack \in Nat /\ Jitter \in Nat /\ SweepTime \in Nat
  /\ LaunchTime \in Nat /\ GracePeriod \in Nat /\ MaxJob \in Nat /\ LifetimeGrace \in Nat
  /\ WarmClaimTtl \in Nat /\ RowTtl \in Nat /\ MaxAge \in Nat /\ MaxFaults \in Nat
  /\ Jitter <= Slack /\ MaxJob < RowTtl /\ SweepTime <= MaxAge
  /\ LaunchTime + SweepTime < Interval - Slack /\ LaunchTime < WarmClaimTtl
  /\ Pool \subseteq Vms /\ None \notin Nat /\ LifetimeCap \in Nat /\ LifetimeCap > MaxJob
  /\ LifetimeCap > LaunchTime
  BY TimesAssumption, IntervalAssumption, SetsAssumption DEF LifetimeCap

LEMMA OlderTypes ==
  ASSUME NEW t \in Times
  PROVE  /\ Older(t) \in Times
         /\ t = None <=> Older(t) = None
         /\ t # None => Older(t) \in Ages /\ t <= Older(t)
  BY Times0 DEF Older, Times, Ages

LEMMA OlderKeepsOrder ==
  ASSUME NEW s \in Ages, NEW t \in Ages, NEW k \in Nat, s <= t + k
  PROVE  Older(s) <= Older(t) + k
  BY Times0 DEF Older, Ages

-----------------------------------------------------------------------------
(* Every step keeps the types.                                             *)

LEMMA InitTypes == Init => WorldTypes /\ SweepTypes
<1> SUFFICES ASSUME Init PROVE WorldTypes /\ SweepTypes
  OBVIOUS
<1>1. NoRow \in RowRecords /\ Unread \in Readings
  BY Times0 DEF NoRow, Unread, RowRecords, Readings, Strikes, VmStates, Ages, Times
<1>2. WorldTypes
  BY <1>1, Times0 DEF Init, WorldTypes, VmRecords, JobRecords, Phases, RunnerStates, VmStates, Ages, Times
<1>3. SweepTypes
  BY <1>1 DEF Init, SweepTypes, Kinds
<1> QED
  BY <1>2, <1>3

LEMMA StrikeType == \A t : Strike(t) \in Strikes
  BY DEF Strike, Strikes

LEMMA ReadingTypes ==
  ASSUME WorldTypes, SweepTypes, NEW s \in Readings, NEW v \in Vms
  PROVE  ReadVm(s, v) \in Readings /\ ReadRows(s, v) \in Readings
<1>1. \A b, c \in BOOLEAN, x \in VmStates :
        [s EXCEPT !.state = x, !.graced = b, !.aged = c] \in Readings
  BY DEF Readings
<1>2. /\ (vm[v].age - clock > GracePeriod) \in BOOLEAN /\ (vm[v].age - clock > LifetimeCap) \in BOOLEAN
      /\ vm[v].state \in VmStates
  BY DEF WorldTypes, VmRecords
<1>3. ReadVm(s, v) \in Readings
  BY <1>1, <1>2, Zenon DEF ReadVm
<1> DEFINE R(b, c, x, z, y, d) ==
      [s EXCEPT !.mapped = b, !.expired = c, !.suspect = x, !.id = z, !.orphan = y, !.served = d]
<1>4. \A b, c, d \in BOOLEAN, x, y \in Strikes, z \in {"none", "current", "stale"} :
        R(b, c, x, z, y, d) \in Readings
  BY DEF Readings
<1>5. /\ (row[v].is = "mapping") \in BOOLEAN /\ (row[v].age - clock >= RowTtl) \in BOOLEAN
      /\ ServedTooLong(v) \in BOOLEAN /\ row[v].id \in {"none", "current", "stale"}
      /\ Strike(row[v].suspect) \in Strikes /\ Strike(orphan[v]) \in Strikes
  BY StrikeType DEF ServedTooLong, WorldTypes, RowRecords
<1>6. ReadRows(s, v) = R(row[v].is = "mapping", row[v].age - clock >= RowTtl, Strike(row[v].suspect),
                         row[v].id, Strike(orphan[v]), ServedTooLong(v))
  BY Zenon DEF ReadRows
<1> HIDE DEF R
<1>7. ReadRows(s, v) \in Readings
  <2>1. \A b, c, d : b \in BOOLEAN /\ c \in BOOLEAN /\ d \in BOOLEAN
          => R(b, c, Strike(row[v].suspect), row[v].id, Strike(orphan[v]), d) \in Readings
    BY <1>4, <1>5
  <2>2. \A c, d : c \in BOOLEAN /\ d \in BOOLEAN
          => R(row[v].is = "mapping", c, Strike(row[v].suspect), row[v].id, Strike(orphan[v]), d) \in Readings
    BY <2>1, <1>5, Zenon
  <2>3. \A d : d \in BOOLEAN
          => R(row[v].is = "mapping", row[v].age - clock >= RowTtl, Strike(row[v].suspect),
               row[v].id, Strike(orphan[v]), d) \in Readings
    BY <2>2, <1>5, Zenon
  <2> QED
    BY <2>3, <1>5, <1>6, Zenon
<1> QED
  BY <1>3, <1>7

LEMMA ItemTypes ==
  ASSUME NEW v \in Vms, SweepTypes, item.vm = v, item # NoItem
  PROVE  /\ item \in Items
         /\ \A step \in Steps \cup {"done"} : Then(step) => item' = NoItem \/ item' \in Items
         /\ \A step \in Steps, rule \in {"absent", "idle"} :
              [item EXCEPT !.step = step, !.rule = rule] \in Items
         /\ \A w \in SUBSET {"clear", "cache", "suspect"} :
              /\ [item EXCEPT !.writes = w] \in Items
              /\ ThenWrite(v, w) => item' = NoItem \/ item' \in Items
<1>1. item \in Items
  BY DEF SweepTypes
<1>2. \A step \in Steps : [item EXCEPT !.step = step] \in Items
  BY <1>1 DEF Items
<1>3. \A step \in Steps, rule \in {"absent", "idle"} : [item EXCEPT !.step = step, !.rule = rule] \in Items
  BY <1>1 DEF Items
<1>4. \A w \in SUBSET {"clear", "cache", "suspect"} :
        [item EXCEPT !.writes = w] \in Items /\ [item EXCEPT !.step = "write", !.writes = w] \in Items
  BY <1>1 DEF Items, Steps
<1>5. \A w \in SUBSET {"clear", "cache", "suspect"} : Needed(v, w) \in SUBSET {"clear", "cache", "suspect"}
  BY DEF Needed
<1> QED
  BY <1>1, <1>2, <1>3, <1>4, <1>5 DEF Then, Done, ThenWrite

LEMMA WorldStepTypes ==
  ASSUME WorldTypes, SweepTypes, NEW u \in Vms, WorldStep(u)
  PROVE  WorldTypes' /\ SweepTypes'
<1>0. 0 \in Ages /\ None \in Times /\ NoRow \in RowRecords /\ [NoRow EXCEPT !.is = "mapping"] \in RowRecords
  BY Times0 DEF NoRow, RowRecords, Ages, Times
<1> USE <1>0
<1>1. CASE LaunchCold(u)
  <2>1. vm' \in [Vms -> VmRecords]
    <3> DEFINE pending == [vm EXCEPT ![u].state = "pending"]
    <3>1. pending \in [Vms -> VmRecords]
      BY DEF WorldTypes, VmRecords, VmStates
    <3>2. \A w \in [Vms -> VmRecords] : [w EXCEPT ![u].age = 0] \in [Vms -> VmRecords]
      BY DEF VmRecords
    <3>3. vm' = [pending EXCEPT ![u].age = 0]
      BY <1>1, Zenon DEF LaunchCold
    <3> QED
      BY <3>1, <3>2, <3>3, Zenon
  <2>2. job' \in [Vms -> JobRecords] /\ runner' \in [Vms -> RunnerStates]
    BY <1>1 DEF LaunchCold, WorldTypes, JobRecords, Phases, RunnerStates
  <2>3. WorldTypes'
    BY <1>1, <2>1, <2>2 DEF LaunchCold, WorldTypes, tableVars
  <2>4. SweepTypes'
    BY <1>1 DEF LaunchCold, SweepTypes, sweepVars
  <2> QED
    BY <2>3, <2>4
<1>2. CASE ClaimWarm(u)
  <2>1. WorldTypes'
    BY <1>2 DEF ClaimWarm, WorldTypes, worldVars, tableVars, sweepVars, JobRecords, Phases, Times, Ages
  <2>2. SweepTypes'
    BY <1>2 DEF ClaimWarm, SweepTypes, sweepVars
  <2> QED
    BY <2>1, <2>2
<1>3. CASE Resume(u)
  <2>1. WorldTypes'
    BY <1>3 DEF Resume, WorldTypes, worldVars, tableVars, sweepVars, VmRecords, VmStates
  <2>2. SweepTypes'
    BY <1>3 DEF Resume, SweepTypes, sweepVars
  <2> QED
    BY <2>1, <2>2
<1>4. CASE Arm(u)
  <2>1. WorldTypes'
    BY <1>4 DEF Arm, WorldTypes, worldVars, tableVars, sweepVars, JobRecords, RunnerStates
  <2>2. SweepTypes'
    BY <1>4 DEF Arm, SweepTypes, sweepVars
  <2> QED
    BY <2>1, <2>2
<1>5. CASE Commit(u)
  <2>1. WorldTypes'
    BY <1>5 DEF Commit, WorldTypes, worldVars, tableVars, sweepVars, JobRecords, Phases
  <2>2. SweepTypes'
    BY <1>5 DEF Commit, SweepTypes, sweepVars
  <2> QED
    BY <2>1, <2>2
<1>6. CASE LaunchFails(u)
  <2>1. vm' \in [Vms -> VmRecords]
    <3>1. [vm EXCEPT ![u].state = "terminated"] \in [Vms -> VmRecords]
      BY DEF WorldTypes, VmRecords, VmStates
    <3> QED
      BY <1>6, <3>1 DEF LaunchFails, WorldTypes
  <2>2. job' \in [Vms -> JobRecords]
    BY <1>6 DEF LaunchFails, WorldTypes, JobRecords, Phases
  <2>3. WorldTypes'
    BY <1>6, <2>1, <2>2 DEF LaunchFails, WorldTypes, tableVars
  <2>4. SweepTypes'
    BY <1>6 DEF LaunchFails, SweepTypes, sweepVars
  <2> QED
    BY <2>3, <2>4
<1>7. CASE TerminateOnWebhook(u)
  <2>1. WorldTypes'
    BY <1>7 DEF TerminateOnWebhook, WorldTypes, worldVars, tableVars, sweepVars, VmRecords, VmStates
  <2>2. SweepTypes'
    BY <1>7 DEF TerminateOnWebhook, SweepTypes, sweepVars
  <2> QED
    BY <2>1, <2>2
<1>8. CASE UnmapOnWebhook(u)
  <2>1. WorldTypes'
    BY <1>8 DEF UnmapOnWebhook, WorldTypes, worldVars, tableVars, sweepVars
  <2>2. SweepTypes'
    BY <1>8 DEF UnmapOnWebhook, SweepTypes, sweepVars
  <2> QED
    BY <2>1, <2>2
<1>9. CASE LaunchPooled(u)
  <2>1. vm' \in [Vms -> VmRecords]
    <3> DEFINE pending == [vm EXCEPT ![u].state = "pending"]
    <3>1. pending \in [Vms -> VmRecords]
      BY DEF WorldTypes, VmRecords, VmStates
    <3>2. \A w \in [Vms -> VmRecords] : [w EXCEPT ![u].age = 0] \in [Vms -> VmRecords]
      BY DEF VmRecords
    <3>3. vm' = [pending EXCEPT ![u].age = 0]
      BY <1>9, Zenon DEF LaunchPooled
    <3> QED
      BY <3>1, <3>2, <3>3, Zenon
  <2>2. job' \in [Vms -> JobRecords] /\ runner' \in [Vms -> RunnerStates]
    BY <1>9 DEF LaunchPooled, WorldTypes, JobRecords, Phases, RunnerStates
  <2>3. WorldTypes'
    BY <1>9, <2>1, <2>2 DEF LaunchPooled, WorldTypes, tableVars
  <2>4. SweepTypes'
    BY <1>9 DEF LaunchPooled, SweepTypes, sweepVars
  <2> QED
    BY <2>3, <2>4
<1>10. CASE SuspendPooled(u)
  <2>1. vm' \in [Vms -> VmRecords]
    BY <1>10 DEF SuspendPooled, WorldTypes, VmRecords, VmStates
  <2>2. job' \in [Vms -> JobRecords]
    BY <1>10 DEF SuspendPooled, WorldTypes, JobRecords, Phases
  <2>3. WorldTypes'
    BY <1>10, <2>1, <2>2 DEF SuspendPooled, WorldTypes, tableVars
  <2>4. SweepTypes'
    BY <1>10 DEF SuspendPooled, SweepTypes, sweepVars
  <2> QED
    BY <2>3, <2>4
<1>11. CASE Boot(u)
  <2>1. WorldTypes'
    BY <1>11 DEF Boot, WorldTypes, worldVars, tableVars, sweepVars, VmRecords, VmStates
  <2>2. SweepTypes'
    BY <1>11 DEF Boot, SweepTypes, sweepVars
  <2> QED
    BY <2>1, <2>2
<1>12. CASE RotateImage(u)
  <2>1. WorldTypes'
    BY <1>12 DEF RotateImage, WorldTypes, worldVars, tableVars, sweepVars, VmRecords
  <2>2. SweepTypes'
    BY <1>12 DEF RotateImage, SweepTypes, sweepVars
  <2> QED
    BY <2>1, <2>2
<1>13. CASE AssignJob(u)
  <2>1. WorldTypes'
    BY <1>13 DEF AssignJob, WorldTypes, worldVars, tableVars, sweepVars, RunnerStates
  <2>2. SweepTypes'
    BY <1>13 DEF AssignJob, SweepTypes, sweepVars
  <2> QED
    BY <2>1, <2>2
<1>14. CASE RunnerFinishes(u)
  <2>1. WorldTypes'
    BY <1>14 DEF RunnerFinishes, WorldTypes, worldVars, tableVars, sweepVars, RunnerStates, JobRecords
  <2>2. SweepTypes'
    BY <1>14 DEF RunnerFinishes, SweepTypes, sweepVars
  <2> QED
    BY <2>1, <2>2
<1>15. CASE RunnerDropped(u)
  <2>1. WorldTypes'
    BY <1>15 DEF RunnerDropped, WorldTypes, worldVars, tableVars, sweepVars, RunnerStates
  <2>2. SweepTypes'
    BY <1>15 DEF RunnerDropped, SweepTypes, sweepVars
  <2> QED
    BY <2>1, <2>2
<1>16. CASE RotateId(u)
  <2>1. WorldTypes'
    BY <1>16, Times0 DEF RotateId, WorldTypes, worldVars, tableVars, sweepVars, RowRecords, Fault
  <2>2. SweepTypes'
    BY <1>16 DEF RotateId, SweepTypes, sweepVars
  <2> QED
    BY <2>1, <2>2
<1>17. CASE ListCatchesUp(u)
  <2>1. WorldTypes'
    BY <1>17 DEF ListCatchesUp, WorldTypes, worldVars, tableVars, sweepVars
  <2>2. SweepTypes'
    BY <1>17 DEF ListCatchesUp, SweepTypes, sweepVars
  <2> QED
    BY <2>1, <2>2
<1>18. CASE ExpireRow(u)
  <2>1. WorldTypes'
    BY <1>18 DEF ExpireRow, WorldTypes, worldVars, tableVars, sweepVars
  <2>2. SweepTypes'
    BY <1>18 DEF ExpireRow, SweepTypes, sweepVars
  <2> QED
    BY <2>1, <2>2
<1>19. CASE ExpireWarmClaim(u)
  <2>1. WorldTypes'
    BY <1>19 DEF ExpireWarmClaim, WorldTypes, worldVars, tableVars, sweepVars
  <2>2. SweepTypes'
    BY <1>19 DEF ExpireWarmClaim, SweepTypes, sweepVars
  <2> QED
    BY <2>1, <2>2
<1> QED
  BY <1>1, <1>2, <1>3, <1>4, <1>5, <1>6, <1>7, <1>8, <1>9, <1>10, <1>11, <1>12, <1>13, <1>14, <1>15, <1>16, <1>17, <1>18, <1>19 DEF WorldStep
LEMMA TickTypes ==
  ASSUME WorldTypes, SweepTypes, Tick
  PROVE  WorldTypes' /\ SweepTypes'
<1>1. vm' \in [Vms -> VmRecords]
  <2>1. ASSUME NEW v \in Vms PROVE [vm[v] EXCEPT !.age = IF Gone(v) THEN 0 ELSE Older(@)] \in VmRecords
    <3>1. vm[v] \in VmRecords /\ vm[v].age \in Ages /\ 0 \in Ages
      BY Times0 DEF WorldTypes, VmRecords, Ages
    <3>2. Older(vm[v].age) \in Ages
      BY <3>1, OlderTypes, Times0 DEF Times, Ages
    <3> QED
      BY <3>1, <3>2 DEF VmRecords
  <2> QED
    BY <2>1 DEF Tick
<1>2. job' \in [Vms -> JobRecords]
  <2>1. ASSUME NEW v \in Vms PROVE [job[v] EXCEPT !.age = IF Idling(v) THEN 0 ELSE Older(@)] \in JobRecords
    <3>1. job[v] \in JobRecords /\ job[v].age \in Ages /\ 0 \in Ages
      BY Times0 DEF WorldTypes, JobRecords, Ages
    <3>2. Older(job[v].age) \in Ages
      BY <3>1, OlderTypes, Times0 DEF Times, Ages
    <3> QED
      BY <3>1, <3>2 DEF JobRecords
  <2> QED
    BY <2>1 DEF Tick
<1>3. row' \in [Vms -> RowRecords]
  <2>1. ASSUME NEW v \in Vms
        PROVE  [row[v] EXCEPT !.age = Older(@), !.suspect = Older(@)] \in RowRecords
    <3>1. row[v] \in RowRecords /\ row[v].age \in Ages /\ row[v].suspect \in Times
      BY DEF WorldTypes, RowRecords
    <3>2. Older(row[v].age) \in Ages /\ Older(row[v].suspect) \in Times
      BY <3>1, OlderTypes, Times0 DEF Times, Ages
    <3> QED
      BY <3>1, <3>2 DEF RowRecords
  <2> QED
    BY <2>1 DEF Tick, WorldTypes
<1>4. orphan' \in [Vms -> Times] /\ warmClaim' \in [Vms -> Times]
  BY OlderTypes DEF Tick, WorldTypes
<1>5. clock' \in 0..SweepTime /\ due' \in 0..(Interval + Jitter)
  <2>1. clock \in Nat /\ due \in Nat /\ SweepTime \in Nat /\ Interval + Jitter \in Nat
    BY Times0 DEF WorldTypes
  <2>2. due < Interval + Jitter /\ due' = due + 1
    BY DEF Tick
  <2>3. clock' = 0 \/ (clock < SweepTime /\ clock' = clock + 1)
    BY DEF Tick
  <2> QED
    BY <2>1, <2>2, <2>3
<1>6. WorldTypes'
  BY <1>1, <1>2, <1>3, <1>4, <1>5 DEF Tick, WorldTypes
<1>7. SweepTypes'
  BY DEF Tick, SweepTypes, sweepVars
<1> QED
  BY <1>6, <1>7

LEMMA FirstStepType ==
  \A s, k : FirstStep(s, k) \in Steps \cup {"done"}
  BY DEF FirstStep, Steps

LEMMA TakenItemType ==
  ASSUME NEW v \in Vms, NEW k \in Kinds, NEW step \in Steps
  PROVE  [NoItem EXCEPT !.vm = v, !.kind = k, !.step = step] \in Items
  BY DEF NoItem, Items

LEMMA SweepEndsTypes ==
  ASSUME NEW p \in {"off", "killed"}, SweepEnds(p)
  PROVE  SweepTypes'
<1>1. Unread \in Readings
  BY DEF Unread, Readings, Strikes
<1> QED
  BY <1>1 DEF SweepEnds, SweepTypes

Reads == StartSweep \/ ListVms \/ ScanTable \/ MapVms \/ TakeItem \/ EndSweep

LEMMA ReadTypes ==
  ASSUME WorldTypes, SweepTypes, Reads
  PROVE  WorldTypes' /\ SweepTypes'
<1>1. CASE StartSweep
  BY <1>1, Times0 DEF StartSweep, WorldTypes, SweepTypes, worldVars, tableVars
<1>2. CASE ListVms
  <2>1. WorldTypes'
    BY <1>2, Times0 DEF ListVms, NoFault, Fault, WorldTypes, worldVars, tableVars
  <2>2. SweepTypes'
    <3>1. CASE SweepEnds("off")
      BY <3>1, SweepEndsTypes
    <3>2. CASE snap' = [v \in Vms |->
             IF vm[v].current /\ vm[v].state # "none" THEN ReadVm(snap[v], v) ELSE snap[v]]
             /\ sweep' = "scan" /\ UNCHANGED <<cache, todo, item>>
      <4>1. \A v \in Vms : snap[v] \in Readings
        BY DEF SweepTypes
      <4>2. snap' \in [Vms -> Readings]
        BY <3>2, <4>1, ReadingTypes
      <4> QED
        BY <3>2, <4>2 DEF SweepTypes
    <3> QED
      BY <1>2, <3>1, <3>2 DEF ListVms
  <2> QED
    BY <2>1, <2>2
<1>3. CASE ScanTable
  <2>1. WorldTypes'
    BY <1>3, Times0 DEF ScanTable, NoFault, Fault, WorldTypes, worldVars, tableVars
  <2>2. SweepTypes'
    <3>1. CASE SweepEnds("off")
      BY <3>1, SweepEndsTypes
    <3>2. CASE snap' = [v \in Vms |-> ReadRows(snap[v], v)]
             /\ sweep' = "map" /\ UNCHANGED <<cache, todo, item>>
      <4>1. \A v \in Vms : snap[v] \in Readings
        BY DEF SweepTypes
      <4>2. snap' \in [Vms -> Readings]
        BY <3>2, <4>1, ReadingTypes
      <4> QED
        BY <3>2, <4>2 DEF SweepTypes
    <3> QED
      BY <1>3, <3>1, <3>2 DEF ScanTable
  <2> QED
    BY <2>1, <2>2
<1>4. CASE MapVms
  <2>1. PICK failed \in SUBSET {v \in Vms : Unlisted(v)} :
           /\ Cardinality(failed) + faults <= MaxFaults
           /\ faults' = faults + Cardinality(failed)
           /\ snap' = [v \in Vms |->
                IF Unlisted(v) /\ v \notin failed THEN ReadVm(snap[v], v) ELSE snap[v]]
    BY <1>4 DEF MapVms
  <2>2. Cardinality(failed) \in Nat
    <3>1. failed \in SUBSET Vms /\ IsFiniteSet(Vms)
      BY SetsAssumption
    <3> QED
      BY <3>1, FS_Subset, FS_CardinalityType
  <2>3. WorldTypes'
    BY <1>4, <2>1, <2>2, Times0 DEF MapVms, WorldTypes, worldVars, tableVars
  <2>4. \A v \in Vms : snap[v] \in Readings
    BY DEF SweepTypes
  <2>5. snap' \in [Vms -> Readings]
    BY <2>1, <2>4, ReadingTypes
  <2>6. \A v \in Vms : ItemsOf(snap'[v]) \subseteq Kinds
    BY DEF ItemsOf, Kinds
  <2>7. todo' \subseteq Vms \X Kinds
    BY <1>4, <2>6 DEF MapVms
  <2> QED
    BY <1>4, <2>3, <2>5, <2>7 DEF MapVms, SweepTypes
<1>5. CASE TakeItem
  <2>1. PICK t \in todo :
          LET step == FirstStep(snap[t[1]], t[2]) IN
          /\ todo' = todo \ {t}
          /\ item' = IF step = "done" THEN NoItem
                     ELSE [NoItem EXCEPT !.vm = t[1], !.kind = t[2], !.step = step]
    BY <1>5 DEF TakeItem
  <2>2. t[1] \in Vms /\ t[2] \in Kinds
    BY DEF SweepTypes
  <2>3. item' = NoItem \/ item' \in Items
    BY <2>1, <2>2, FirstStepType, TakenItemType
  <2>4. WorldTypes'
    BY <1>5 DEF TakeItem, WorldTypes, worldVars, tableVars
  <2> QED
    BY <1>5, <2>1, <2>3, <2>4 DEF TakeItem, SweepTypes
<1>6. CASE EndSweep
  <2>1. WorldTypes'
    BY <1>6, Times0 DEF EndSweep, NoFault, Fault, WorldTypes, worldVars, tableVars
  <2> QED
    BY <1>6, <2>1, SweepEndsTypes DEF EndSweep
<1> QED
  BY <1>1, <1>2, <1>3, <1>4, <1>5, <1>6 DEF Reads

LEMMA AtItem ==
  ASSUME NEW v \in Vms, NEW step \in Steps, SweepTypes, At(v, step)
  PROVE  item # NoItem /\ item.vm = v /\ item \in Items
  BY DEF At, SweepTypes, NoItem, Steps

LEMMA KillTypes ==
  ASSUME NEW v \in Vms, NEW next \in Steps \cup {"done"}, item.vm = v, item # NoItem,
         WorldTypes, SweepTypes, Kill(v, next)
  PROVE  WorldTypes' /\ SweepTypes'
<1>1. item' = NoItem \/ item' \in Items
  BY ItemTypes DEF Kill, ItemFails, Done
<1>2. [vm EXCEPT ![v].state = "terminated"] \in [Vms -> VmRecords]
  BY DEF WorldTypes, VmRecords, VmStates
<1>3. vm' \in [Vms -> VmRecords]
  BY <1>2 DEF Kill, WorldTypes
<1>4. faults' \in 0..MaxFaults
  BY Times0 DEF Kill, ItemFails, NoFault, Fault, WorldTypes
<1> QED
  BY <1>1, <1>3, <1>4 DEF Kill, WorldTypes, SweepTypes, tableVars

LEMMA OnFreshReadTypes ==
  ASSUME NEW v \in Vms, item.vm = v, item # NoItem, SweepTypes, NEW r, OnFreshRead(v, r)
  PROVE  item' = NoItem \/ item' \in Items
<1>1. \A w \in SUBSET {"clear", "cache", "suspect"} : ThenWrite(v, w) => item' = NoItem \/ item' \in Items
  BY ItemTypes
<1>2. \A step \in Steps \cup {"done"} : Then(step) => item' = NoItem \/ item' \in Items
  BY ItemTypes
<1>3. "kill" \in Steps /\ "deregister" \in Steps
  BY DEF Steps
<1> QED
  BY <1>1, <1>2, <1>3 DEF OnFreshRead, Done

LEMMA WrittenType ==
  ASSUME NEW v \in Vms, NEW w \in {"clear", "cache", "suspect"}, WorldTypes
  PROVE  Written(v, w) \in RowRecords
<1>1. row[v] \in RowRecords /\ clock \in Times /\ None \in Times
  BY Times0 DEF WorldTypes, Times, Ages
<1> QED
  BY <1>1 DEF Written, RowRecords

LEMMA FirstWriteType == \A w : FirstWrite(w) \in {"clear", "cache", "suspect"}
  BY DEF FirstWrite

LEMMA ReconcileTypes ==
  ASSUME NEW u \in Vms, WorldTypes, SweepTypes, ReconcileStep(u)
  PROVE  WorldTypes' /\ SweepTypes'
<1>0. "unmap" \in Steps /\ "unstrike" \in Steps /\ "kill" \in Steps
  BY DEF Steps
<1>f. Fault \/ NoFault => faults' \in 0..MaxFaults
  BY Times0 DEF Fault, NoFault, WorldTypes
<1>1. CASE LifetimeKill(u)
  <2> DEFINE next == CASE item.kind = "row" -> "unmap" [] item.kind = "orphan" -> "unstrike" [] OTHER -> "done"
  <2>1. next \in Steps \cup {"done"}
    BY <1>0
  <2>2. Kill(u, next)
    BY <1>1 DEF LifetimeKill
  <2>3. item.vm = u /\ item # NoItem
    BY <1>1, AtItem DEF LifetimeKill, Steps
  <2> HIDE DEF next
  <2> QED
    BY <2>1, <2>2, <2>3, KillTypes
<1>2. CASE Unmap(u)
  <2>1. NoRow \in RowRecords
    BY Times0 DEF NoRow, RowRecords, Times, Ages
  <2>2. WorldTypes'
    BY <1>2, <1>f, <2>1 DEF Unmap, ItemFails, WorldTypes, worldVars
  <2> QED
    BY <1>2, <2>2 DEF Unmap, ItemFails, Done, SweepTypes
<1>3. CASE Unstrike(u)
  <2>1. WorldTypes'
    BY <1>3, <1>f DEF Unstrike, ItemFails, WorldTypes, worldVars, Times
  <2> QED
    BY <1>3, <2>1 DEF Unstrike, ItemFails, Done, SweepTypes
<1>4. CASE PutOrphanRow(u)
  <2>1. clock \in Times
    BY Times0 DEF WorldTypes, Times, Ages
  <2>2. WorldTypes'
    BY <1>4, <1>f, <2>1 DEF PutOrphanRow, ItemFails, WorldTypes, worldVars
  <2> QED
    BY <1>4, <2>2 DEF PutOrphanRow, ItemFails, Done, SweepTypes
<1>5. CASE RereadTable(u)
  <2>1. item.vm = u /\ item # NoItem
    BY <1>5, AtItem DEF RereadTable, Steps
  <2>2. item' = NoItem \/ item' \in Items
    BY <1>5, <2>1, ItemTypes DEF RereadTable, ItemFails, Done, Steps
  <2>3. WorldTypes'
    BY <1>5, <1>f DEF RereadTable, ItemFails, WorldTypes, worldVars, tableVars
  <2> QED
    BY <1>5, <2>2, <2>3 DEF RereadTable, SweepTypes
<1>6. CASE OrphanKill(u)
  BY <1>0, <1>6, KillTypes, AtItem DEF OrphanKill, Steps
<1>7. CASE LoadRunners(u)
  <2>1. WorldTypes'
    BY <1>7, <1>f DEF LoadRunners, ItemFails, WorldTypes, worldVars, tableVars
  <2> QED
    BY <1>7, <2>1 DEF LoadRunners, ItemFails, Done, SweepTypes, WorldTypes
<1>8. CASE JudgeRunner(u)
  <2>1. item.vm = u /\ item # NoItem
    BY <1>8, AtItem DEF JudgeRunner, Steps
  <2>2. \A rule \in {"absent", "idle"} : ThenReadAfresh(u, rule) => item' \in Items
    <3>1. \A step \in Steps, rule \in {"absent", "idle"} :
            [item EXCEPT !.rule = rule, !.step = step] \in Items
      BY <2>1, ItemTypes DEF Items
    <3>2. "relist" \in Steps /\ "byId" \in Steps
      BY DEF Steps
    <3> QED
      BY <3>1, <3>2 DEF ThenReadAfresh
  <2>3. \A w \in SUBSET {"clear", "cache", "suspect"} : ThenWrite(u, w) => item' = NoItem \/ item' \in Items
    BY <2>1, ItemTypes
  <2>4. item' = NoItem \/ item' \in Items
    BY <1>8, <2>2, <2>3 DEF JudgeRunner, Done
  <2>5. WorldTypes'
    BY <1>8 DEF JudgeRunner, WorldTypes, worldVars, tableVars
  <2> QED
    BY <1>8, <2>4, <2>5 DEF JudgeRunner, SweepTypes
<1>9. CASE GetRunner(u)
  <2>1. item.vm = u /\ item # NoItem
    BY <1>9, AtItem DEF GetRunner, Steps
  <2>2. item' = NoItem \/ item' \in Items
    BY <1>9, <2>1, ItemTypes, OnFreshReadTypes DEF GetRunner, ItemFails, Done, Steps
  <2>3. WorldTypes'
    BY <1>9, <1>f DEF GetRunner, ItemFails, WorldTypes, worldVars, tableVars
  <2> QED
    BY <1>9, <2>2, <2>3 DEF GetRunner, SweepTypes
<1>10. CASE RelistRunners(u)
  <2>1. item.vm = u /\ item # NoItem
    BY <1>10, AtItem DEF RelistRunners, Steps
  <2>2. item' = NoItem \/ item' \in Items
    BY <1>10, <2>1, OnFreshReadTypes DEF RelistRunners, ItemFails, Done
  <2>3. WorldTypes'
    BY <1>10, <1>f DEF RelistRunners, ItemFails, WorldTypes, worldVars, tableVars
  <2>4. cache' = Unloaded \/ cache' \in [Vms -> RunnerStates]
    BY <1>10 DEF RelistRunners, WorldTypes, SweepTypes
  <2> QED
    BY <1>10, <2>2, <2>3, <2>4 DEF RelistRunners, SweepTypes
<1>11. CASE WriteRow(u)
  <2>1. item.vm = u /\ item # NoItem /\ item \in Items
    BY <1>11, AtItem DEF WriteRow, Steps
  <2>2. item.writes \in SUBSET {"clear", "cache", "suspect"}
    BY <2>1 DEF Items
  <2>3. item' = NoItem \/ item' \in Items
    BY <1>11, <2>1, <2>2, ItemTypes DEF WriteRow, ItemFails, Done
  <2>4. row' \in [Vms -> RowRecords]
    <3>1. Written(u, FirstWrite(item.writes)) \in RowRecords
      BY WrittenType, FirstWriteType
    <3> QED
      BY <1>11, <3>1 DEF WriteRow, UpdateExistingRow, WorldTypes
  <2>5. WorldTypes'
    BY <1>11, <1>f, <2>4 DEF WriteRow, ItemFails, WorldTypes, worldVars
  <2> QED
    BY <1>11, <2>3, <2>5 DEF WriteRow, SweepTypes
<1>12. CASE Deregister(u)
  <2>1. item.vm = u /\ item # NoItem
    BY <1>12, AtItem DEF Deregister, Steps
  <2>2. item' = NoItem \/ item' \in Items
    BY <1>12, <1>0, <2>1, ItemTypes DEF Deregister, ItemFails, Done
  <2>3. runner' \in [Vms -> RunnerStates]
    BY <1>12 DEF Deregister, WorldTypes, RunnerStates
  <2>4. faults' \in 0..MaxFaults
    BY <1>12, <1>f DEF Deregister, ItemFails
  <2>5. WorldTypes'
    BY <1>12, <2>3, <2>4 DEF Deregister, WorldTypes, tableVars
  <2> QED
    BY <1>12, <2>2, <2>5 DEF Deregister, SweepTypes
<1>13. CASE RunnerKill(u)
  BY <1>0, <1>13, KillTypes, AtItem DEF RunnerKill, Steps
<1> QED
  BY <1>1, <1>2, <1>3, <1>4, <1>5, <1>6, <1>7, <1>8, <1>9, <1>10, <1>11, <1>12, <1>13 DEF ReconcileStep

LEMMA TypesStep ==
  ASSUME WorldTypes, SweepTypes, [Next]_vars
  PROVE  WorldTypes' /\ SweepTypes'
<1>1. CASE Reads
  BY <1>1, ReadTypes
<1>2. CASE \E v \in Vms : ReconcileStep(v)
  BY <1>2, ReconcileTypes
<1>3. CASE \E v \in Vms : WorldStep(v)
  BY <1>3, WorldStepTypes
<1>4. CASE Tick
  BY <1>4, TickTypes
<1>5. CASE UNCHANGED vars
  BY <1>5 DEF vars, worldVars, tableVars, sweepVars, WorldTypes, SweepTypes
<1> QED
  BY <1>1, <1>2, <1>3, <1>4, <1>5 DEF Next, SweepStep, Reads

-----------------------------------------------------------------------------
(* Launches, rows and ages.                                                *)

LEMMA Fields ==
  ASSUME WorldTypes, NEW v \in Vms
  PROVE  /\ vm[v].state \in VmStates /\ vm[v].age \in 0..MaxAge /\ vm[v].current \in BOOLEAN
         /\ job[v].phase \in Phases /\ job[v].config \in {"none", "armed", "spent"}
         /\ job[v].age \in 0..MaxAge
         /\ runner[v] \in RunnerStates /\ listed[v] \in RunnerStates
         /\ row[v] \in RowRecords /\ row[v].is \in {"none", "mapping", "zombie"}
         /\ row[v].age \in 0..MaxAge /\ row[v].suspect \in Times
         /\ orphan[v] \in Times /\ warmClaim[v] \in Times
  BY DEF WorldTypes, VmRecords, JobRecords, RowRecords, Ages

LEMMA Elsewhere ==
  ASSUME WorldTypes, NEW u \in Vms, NEW v \in Vms, u # v, WorldStep(u) \/ ReconcileStep(u)
  PROVE  /\ vm'[v] = vm[v] /\ job'[v] = job[v] /\ runner'[v] = runner[v] /\ listed'[v] = listed[v]
         /\ row'[v] = row[v] /\ orphan'[v] = orphan[v] /\ warmClaim'[v] = warmClaim[v]
<1>1. CASE LaunchCold(u)
  BY <1>1 DEF LaunchCold, WorldTypes, worldVars, tableVars
<1>2. CASE ClaimWarm(u)
  BY <1>2 DEF ClaimWarm, WorldTypes, worldVars, tableVars
<1>3. CASE Resume(u)
  BY <1>3 DEF Resume, WorldTypes, worldVars, tableVars
<1>4. CASE Arm(u)
  BY <1>4 DEF Arm, WorldTypes, worldVars, tableVars
<1>5. CASE Commit(u)
  BY <1>5 DEF Commit, WorldTypes, worldVars, tableVars
<1>6. CASE LaunchFails(u)
  BY <1>6 DEF LaunchFails, WorldTypes, worldVars, tableVars
<1>7. CASE TerminateOnWebhook(u)
  BY <1>7 DEF TerminateOnWebhook, WorldTypes, worldVars, tableVars
<1>8. CASE UnmapOnWebhook(u)
  BY <1>8 DEF UnmapOnWebhook, WorldTypes, worldVars, tableVars
<1>9. CASE LaunchPooled(u)
  BY <1>9 DEF LaunchPooled, WorldTypes, worldVars, tableVars
<1>10. CASE SuspendPooled(u)
  BY <1>10 DEF SuspendPooled, WorldTypes, worldVars, tableVars
<1>11. CASE Boot(u)
  BY <1>11 DEF Boot, WorldTypes, worldVars, tableVars
<1>12. CASE RotateImage(u)
  BY <1>12 DEF RotateImage, WorldTypes, worldVars, tableVars
<1>13. CASE AssignJob(u)
  BY <1>13 DEF AssignJob, WorldTypes, worldVars, tableVars
<1>14. CASE RunnerFinishes(u)
  BY <1>14 DEF RunnerFinishes, WorldTypes, worldVars, tableVars
<1>15. CASE RunnerDropped(u)
  BY <1>15 DEF RunnerDropped, WorldTypes, worldVars, tableVars
<1>16. CASE RotateId(u)
  BY <1>16 DEF RotateId, WorldTypes, worldVars, tableVars
<1>17. CASE ListCatchesUp(u)
  BY <1>17 DEF ListCatchesUp, WorldTypes, worldVars, tableVars
<1>18. CASE ExpireRow(u)
  BY <1>18 DEF ExpireRow, WorldTypes, worldVars, tableVars
<1>19. CASE ExpireWarmClaim(u)
  BY <1>19 DEF ExpireWarmClaim, WorldTypes, worldVars, tableVars
<1>20. CASE LifetimeKill(u)
  BY <1>20 DEF LifetimeKill, Kill, WorldTypes, worldVars, tableVars
<1>21. CASE Unmap(u)
  BY <1>21 DEF Unmap, WorldTypes, worldVars, tableVars
<1>22. CASE Unstrike(u)
  BY <1>22 DEF Unstrike, WorldTypes, worldVars, tableVars
<1>23. CASE PutOrphanRow(u)
  BY <1>23 DEF PutOrphanRow, WorldTypes, worldVars, tableVars
<1>24. CASE RereadTable(u)
  BY <1>24 DEF RereadTable, WorldTypes, worldVars, tableVars
<1>25. CASE OrphanKill(u)
  BY <1>25 DEF OrphanKill, Kill, WorldTypes, worldVars, tableVars
<1>26. CASE LoadRunners(u)
  BY <1>26 DEF LoadRunners, WorldTypes, worldVars, tableVars
<1>27. CASE JudgeRunner(u)
  BY <1>27 DEF JudgeRunner, WorldTypes, worldVars, tableVars
<1>28. CASE GetRunner(u)
  BY <1>28 DEF GetRunner, WorldTypes, worldVars, tableVars
<1>29. CASE RelistRunners(u)
  BY <1>29 DEF RelistRunners, WorldTypes, worldVars, tableVars
<1>30. CASE WriteRow(u)
  BY <1>30 DEF WriteRow, UpdateExistingRow, WorldTypes, worldVars, tableVars
<1>31. CASE Deregister(u)
  BY <1>31 DEF Deregister, WorldTypes, worldVars, tableVars
<1>32. CASE RunnerKill(u)
  BY <1>32 DEF RunnerKill, Kill, WorldTypes, worldVars, tableVars
<1> QED
  BY <1>1, <1>2, <1>3, <1>4, <1>5, <1>6, <1>7, <1>8, <1>9, <1>10, <1>11, <1>12, <1>13, <1>14, <1>15, <1>16, <1>17, <1>18, <1>19, <1>20, <1>21, <1>22, <1>23, <1>24, <1>25, <1>26, <1>27, <1>28, <1>29, <1>30, <1>31, <1>32 DEF WorldStep, ReconcileStep

LEMMA Undisturbed ==
  ASSUME NEW v \in Vms, Facts(v),
         vm'[v] = vm[v], job'[v] = job[v], runner'[v] = runner[v], listed'[v] = listed[v],
         row'[v] = row[v], orphan'[v] = orphan[v], warmClaim'[v] = warmClaim[v]
  PROVE  Facts(v)' /\ Lasts(v)
<1>1. Facts(v)'
  BY DEF Facts, Launches, VmAges, RowFacts, ClaimFacts, OrphanFacts, Over, Settled, Dead, Committed, Claimed, Launching, Served, Gone
<1>2. Lasts(v)
  BY DEF Lasts, NeverYoung, OldJob, Unclaimable, Claimed, Over, Landed, Settled, Finished, Dead, Committed, Launching, Served, Gone
<1> QED
  BY <1>1, <1>2

LEMMA WorldStepFacts ==
  ASSUME WorldTypes, NEW v \in Vms, Facts(v), WorldStep(v)
  PROVE  Facts(v)' /\ Lasts(v)
<1> USE Fields, Times0
<1>1. CASE LaunchCold(v)
  <2>1. Facts(v)'
    BY <1>1 DEF LaunchCold, WorldTypes, worldVars, tableVars, Facts, Launches, VmAges, RowFacts, ClaimFacts, OrphanFacts, Over, Settled, Dead, Committed, Claimed, Launching, Served, Gone, NoRow, Times, Ages
  <2>2. Lasts(v)
    BY <1>1 DEF LaunchCold, WorldTypes, worldVars, tableVars, Facts, Launches, VmAges, RowFacts, ClaimFacts, OrphanFacts, Lasts, NeverYoung, OldJob, Unclaimable, Claimed, Over, Landed, Settled, Finished, Dead, Committed, Launching, Served, Gone
  <2> QED
    BY <2>1, <2>2
<1>2. CASE ClaimWarm(v)
  <2>1. Facts(v)'
    BY <1>2 DEF ClaimWarm, WorldTypes, worldVars, tableVars, Facts, Launches, VmAges, RowFacts, ClaimFacts, OrphanFacts, Over, Settled, Dead, Committed, Claimed, Launching, Served, Gone, NoRow, Times, Ages
  <2>2. Lasts(v)
    BY <1>2 DEF ClaimWarm, WorldTypes, worldVars, tableVars, Facts, Launches, VmAges, RowFacts, ClaimFacts, OrphanFacts, Lasts, NeverYoung, OldJob, Unclaimable, Claimed, Over, Landed, Settled, Finished, Dead, Committed, Launching, Served, Gone
  <2> QED
    BY <2>1, <2>2
<1>3. CASE Resume(v)
  <2>1. Facts(v)'
    BY <1>3 DEF Resume, WorldTypes, worldVars, tableVars, Facts, Launches, VmAges, RowFacts, ClaimFacts, OrphanFacts, Over, Settled, Dead, Committed, Claimed, Launching, Served, Gone, NoRow, Times, Ages
  <2>2. Lasts(v)
    BY <1>3 DEF Resume, WorldTypes, worldVars, tableVars, Facts, Launches, VmAges, RowFacts, ClaimFacts, OrphanFacts, Lasts, NeverYoung, OldJob, Unclaimable, Claimed, Over, Landed, Settled, Finished, Dead, Committed, Launching, Served, Gone
  <2> QED
    BY <2>1, <2>2
<1>4. CASE Arm(v)
  <2>1. Facts(v)'
    BY <1>4 DEF Arm, WorldTypes, worldVars, tableVars, Facts, Launches, VmAges, RowFacts, ClaimFacts, OrphanFacts, Over, Settled, Dead, Committed, Claimed, Launching, Served, Gone, NoRow, Times, Ages
  <2>2. Lasts(v)
    BY <1>4 DEF Arm, WorldTypes, worldVars, tableVars, Facts, Launches, VmAges, RowFacts, ClaimFacts, OrphanFacts, Lasts, NeverYoung, OldJob, Unclaimable, Claimed, Over, Landed, Settled, Finished, Dead, Committed, Launching, Served, Gone
  <2> QED
    BY <2>1, <2>2
<1>5. CASE Commit(v)
  <2>1. Facts(v)'
    BY <1>5 DEF Commit, WorldTypes, worldVars, tableVars, Facts, Launches, VmAges, RowFacts, ClaimFacts, OrphanFacts, Over, Settled, Dead, Committed, Claimed, Launching, Served, Gone, NoRow, Times, Ages
  <2>2. Lasts(v)
    BY <1>5 DEF Commit, WorldTypes, worldVars, tableVars, Facts, Launches, VmAges, RowFacts, ClaimFacts, OrphanFacts, Lasts, NeverYoung, OldJob, Unclaimable, Claimed, Over, Landed, Settled, Finished, Dead, Committed, Launching, Served, Gone
  <2> QED
    BY <2>1, <2>2
<1>6. CASE LaunchFails(v)
  <2>1. /\ job[v].phase \in {"launching", "filling"} /\ vm[v].state # "none"
        /\ job'[v].phase = "lost" /\ job'[v].age = job[v].age
        /\ vm'[v].state = "terminated" \/ vm'[v] = vm[v]
        /\ vm'[v].current = vm[v].current
        /\ runner' = runner /\ listed' = listed /\ row' = row /\ orphan' = orphan /\ warmClaim' = warmClaim
    BY <1>6 DEF LaunchFails, WorldTypes, VmRecords, JobRecords, worldVars, tableVars, Facts, Launches, Launching
  <2>2. Facts(v)'
    BY <2>1 DEF Facts, Launches, VmAges, RowFacts, ClaimFacts, OrphanFacts, Over, Settled, Dead, Committed, Claimed, Launching, Served, Gone
  <2>3. Lasts(v)
    BY <2>1 DEF Lasts, NeverYoung, OldJob, Unclaimable, Claimed, Over, Landed, Settled, Finished, Dead, Committed, Launching, Served, Gone
  <2> QED
    BY <2>2, <2>3
<1>7. CASE TerminateOnWebhook(v)
  <2>1. Facts(v)'
    BY <1>7 DEF TerminateOnWebhook, WorldTypes, worldVars, tableVars, Facts, Launches, VmAges, RowFacts, ClaimFacts, OrphanFacts, Over, Settled, Dead, Committed, Claimed, Launching, Served, Gone, NoRow, Times, Ages
  <2>2. Lasts(v)
    BY <1>7 DEF TerminateOnWebhook, WorldTypes, worldVars, tableVars, Facts, Launches, VmAges, RowFacts, ClaimFacts, OrphanFacts, Lasts, NeverYoung, OldJob, Unclaimable, Claimed, Over, Landed, Settled, Finished, Dead, Committed, Launching, Served, Gone
  <2> QED
    BY <2>1, <2>2
<1>8. CASE UnmapOnWebhook(v)
  <2>1. Facts(v)'
    BY <1>8 DEF UnmapOnWebhook, WorldTypes, worldVars, tableVars, Facts, Launches, VmAges, RowFacts, ClaimFacts, OrphanFacts, Over, Settled, Dead, Committed, Claimed, Launching, Served, Gone, NoRow, Times, Ages
  <2>2. Lasts(v)
    BY <1>8 DEF UnmapOnWebhook, WorldTypes, worldVars, tableVars, Facts, Launches, VmAges, RowFacts, ClaimFacts, OrphanFacts, Lasts, NeverYoung, OldJob, Unclaimable, Claimed, Over, Landed, Settled, Finished, Dead, Committed, Launching, Served, Gone
  <2> QED
    BY <2>1, <2>2
<1>9. CASE LaunchPooled(v)
  <2>1. Facts(v)'
    BY <1>9 DEF LaunchPooled, WorldTypes, worldVars, tableVars, Facts, Launches, VmAges, RowFacts, ClaimFacts, OrphanFacts, Over, Settled, Dead, Committed, Claimed, Launching, Served, Gone, NoRow, Times, Ages
  <2>2. Lasts(v)
    BY <1>9 DEF LaunchPooled, WorldTypes, worldVars, tableVars, Facts, Launches, VmAges, RowFacts, ClaimFacts, OrphanFacts, Lasts, NeverYoung, OldJob, Unclaimable, Claimed, Over, Landed, Settled, Finished, Dead, Committed, Launching, Served, Gone
  <2> QED
    BY <2>1, <2>2
<1>10. CASE SuspendPooled(v)
  <2>1. Facts(v)'
    BY <1>10 DEF SuspendPooled, WorldTypes, worldVars, tableVars, Facts, Launches, VmAges, RowFacts, ClaimFacts, OrphanFacts, Over, Settled, Dead, Committed, Claimed, Launching, Served, Gone, NoRow, Times, Ages
  <2>2. Lasts(v)
    BY <1>10 DEF SuspendPooled, WorldTypes, worldVars, tableVars, Facts, Launches, VmAges, RowFacts, ClaimFacts, OrphanFacts, Lasts, NeverYoung, OldJob, Unclaimable, Claimed, Over, Landed, Settled, Finished, Dead, Committed, Launching, Served, Gone
  <2> QED
    BY <2>1, <2>2
<1>11. CASE Boot(v)
  <2>1. Facts(v)'
    BY <1>11 DEF Boot, WorldTypes, worldVars, tableVars, Facts, Launches, VmAges, RowFacts, ClaimFacts, OrphanFacts, Over, Settled, Dead, Committed, Claimed, Launching, Served, Gone, NoRow, Times, Ages
  <2>2. Lasts(v)
    BY <1>11 DEF Boot, WorldTypes, worldVars, tableVars, Facts, Launches, VmAges, RowFacts, ClaimFacts, OrphanFacts, Lasts, NeverYoung, OldJob, Unclaimable, Claimed, Over, Landed, Settled, Finished, Dead, Committed, Launching, Served, Gone
  <2> QED
    BY <2>1, <2>2
<1>12. CASE RotateImage(v)
  <2>1. Facts(v)'
    BY <1>12 DEF RotateImage, WorldTypes, worldVars, tableVars, Facts, Launches, VmAges, RowFacts, ClaimFacts, OrphanFacts, Over, Settled, Dead, Committed, Claimed, Launching, Served, Gone, NoRow, Times, Ages
  <2>2. Lasts(v)
    BY <1>12 DEF RotateImage, WorldTypes, worldVars, tableVars, Facts, Launches, VmAges, RowFacts, ClaimFacts, OrphanFacts, Lasts, NeverYoung, OldJob, Unclaimable, Claimed, Over, Landed, Settled, Finished, Dead, Committed, Launching, Served, Gone
  <2> QED
    BY <2>1, <2>2
<1>13. CASE AssignJob(v)
  <2>1. Facts(v)'
    BY <1>13 DEF AssignJob, WorldTypes, worldVars, tableVars, Facts, Launches, VmAges, RowFacts, ClaimFacts, OrphanFacts, Over, Settled, Dead, Committed, Claimed, Launching, Served, Gone, NoRow, Times, Ages
  <2>2. Lasts(v)
    BY <1>13 DEF AssignJob, WorldTypes, worldVars, tableVars, Facts, Launches, VmAges, RowFacts, ClaimFacts, OrphanFacts, Lasts, NeverYoung, OldJob, Unclaimable, Claimed, Over, Landed, Settled, Finished, Dead, Committed, Launching, Served, Gone
  <2> QED
    BY <2>1, <2>2
<1>14. CASE RunnerFinishes(v)
  <2>1. Facts(v)'
    BY <1>14 DEF RunnerFinishes, WorldTypes, worldVars, tableVars, Facts, Launches, VmAges, RowFacts, ClaimFacts, OrphanFacts, Over, Settled, Dead, Committed, Claimed, Launching, Served, Gone, NoRow, Times, Ages
  <2>2. Lasts(v)
    BY <1>14 DEF RunnerFinishes, WorldTypes, worldVars, tableVars, Facts, Launches, VmAges, RowFacts, ClaimFacts, OrphanFacts, Lasts, NeverYoung, OldJob, Unclaimable, Claimed, Over, Landed, Settled, Finished, Dead, Committed, Launching, Served, Gone
  <2> QED
    BY <2>1, <2>2
<1>15. CASE RunnerDropped(v)
  <2>1. Facts(v)'
    BY <1>15 DEF RunnerDropped, WorldTypes, worldVars, tableVars, Facts, Launches, VmAges, RowFacts, ClaimFacts, OrphanFacts, Over, Settled, Dead, Committed, Claimed, Launching, Served, Gone, NoRow, Times, Ages
  <2>2. Lasts(v)
    BY <1>15 DEF RunnerDropped, WorldTypes, worldVars, tableVars, Facts, Launches, VmAges, RowFacts, ClaimFacts, OrphanFacts, Lasts, NeverYoung, OldJob, Unclaimable, Claimed, Over, Landed, Settled, Finished, Dead, Committed, Launching, Served, Gone
  <2> QED
    BY <2>1, <2>2
<1>16. CASE RotateId(v)
  <2>1. Facts(v)'
    BY <1>16 DEF RotateId, WorldTypes, worldVars, tableVars, Facts, Launches, VmAges, RowFacts, ClaimFacts, OrphanFacts, Over, Settled, Dead, Committed, Claimed, Launching, Served, Gone, NoRow, Times, Ages
  <2>2. Lasts(v)
    BY <1>16 DEF RotateId, WorldTypes, worldVars, tableVars, Facts, Launches, VmAges, RowFacts, ClaimFacts, OrphanFacts, Lasts, NeverYoung, OldJob, Unclaimable, Claimed, Over, Landed, Settled, Finished, Dead, Committed, Launching, Served, Gone
  <2> QED
    BY <2>1, <2>2
<1>17. CASE ListCatchesUp(v)
  <2>1. Facts(v)'
    BY <1>17 DEF ListCatchesUp, WorldTypes, worldVars, tableVars, Facts, Launches, VmAges, RowFacts, ClaimFacts, OrphanFacts, Over, Settled, Dead, Committed, Claimed, Launching, Served, Gone, NoRow, Times, Ages
  <2>2. Lasts(v)
    BY <1>17 DEF ListCatchesUp, WorldTypes, worldVars, tableVars, Facts, Launches, VmAges, RowFacts, ClaimFacts, OrphanFacts, Lasts, NeverYoung, OldJob, Unclaimable, Claimed, Over, Landed, Settled, Finished, Dead, Committed, Launching, Served, Gone
  <2> QED
    BY <2>1, <2>2
<1>18. CASE ExpireRow(v)
  <2>1. Facts(v)'
    BY <1>18 DEF ExpireRow, WorldTypes, worldVars, tableVars, Facts, Launches, VmAges, RowFacts, ClaimFacts, OrphanFacts, Over, Settled, Dead, Committed, Claimed, Launching, Served, Gone, NoRow, Times, Ages
  <2>2. Lasts(v)
    BY <1>18 DEF ExpireRow, WorldTypes, worldVars, tableVars, Facts, Launches, VmAges, RowFacts, ClaimFacts, OrphanFacts, Lasts, NeverYoung, OldJob, Unclaimable, Claimed, Over, Landed, Settled, Finished, Dead, Committed, Launching, Served, Gone
  <2> QED
    BY <2>1, <2>2
<1>19. CASE ExpireWarmClaim(v)
  <2>1. Facts(v)'
    BY <1>19 DEF ExpireWarmClaim, WorldTypes, worldVars, tableVars, Facts, Launches, VmAges, RowFacts, ClaimFacts, OrphanFacts, Over, Settled, Dead, Committed, Claimed, Launching, Served, Gone, NoRow, Times, Ages
  <2>2. Lasts(v)
    BY <1>19 DEF ExpireWarmClaim, WorldTypes, worldVars, tableVars, Facts, Launches, VmAges, RowFacts, ClaimFacts, OrphanFacts, Lasts, NeverYoung, OldJob, Unclaimable, Claimed, Over, Landed, Settled, Finished, Dead, Committed, Launching, Served, Gone
  <2> QED
    BY <2>1, <2>2
<1> QED
  BY <1>1, <1>2, <1>3, <1>4, <1>5, <1>6, <1>7, <1>8, <1>9, <1>10, <1>11, <1>12, <1>13, <1>14, <1>15, <1>16, <1>17, <1>18, <1>19 DEF WorldStep
LEMMA TickFacts ==
  ASSUME WorldTypes, NEW v \in Vms, Facts(v), Tick
  PROVE  Facts(v)' /\ Lasts(v)
<1> USE Fields, Times0
<1>1. /\ vm'[v].state = vm[v].state /\ vm'[v].current = vm[v].current
      /\ vm'[v].age = (IF Gone(v) THEN 0 ELSE Older(vm[v].age))
      /\ job'[v].phase = job[v].phase
      /\ job'[v].age = (IF Idling(v) THEN 0 ELSE Older(job[v].age))
      /\ job[v].phase \in {"launching", "filling"} => job[v].age < LaunchTime
      /\ runner'[v] = runner[v] /\ listed'[v] = listed[v] /\ listed[v] = runner[v]
      /\ orphan'[v] = Older(orphan[v]) /\ warmClaim'[v] = Older(warmClaim[v])
  <2>1. /\ vm'[v].state = vm[v].state /\ vm'[v].current = vm[v].current
        /\ vm'[v].age = (IF Gone(v) THEN 0 ELSE Older(vm[v].age))
    BY DEF Tick, WorldTypes, VmRecords
  <2>2. /\ job'[v].phase = job[v].phase
        /\ job'[v].age = (IF Idling(v) THEN 0 ELSE Older(job[v].age))
    BY DEF Tick, WorldTypes, JobRecords
  <2>3. /\ job[v].phase \in {"launching", "filling"} => job[v].age < LaunchTime
        /\ runner'[v] = runner[v] /\ listed'[v] = listed[v] /\ listed[v] = runner[v]
        /\ orphan'[v] = Older(orphan[v]) /\ warmClaim'[v] = Older(warmClaim[v])
    BY DEF Tick
  <2> QED
    BY <2>1, <2>2, <2>3
<1>2. /\ row'[v].is = row[v].is
      /\ row[v].is = "none" => row'[v] = row[v]
      /\ row[v].is # "none" => row'[v].age = Older(row[v].age) /\ row'[v].suspect = Older(row[v].suspect)
  BY DEF Tick, WorldTypes, RowRecords
<1>3. \A s, t \in 0..MaxAge : s <= t => Older(s) <= Older(t)
  BY DEF Older
<1>4. \A t \in 0..MaxAge : /\ Older(t) \in 0..MaxAge /\ t <= Older(t) /\ Older(t) <= t + 1
                           /\ Older(t) # None
  BY DEF Older
<1>5. Older(None) = None
  BY DEF Older
<1>6. \A s, t \in 0..MaxAge : s <= t + SweepTime => Older(s) <= Older(t) + SweepTime
  BY OlderKeepsOrder DEF Ages
<1>7. Launches(v)'
  BY <1>1, <1>4, <1>5 DEF Facts, Launches, Gone, Idling, Launching
<1>8. VmAges(v)'
  BY <1>1, <1>3, <1>4 DEF Facts, Launches, VmAges, Gone, Served, Idling, Launching
<1>9. RowFacts(v)'
  <2>1. (row[v].is # "none" => row[v].is = "mapping" /\ Committed(v))'
    BY <1>1, <1>2 DEF Facts, RowFacts, Committed
  <2>2. (row[v].is = "none" => row[v] = NoRow)'
    BY <1>2 DEF Facts, RowFacts
  <2>3. (row[v].suspect # None => row[v].suspect <= row[v].age + SweepTime)'
    BY <1>2, <1>5, <1>6 DEF Facts, RowFacts, NoRow, Times, Ages
  <2>4. (row[v].is = "mapping" /\ row[v].age >= 1 => Settled(v))'
    BY <1>1, <1>2 DEF Facts, RowFacts, Settled, Committed
  <2>5. (row[v].is = "mapping" /\ ~Gone(v) => row[v].age <= job[v].age)'
    BY <1>1, <1>2, <1>3 DEF Facts, RowFacts, Gone, Idling, Committed, Launching
  <2>6. (row[v].is = "mapping" \/ Over(v))'
    BY <1>1, <1>2, <1>4 DEF Facts, RowFacts, Launches, Over, Gone, Dead, Committed, Idling, Launching
  <2> QED
    BY <2>1, <2>2, <2>3, <2>4, <2>5, <2>6 DEF RowFacts
<1>10. ClaimFacts(v)'
  <2>1. warmClaim'[v] = None <=> warmClaim[v] = None
    BY <1>1, <1>4, <1>5 DEF Times, Ages
  <2>2. ASSUME warmClaim[v] # None, Launching(v) \/ (Committed(v) /\ ~Gone(v))
        PROVE  warmClaim'[v] <= job'[v].age
    BY <1>1, <1>3, <2>2 DEF Facts, ClaimFacts, Idling, Committed, Launching, Gone, Times, Ages
  <2> QED
    BY <1>1, <2>1, <2>2 DEF Facts, ClaimFacts, Claimed, Launching, Committed, Gone
<1>11. OrphanFacts(v)'
  <2>1. orphan'[v] = None <=> orphan[v] = None
    BY <1>1, <1>4, <1>5 DEF Times, Ages
  <2>2. ASSUME orphan[v] # None, orphan[v] <= job[v].age + SweepTime, Launching(v)
        PROVE  orphan'[v] <= job'[v].age + SweepTime
    BY <1>1, <1>6, <2>2 DEF Idling, Launching, Times, Ages
  <2> QED
    BY <1>1, <2>1, <2>2 DEF Facts, OrphanFacts, Launching
<1>12. Lasts(v)
  <2>1. OldJob(v) => OldJob(v)'
    BY <1>1, <1>4 DEF OldJob, Claimed, Served, Gone, Idling, Launching
  <2>2. Over(v) => Over(v)'
    BY <1>1, <1>4 DEF Facts, Launches, Over, Committed, Dead, Gone, Idling, Launching
  <2>3. Unclaimable(v) => Unclaimable(v)'
    BY <1>1 DEF Unclaimable, Served
  <2>4. (Committed(v) => Committed(v)') /\ (Dead(v) => Dead(v)') /\ (Claimed(v) => Claimed(v)')
        /\ (Landed(v) => Landed(v)') /\ (Finished(v) => Finished(v)') /\ (Settled(v) => Settled(v)')
    BY <1>1 DEF Committed, Dead, Claimed, Landed, Launching, Finished, Settled
  <2> QED
    BY <1>1, <2>1, <2>2, <2>3, <2>4 DEF Lasts, NeverYoung
<1> QED
  BY <1>7, <1>8, <1>9, <1>10, <1>11, <1>12 DEF Facts

LEMMA KillFacts ==
  ASSUME WorldTypes, NEW v \in Vms, Facts(v), NEW next, Kill(v, next)
  PROVE  Facts(v)' /\ Lasts(v)
<1>1. /\ vm'[v].state = "terminated" \/ vm'[v] = vm[v]
      /\ vm'[v].current = vm[v].current
      /\ job' = job /\ runner' = runner /\ listed' = listed
      /\ row' = row /\ orphan' = orphan /\ warmClaim' = warmClaim
  BY DEF Kill, WorldTypes, VmRecords, tableVars
<1>2. Facts(v)'
  BY <1>1, Fields DEF Facts, Launches, VmAges, RowFacts, ClaimFacts, OrphanFacts, Over, Settled, Dead,
     Committed, Claimed, Launching, Served, Gone
<1>3. Lasts(v)
  BY <1>1 DEF Lasts, NeverYoung, OldJob, Unclaimable, Claimed, Over, Landed, Settled, Finished, Dead,
     Committed, Launching, Served, Gone
<1> QED
  BY <1>2, <1>3

LEMMA ReconcileFacts ==
  ASSUME WorldTypes, SweepTypes, NEW v \in Vms, Facts(v), ItemFacts(v), ReconcileStep(v)
  PROVE  Facts(v)' /\ Lasts(v)
<1>1. CASE LifetimeKill(v) \/ OrphanKill(v) \/ RunnerKill(v)
  BY <1>1, KillFacts DEF LifetimeKill, OrphanKill, RunnerKill
<1>2. CASE Unmap(v)
  <2>1. Dead(v) /\ UNCHANGED <<worldVars, orphan>> /\ (row'[v] = row[v] \/ row'[v] = NoRow)
    BY <1>2 DEF Unmap, At, ItemFacts, WorldTypes
  <2>2. Facts(v)'
    BY <2>1, Times0 DEF worldVars, Facts, Launches, VmAges, RowFacts, ClaimFacts, OrphanFacts, Over, Settled,
       Dead, Committed, Claimed, Launching, Served, Gone, NoRow
  <2>3. Lasts(v)
    BY <2>1 DEF worldVars, Lasts, NeverYoung, OldJob, Unclaimable, Claimed, Over, Landed, Settled, Finished,
       Dead, Committed, Launching, Served, Gone
  <2> QED
    BY <2>2, <2>3
<1>3. CASE Unstrike(v) \/ PutOrphanRow(v)
  <2>1. /\ vm[v].state # "none" /\ UNCHANGED <<worldVars, row>>
        /\ orphan'[v] \in {orphan[v], None, clock}
    BY <1>3 DEF Unstrike, PutOrphanRow, At, ItemFacts, WorldTypes
  <2>2. Launches(v)' /\ VmAges(v)' /\ RowFacts(v)' /\ ClaimFacts(v)'
    BY <2>1 DEF worldVars, Facts, Launches, VmAges, RowFacts, ClaimFacts, Over, Settled,
       Dead, Committed, Claimed, Launching, Served, Gone
  <2>3. OrphanFacts(v)'
    BY <2>1, Fields, Times0 DEF worldVars, Facts, OrphanFacts, Launching, WorldTypes
  <2>4. Lasts(v)
    BY <2>1 DEF worldVars, Lasts, NeverYoung, OldJob, Unclaimable, Claimed, Over, Landed, Settled, Finished,
       Dead, Committed, Launching, Served, Gone
  <2> QED
    BY <2>2, <2>3, <2>4 DEF Facts
<1>4. CASE WriteRow(v)
  <2>1. UNCHANGED <<worldVars, orphan>>
    BY <1>4 DEF WriteRow
  <2>2. row'[v] = row[v] \/ (row[v].is # "none" /\ row'[v] = Written(v, FirstWrite(item.writes)))
    BY <1>4 DEF WriteRow, UpdateExistingRow, WorldTypes
  <2>3. /\ row'[v].is = row[v].is /\ row'[v].age = row[v].age
        /\ row'[v].suspect \in {row[v].suspect, clock, None}
        /\ row[v].is = "none" => row'[v] = row[v]
    BY <2>2, FirstWriteType, Fields DEF Written, RowRecords
  <2>4. RowFacts(v)'
    <3>1. (row[v].suspect # None => row[v].suspect <= row[v].age + SweepTime)'
      BY <2>3, Fields, Times0 DEF Facts, RowFacts, WorldTypes
    <3> QED
      BY <2>1, <2>3, <3>1 DEF worldVars, Facts, RowFacts, Over, Settled, Dead, Committed, Gone
  <2>5. Launches(v)' /\ VmAges(v)' /\ ClaimFacts(v)' /\ OrphanFacts(v)'
    BY <2>1 DEF worldVars, Facts, Launches, VmAges, ClaimFacts, OrphanFacts,
       Committed, Claimed, Launching, Served, Gone
  <2>6. Lasts(v)
    BY <2>1 DEF worldVars, Lasts, NeverYoung, OldJob, Unclaimable, Claimed, Over, Landed, Settled, Finished,
       Dead, Committed, Launching, Served, Gone
  <2> QED
    BY <2>4, <2>5, <2>6 DEF Facts
<1>5. CASE Deregister(v)
  <2>1. /\ UNCHANGED <<vm, job, listed, warmClaim, row, orphan>>
        /\ runner'[v] = runner[v] \/ runner'[v] = "absent"
    BY <1>5 DEF Deregister, WorldTypes, tableVars
  <2>2. Facts(v)'
    BY <2>1 DEF Facts, Launches, VmAges, RowFacts, ClaimFacts, OrphanFacts, Over, Settled,
       Dead, Committed, Claimed, Launching, Served, Gone
  <2>3. Lasts(v)
    BY <2>1 DEF Lasts, NeverYoung, OldJob, Unclaimable, Claimed, Over, Landed, Settled, Finished,
       Dead, Committed, Launching, Served, Gone
  <2> QED
    BY <2>2, <2>3
<1>6. CASE RereadTable(v) \/ LoadRunners(v) \/ JudgeRunner(v) \/ GetRunner(v) \/ RelistRunners(v)
  BY <1>6, Undisturbed DEF RereadTable, LoadRunners, JudgeRunner, GetRunner, RelistRunners, worldVars, tableVars
<1> QED
  BY <1>1, <1>2, <1>3, <1>4, <1>5, <1>6 DEF ReconcileStep

LEMMA ReadsReadOnly == Reads \/ UNCHANGED vars => UNCHANGED <<worldVars, tableVars>>
  BY DEF Reads, StartSweep, ListVms, ScanTable, MapVms, TakeItem, EndSweep, vars

LEMMA FactsStep ==
  ASSUME JanitorInv, [Next]_vars
  PROVE  WorldFacts' /\ \A v \in Vms : Lasts(v)
<1> SUFFICES ASSUME NEW v \in Vms PROVE Facts(v)' /\ Lasts(v)
  BY DEF WorldFacts
<1>0. WorldTypes /\ SweepTypes /\ Facts(v)
  BY DEF JanitorInv, WorldFacts
<1>1. CASE Reads \/ UNCHANGED vars
  BY <1>0, <1>1, ReadsReadOnly, Undisturbed DEF worldVars, tableVars
<1>2. ASSUME NEW u \in Vms, ReconcileStep(u) PROVE Facts(v)' /\ Lasts(v)
  <2>1. item # NoItem /\ item.vm = u
    BY <1>0, <1>2, AtItem DEF ReconcileStep, LifetimeKill, Unmap, Unstrike, PutOrphanRow, RereadTable,
       OrphanKill, LoadRunners, JudgeRunner, GetRunner, RelistRunners, WriteRow, Deregister, RunnerKill, Steps
  <2>2. ItemFacts(u)
    BY <2>1 DEF JanitorInv, SweepFacts
  <2> QED
    BY <1>0, <1>2, <2>2, ReconcileFacts, Elsewhere, Undisturbed
<1>3. ASSUME NEW u \in Vms, WorldStep(u) PROVE Facts(v)' /\ Lasts(v)
  BY <1>0, <1>3, WorldStepFacts, Elsewhere, Undisturbed
<1>4. CASE Tick
  BY <1>0, <1>4, TickFacts
<1> QED
  BY <1>1, <1>2, <1>3, <1>4 DEF Next, SweepStep, Reads

-----------------------------------------------------------------------------
(* What the sweep has read.                                                *)

LEMMA SeenLasts ==
  ASSUME WorldTypes, SweepTypes, NEW v \in Vms, Lasts(v), SeenVm(v), SeenRow(v), SeenAge(v),
         snap'[v] = snap[v], sweep' = sweep,
         sweep = "scan" /\ orphan[v] = None => orphan'[v] = None,
         cache' = cache \/ (cache' = listed /\ runner' = runner /\ listed' = listed)
  PROVE  SeenVm(v)' /\ SeenRow(v)' /\ SeenAge(v)'
<1>1. SeenVm(v)'
  BY DEF SeenVm, Lasts, Rowed
<1>2. SeenRow(v)'
  <2>1. ASSUME snap[v].suspect = "old", cache' # Unloaded, cache'[v] = "absent"
        PROVE  runner'[v] = "absent"
    <3>1. Settled(v)
      BY <2>1 DEF SeenRow
    <3>2. CASE cache' = cache
      BY <2>1, <3>1, <3>2 DEF SeenRow, Settled, Lasts, Finished
    <3>3. CASE cache' = listed /\ runner' = runner
      BY <2>1, <3>1, <3>3 DEF Settled
    <3> QED
      BY <3>2, <3>3
  <2> QED
    BY <2>1 DEF SeenRow, Lasts
<1>3. SeenAge(v)'
  BY DEF SeenAge, Lasts, Rowed
<1> QED
  BY <1>1, <1>2, <1>3

LEMMA ItemLasts ==
  ASSUME Lasts(item.vm), ItemFacts(item.vm), item' = item
  PROVE  ItemFacts(item.vm)'
  BY DEF ItemFacts, Lasts

\* Between two calls of the sweep.
LEMMA SweepWaits ==
  ASSUME JanitorInv, \A v \in Vms : Lasts(v), UNCHANGED sweepVars,
         \A v \in Vms : orphan[v] = None => orphan'[v] = None
  PROVE  SweepFacts'
<1>1. \A v \in Vms : SeenVm(v)' /\ SeenRow(v)' /\ SeenAge(v)'
  BY SeenLasts DEF JanitorInv, SweepFacts, sweepVars
<1>2. Phasing'
  BY DEF JanitorInv, SweepFacts, Phasing, sweepVars
<1>3. (\A t \in todo : t[2] \in ItemsOf(snap[t[1]]))'
  BY DEF JanitorInv, SweepFacts, sweepVars
<1>4. (item # NoItem => ItemFacts(item.vm))'
  <2>1. item # NoItem => item.vm \in Vms
    BY DEF JanitorInv, SweepTypes, Items
  <2> QED
    BY <2>1, ItemLasts DEF JanitorInv, SweepFacts, sweepVars
<1> QED
  BY <1>1, <1>2, <1>3, <1>4 DEF SweepFacts

LEMMA EndedFacts ==
  ASSUME NEW p \in {"off", "killed"}, SweepEnds(p)
  PROVE  SweepFacts'
<1>1. \A v \in Vms : (snap[v] = Unread)' /\ sweep' # "scan" /\ cache' = Unloaded
  BY DEF SweepEnds
<1>2. \A v \in Vms : (SeenVm(v) /\ SeenRow(v) /\ SeenAge(v))'
  BY <1>1 DEF Unread, SeenVm, SeenRow, SeenAge, Rowed
<1>3. Phasing'
  BY DEF SweepEnds, Phasing
<1> QED
  BY <1>2, <1>3 DEF SweepEnds, SweepFacts

\* A VM that runs and is older than the cap has a launch; a cold one is no older than it.
LEMMA AgedVm ==
  ASSUME WorldTypes, NEW v \in Vms, Facts(v), vm[v].age - clock > LifetimeCap, vm[v].state = "running"
  PROVE  Claimed(v) /\ (v \notin Pool => OldJob(v))
<1>1. vm[v].age > LifetimeCap /\ vm[v].age \in Nat /\ job[v].age \in Nat /\ job[v].phase \in Phases
  BY Fields, Times0 DEF WorldTypes
<1>2. Claimed(v)
  BY <1>1, Times0 DEF Facts, Launches, VmAges, Gone, Claimed, Phases
<1>3. v \notin Pool => OldJob(v)
  BY <1>1, <1>2, Times0 DEF Facts, VmAges, Gone, OldJob
<1> QED
  BY <1>2, <1>3

\* The stamps of a claim are no older than its job; a launch without stamps is over.
LEMMA ServedFor ==
  ASSUME WorldTypes, NEW v \in Vms, Facts(v), ServedTooLong(v),
         row[v].is = "mapping" \/ (v \in Pool /\ Claimed(v))
  PROVE  OldJob(v)
<1>0. /\ job[v].age \in Nat /\ row[v].age \in Nat /\ clock \in Nat /\ warmClaim[v] \in Times
      /\ job[v].phase \in Phases
  BY Fields, Times0 DEF WorldTypes
<1>1. Claimed(v)
  BY DEF Facts, RowFacts, Claimed, Committed
<1> SUFFICES ASSUME Served(v), ~Gone(v) PROVE job[v].age > MaxJob
  BY <1>1 DEF OldJob
<1>2. CASE ClaimTimes(v) = {}
  <2>1. row[v].is # "mapping" /\ warmClaim[v] = None
    BY <1>2 DEF ClaimTimes
  <2>2. Committed(v)
    BY <1>1, <2>1 DEF Facts, ClaimFacts, Served, Committed, Launching
  <2>3. job[v].age >= RowTtl
    BY <2>1, <2>2 DEF Facts, RowFacts, Over, Dead, Gone
  <2> QED
    BY <1>0, <2>3, Times0
<1>3. CASE ClaimTimes(v) # {}
  <2>1. PICK t \in ClaimTimes(v) : t - clock > LifetimeCap
    BY <1>3 DEF ServedTooLong
  <2>2. t \in Nat /\ t <= job[v].age
    <3>1. CASE row[v].is = "mapping" /\ t = row[v].age
      BY <1>0, <3>1 DEF Facts, RowFacts
    <3>2. CASE t = warmClaim[v] /\ warmClaim[v] # None
      <4>1. Launching(v) \/ Committed(v)
        BY DEF Served, Launching, Committed
      <4> QED
        BY <1>0, <3>2, <4>1, Times0 DEF Facts, ClaimFacts, Times, Ages
    <3> QED
      BY <2>1, <3>1, <3>2 DEF ClaimTimes
  <2> QED
    BY <1>0, <2>1, <2>2, Times0
<1> QED
  BY <1>2, <1>3

\* A strike of an earlier sweep is older than the launch, and than the list of runners lags.
LEMMA OldStrikes ==
  ASSUME WorldTypes, NEW v \in Vms, Facts(v)
  PROVE  /\ Strike(row[v].suspect) = "old" => Settled(v)
         /\ Strike(orphan[v]) = "old" /\ v \notin Pool => Landed(v)
<1>0. /\ job[v].age \in Nat /\ row[v].age \in Nat /\ clock \in Nat
      /\ row[v].suspect \in Times /\ orphan[v] \in Times /\ row[v].is \in {"none", "mapping", "zombie"}
  BY Fields, Times0 DEF WorldTypes
<1>1. ASSUME NEW t \in Times, Strike(t) = "old" PROVE t # None /\ t \in Nat /\ t > LaunchTime + SweepTime
  BY <1>0, <1>1, Times0 DEF Strike, IsOlderThanInterval, Times, Ages
<1>2. Strike(row[v].suspect) = "old" => Settled(v)
  BY <1>0, <1>1, Times0 DEF Facts, RowFacts, NoRow
<1>3. Strike(orphan[v]) = "old" /\ v \notin Pool => Landed(v)
  BY <1>0, <1>1, Times0 DEF Facts, Launches, OrphanFacts, Landed, Launching
<1> QED
  BY <1>2, <1>3

LEMMA Unmoved ==
  ASSUME UNCHANGED <<vm, job, runner, listed>>, NEW v
  PROVE  /\ Committed(v)' = Committed(v) /\ Dead(v)' = Dead(v) /\ Settled(v)' = Settled(v)
         /\ Landed(v)' = Landed(v) /\ Claimed(v)' = Claimed(v) /\ OldJob(v)' = OldJob(v)
         /\ NeverYoung(v)' = NeverYoung(v) /\ Finished(v)' = Finished(v)
         /\ vm'[v].state = vm[v].state /\ runner'[v] = runner[v] /\ Over(v)' = Over(v)
  BY DEF NeverYoung, OldJob, Unclaimable, Claimed, Served, Gone, Settled, Landed, Launching, Committed,
     Dead, Finished, Over

LEMMA ListVmsFacts ==
  ASSUME JanitorInv, ListVms
  PROVE  SweepFacts'
<1>1. CASE SweepEnds("off")
  BY <1>1, EndedFacts
<1>2. CASE /\ snap' = [v \in Vms |->
                IF vm[v].current /\ vm[v].state # "none" THEN ReadVm(snap[v], v) ELSE snap[v]]
           /\ sweep' = "scan" /\ UNCHANGED <<cache, todo, item>>
  <2>1. /\ cache' = Unloaded /\ todo' = {} /\ item' = NoItem
        /\ UNCHANGED <<vm, job, row, orphan, clock>>
        /\ \A v \in Vms : snap[v] = Unread
    BY <1>2 DEF ListVms, JanitorInv, SweepFacts, Phasing, worldVars, tableVars
  <2>2. ASSUME NEW v \in Vms PROVE SeenVm(v)' /\ SeenRow(v)' /\ SeenAge(v)'
    <3>0. WorldTypes /\ Facts(v) /\ vm[v].state \in VmStates
      BY Fields DEF JanitorInv, WorldFacts
    <3>1. CASE snap'[v] = Unread /\ (~vm[v].current \/ vm[v].state = "none")
      BY <1>2, <2>1, <3>0, <3>1 DEF Unread, SeenVm, SeenRow, SeenAge, Rowed, Facts, Launches
    <3>2. CASE snap'[v] = ReadVm(Unread, v) /\ vm[v].state # "none"
      <4>1. /\ snap'[v].state = vm[v].state /\ snap'[v].aged = (vm[v].age - clock > LifetimeCap)
            /\ snap'[v].served = FALSE /\ snap'[v].mapped = FALSE
            /\ snap'[v].suspect = "none" /\ snap'[v].orphan = "none"
        BY <3>2 DEF ReadVm, Unread
      <4>2. SeenVm(v)' /\ SeenRow(v)'
        BY <2>1, <3>0, <3>2, <4>1 DEF SeenVm, SeenRow, Dead, VmStates
      <4>3. snap'[v].aged /\ snap'[v].state = "running" => Claimed(v) /\ (v \notin Pool => OldJob(v))
        BY <3>0, <4>1, AgedVm
      <4>4. SeenAge(v)'
        BY <1>2, <2>1, <3>0, <4>1, <4>3 DEF SeenAge, Claimed, OldJob, Served, Gone, VmStates
      <4> QED
        BY <4>2, <4>4
    <3> QED
      BY <1>2, <2>1, <3>1, <3>2
  <2>3. Phasing'
    BY <1>2, <2>1 DEF Phasing
  <2> QED
    BY <2>1, <2>2, <2>3 DEF SweepFacts
<1> QED
  BY <1>1, <1>2 DEF ListVms

LEMMA ScanTableFacts ==
  ASSUME JanitorInv, ScanTable
  PROVE  SweepFacts'
<1>1. CASE SweepEnds("off")
  BY <1>1, EndedFacts
<1>2. CASE /\ snap' = [v \in Vms |-> ReadRows(snap[v], v)]
           /\ sweep' = "map" /\ UNCHANGED <<cache, todo, item>>
  <2>1. /\ cache' = Unloaded /\ todo' = {} /\ item' = NoItem /\ sweep = "scan"
        /\ UNCHANGED <<vm, job, runner, listed, row, orphan, clock>>
    BY <1>2 DEF ScanTable, JanitorInv, SweepFacts, Phasing, worldVars, tableVars
  <2>2. ASSUME NEW v \in Vms PROVE SeenVm(v)' /\ SeenRow(v)' /\ SeenAge(v)'
    <3>0. /\ WorldTypes /\ Facts(v) /\ SeenVm(v) /\ SeenAge(v) /\ snap[v] \in Readings
          /\ orphan[v] \in Times
      BY Fields DEF JanitorInv, WorldFacts, SweepFacts, SweepTypes
    <3>1. /\ snap'[v].state = snap[v].state /\ snap'[v].aged = snap[v].aged
          /\ snap'[v].mapped = (row[v].is = "mapping") /\ snap'[v].served = ServedTooLong(v)
          /\ snap'[v].suspect = Strike(row[v].suspect) /\ snap'[v].orphan = Strike(orphan[v])
      BY <1>2, <3>0 DEF ReadRows, Readings
    <3>2. Rowed(snap'[v]) => row[v].is = "mapping" \/ orphan[v] # None
      BY <3>1 DEF Rowed, Strike
    <3>3. row[v].is = "mapping" \/ orphan[v] # None => vm[v].state # "none"
      BY <3>0 DEF Facts, Launches, RowFacts, Committed
    <3>4. SeenVm(v)'
      BY <2>1, <3>0, <3>1, <3>2, <3>3 DEF SeenVm, Dead
    <3>5. SeenRow(v)'
      BY <2>1, <3>0, <3>1, OldStrikes, Unmoved DEF SeenRow, Facts, RowFacts
    <3>6. snap'[v].served /\ (row[v].is = "mapping" \/ (v \in Pool /\ Claimed(v))) => OldJob(v)
      BY <3>0, <3>1, ServedFor
    <3>7. snap'[v].aged /\ snap'[v].state = "running" => Claimed(v) /\ (v \notin Pool => OldJob(v))
      BY <3>0, <3>1 DEF SeenAge
    <3>8. snap'[v].state = "unlisted" /\ snap'[v].served /\ Rowed(snap'[v]) => NeverYoung(v) \/ v \notin Pool
      BY <2>1, <3>0, <3>1, <3>2, <3>3, <3>6 DEF SeenAge, NeverYoung, Unclaimable, Claimed, Served
    <3>9. SeenAge(v)'
      <4>1. NeverYoung(v)' = NeverYoung(v) /\ Claimed(v)' = Claimed(v) /\ OldJob(v)' = OldJob(v)
        BY <2>1, Unmoved
      <4>2. snap'[v].served /\ snap'[v].aged /\ snap'[v].state = "running" => NeverYoung(v)
        BY <3>6, <3>7 DEF NeverYoung
      <4> QED
        BY <1>2, <3>7, <3>8, <4>1, <4>2 DEF SeenAge
    <3> QED
      BY <3>4, <3>5, <3>9
  <2>3. Phasing'
    BY <1>2, <2>1 DEF Phasing
  <2> QED
    BY <2>1, <2>2, <2>3 DEF SweepFacts
<1> QED
  BY <1>1, <1>2 DEF ScanTable

LEMMA MapVmsFacts ==
  ASSUME JanitorInv, MapVms
  PROVE  SweepFacts'
<1>1. /\ sweep = "map" /\ sweep' = "items" /\ cache' = Unloaded /\ item' = NoItem
      /\ UNCHANGED <<vm, job, runner, listed, row, orphan, clock>>
  BY DEF MapVms, JanitorInv, SweepFacts, Phasing, worldVars, tableVars
<1>2. ASSUME NEW v \in Vms PROVE SeenVm(v)' /\ SeenRow(v)' /\ SeenAge(v)'
  <2>0. /\ WorldTypes /\ Facts(v) /\ SeenVm(v) /\ SeenRow(v) /\ SeenAge(v) /\ snap[v] \in Readings
        /\ vm[v].state \in VmStates
    BY Fields DEF JanitorInv, WorldFacts, SweepFacts, SweepTypes
  <2>1. /\ Committed(v)' = Committed(v) /\ Dead(v)' = Dead(v) /\ Settled(v)' = Settled(v)
        /\ Landed(v)' = Landed(v) /\ Claimed(v)' = Claimed(v) /\ OldJob(v)' = OldJob(v)
        /\ NeverYoung(v)' = NeverYoung(v)
    BY <1>1, Unmoved
  <2>2. CASE snap'[v] = snap[v]
    BY <1>1, <2>0, <2>1, <2>2 DEF SeenVm, SeenRow, SeenAge
  <2>3. CASE Unlisted(v) /\ snap'[v] = ReadVm(snap[v], v)
    <3>1. /\ snap'[v].state = vm[v].state /\ snap'[v].aged = (vm[v].age - clock > LifetimeCap)
          /\ snap'[v].served = snap[v].served /\ snap'[v].mapped = snap[v].mapped
          /\ snap'[v].suspect = snap[v].suspect /\ snap'[v].orphan = snap[v].orphan
          /\ snap[v].state = "unlisted" /\ Rowed(snap[v])
      BY <2>0, <2>3 DEF ReadVm, Readings, Unlisted
    <3>2. vm[v].state # "none"
      BY <2>0, <3>1 DEF SeenVm
    <3>3. SeenVm(v)' /\ SeenRow(v)'
      BY <1>1, <2>0, <2>1, <3>1, <3>2 DEF SeenVm, SeenRow, Dead
    <3>4. snap'[v].aged /\ snap'[v].state = "running" => Claimed(v) /\ (v \notin Pool => OldJob(v))
      BY <2>0, <3>1, AgedVm
    <3>5. snap'[v].served => NeverYoung(v) \/ v \notin Pool
      BY <1>1, <2>0, <3>1 DEF SeenAge
    <3>6. SeenAge(v)'
      BY <1>1, <2>1, <3>4, <3>5 DEF SeenAge, NeverYoung
    <3> QED
      BY <3>3, <3>6
  <2> QED
    BY <2>2, <2>3 DEF MapVms
<1>3. Phasing'
  BY <1>1 DEF Phasing
<1>4. (\A t \in todo : t[2] \in ItemsOf(snap[t[1]]))'
  BY DEF MapVms
<1> QED
  BY <1>1, <1>2, <1>3, <1>4 DEF SweepFacts

LEMMA TakeItemFacts ==
  ASSUME JanitorInv, TakeItem
  PROVE  SweepFacts'
<1>1. /\ sweep = "items" /\ UNCHANGED <<vm, job, runner, listed, row, orphan, sweep, snap, cache>>
  BY DEF TakeItem, worldVars, tableVars
<1>2. PICK t \in todo :
        LET step == FirstStep(snap[t[1]], t[2]) IN
        /\ todo' = todo \ {t}
        /\ item' = IF step = "done" THEN NoItem
                   ELSE [NoItem EXCEPT !.vm = t[1], !.kind = t[2], !.step = step]
  BY DEF TakeItem
<1>3. \A v \in Vms : (SeenVm(v) /\ SeenRow(v) /\ SeenAge(v))'
  BY <1>1 DEF JanitorInv, SweepFacts, SeenVm, SeenRow, SeenAge, NeverYoung, OldJob, Unclaimable, Claimed,
     Served, Gone, Settled, Landed, Launching, Committed, Dead
<1>4. Phasing'
  BY <1>1 DEF Phasing
<1>5. (\A x \in todo : x[2] \in ItemsOf(snap[x[1]]))'
  BY <1>1, <1>2 DEF JanitorInv, SweepFacts
<1>6. ASSUME item' # NoItem PROVE ItemFacts(item.vm)'
  <2> DEFINE v == t[1]
             k == t[2]
             step == FirstStep(snap[v], k)
  <2>1. v \in Vms /\ k \in ItemsOf(snap[v])
    BY DEF JanitorInv, SweepTypes, SweepFacts
  <2>2. item'.vm = v /\ item'.step = step /\ step # "done"
    BY <1>2, <1>6 DEF NoItem
  <2>3. SeenVm(v) /\ SeenRow(v) /\ SeenAge(v) /\ Facts(v)
    BY <2>1 DEF JanitorInv, SweepFacts, WorldFacts
  <2> HIDE DEF v, k
  <2>4. /\ step = "unmap" => snap[v].mapped /\ snap[v].state = "terminated"
        /\ step = "lifetimeKill" => snap[v].aged /\ snap[v].served /\ snap[v].state = "running"
        /\ step = "reread" => snap[v].orphan = "old"
        /\ step = "judge" => snap[v].mapped
        /\ step \in {"unmap", "lifetimeKill", "unstrike", "strike", "reread", "judge"}
        /\ snap[v].state # "unlisted"
    BY <2>1, <2>2, <2>3 DEF FirstStep, ItemsOf, SeenVm
  <2>5. /\ vm[v].state # "none"
        /\ step = "unmap" => Dead(v)
        /\ step = "lifetimeKill" => NeverYoung(v)
        /\ step = "reread" /\ v \notin Pool => Landed(v)
        /\ step = "judge" => Committed(v)
    BY <1>1, <2>3, <2>4 DEF SeenVm, SeenRow, SeenAge
  <2> HIDE DEF step
  <2> QED
    BY <1>1, <2>2, <2>4, <2>5, Unmoved DEF ItemFacts
<1> QED
  BY <1>3, <1>4, <1>5, <1>6 DEF SweepFacts

LEMMA ReadFacts ==
  ASSUME JanitorInv, Reads
  PROVE  SweepFacts'
<1>1. CASE StartSweep
  <2>1. /\ sweep \in {"off", "killed"} /\ sweep' = "list"
        /\ UNCHANGED <<snap, cache, todo, item>>
        /\ snap = [v \in Vms |-> Unread] /\ cache = Unloaded /\ todo = {} /\ item = NoItem
    BY <1>1 DEF StartSweep, JanitorInv, SweepFacts, Phasing
  <2>2. \A v \in Vms : (SeenVm(v) /\ SeenRow(v) /\ SeenAge(v))'
    BY <2>1 DEF Unread, SeenVm, SeenRow, SeenAge, Rowed
  <2> QED
    BY <2>1, <2>2 DEF SweepFacts, Phasing
<1>2. CASE EndSweep
  BY <1>2, EndedFacts DEF EndSweep
<1> QED
  BY <1>1, <1>2, ListVmsFacts, ScanTableFacts, MapVmsFacts, TakeItemFacts DEF Reads

-----------------------------------------------------------------------------
(* One item.                                                               *)

\* Where an item goes after a fresh read that shows r.
LEMMA FreshReadGoesOn ==
  ASSUME NEW v \in Vms, item \in Items, NEW r, OnFreshRead(v, r)
  PROVE  \/ item' = NoItem
         \/ item'.vm = item.vm /\ item'.step = "write"
         \/ /\ item'.vm = item.vm /\ item'.step = "deregister"
            /\ item'.rule = item.rule /\ item.rule = "idle"
         \/ /\ item'.vm = item.vm /\ item'.step \in {"kill", "deregister"}
            /\ r = "absent" /\ snap[v].suspect = "old"
  BY DEF OnFreshRead, ThenWrite, Then, Done, Items

LEMMA ReconcileItem ==
  ASSUME JanitorInv, NEW v \in Vms, Lasts(v), ReconcileStep(v),
         item # NoItem, item.vm = v, item \in Items, ItemFacts(v)
  PROVE  item' = NoItem \/ (item'.vm = v /\ ItemFacts(v)')
<1>0. WorldTypes /\ SweepTypes /\ Facts(v) /\ SeenRow(v)
  BY DEF JanitorInv, WorldFacts, SweepFacts
<1>1. CASE LifetimeKill(v) \/ OrphanKill(v) \/ RunnerKill(v)
  <2>1. item' = NoItem
        \/ (/\ vm' = [vm EXCEPT ![v].state = "terminated"] /\ item'.vm = v
            /\ item'.step \in {"unmap", "unstrike"})
    BY <1>1 DEF LifetimeKill, OrphanKill, RunnerKill, Kill, ItemFails, Done, Then, Items
  <2>2. vm' = [vm EXCEPT ![v].state = "terminated"] => vm'[v].state = "terminated"
    BY <1>0 DEF WorldTypes, VmRecords
  <2> QED
    BY <2>1, <2>2 DEF ItemFacts, Dead
<1>2. CASE Unmap(v) \/ Unstrike(v) \/ PutOrphanRow(v)
  BY <1>2 DEF Unmap, Unstrike, PutOrphanRow, ItemFails, Done
<1>3. CASE RereadTable(v)
  <2>1. /\ item.step = "reread" /\ UNCHANGED <<vm, job, runner, listed>>
        /\ \/ item' = NoItem
           \/ item'.vm = v /\ item'.step = "unstrike"
           \/ item'.vm = v /\ item'.step = "orphanKill" /\ row[v].is # "mapping"
    BY <1>3 DEF RereadTable, At, ItemFails, Done, Then, worldVars, Items
  <2>2. row[v].is # "mapping" => Over(v)
    BY <1>0 DEF Facts, RowFacts
  <2> QED
    BY <2>1, <2>2, Unmoved DEF ItemFacts
<1>4. CASE LoadRunners(v)
  <2>1. item' = item \/ item' = NoItem
    BY <1>4 DEF LoadRunners, ItemFails, Done
  <2> QED
    BY <2>1, ItemLasts
<1>5. CASE JudgeRunner(v)
  <2>1. /\ item.step = "judge" /\ UNCHANGED <<vm, job, runner, listed>>
        /\ item' = NoItem \/ (item'.vm = v /\ item'.step \in {"write", "byId", "relist"})
    BY <1>5 DEF JudgeRunner, At, ThenWrite, ThenReadAfresh, Done, worldVars, Items
  <2> QED
    BY <2>1, Unmoved DEF ItemFacts
<1>6. CASE GetRunner(v)
  <2>1. item.step = "byId" /\ UNCHANGED <<vm, job, runner, listed>>
    BY <1>6 DEF GetRunner, At, worldVars
  <2>2. CASE OnFreshRead(v, runner[v]) /\ runner[v] # "absent"
    BY <2>1, <2>2, FreshReadGoesOn, Unmoved DEF ItemFacts
  <2>3. CASE item' = NoItem \/ (item'.vm = v /\ item'.step = "relist")
    BY <2>1, <2>3, Unmoved DEF ItemFacts
  <2> QED
    BY <1>6, <2>2, <2>3 DEF GetRunner, ItemFails, Done, Then, Items
<1>7. CASE RelistRunners(v)
  <2>1. item.step = "relist" /\ UNCHANGED <<vm, job, runner, listed>>
    BY <1>7 DEF RelistRunners, At, worldVars
  <2>2. CASE OnFreshRead(v, listed[v])
    <3>1. listed[v] = "absent" /\ snap[v].suspect = "old" => Finished(v)
      BY <1>0 DEF SeenRow, Settled, Finished
    <3> QED
      BY <2>1, <2>2, <3>1, FreshReadGoesOn, Unmoved DEF ItemFacts
  <2>3. CASE item' = NoItem
    BY <2>3
  <2> QED
    BY <1>7, <2>2, <2>3 DEF RelistRunners, ItemFails, Done
<1>8. CASE WriteRow(v)
  <2>1. /\ item.step = "write" /\ UNCHANGED <<vm, job, runner, listed>>
        /\ item' = NoItem \/ (item'.vm = v /\ item'.step = "write")
    BY <1>8 DEF WriteRow, At, ItemFails, Done, worldVars, Items
  <2> QED
    BY <2>1, Unmoved DEF ItemFacts
<1>9. CASE Deregister(v)
  <2>1. /\ item.step = "deregister" /\ vm' = vm /\ job' = job
        /\ \/ item' = NoItem
           \/ item'.vm = v /\ item'.step = "kill" /\ (runner'[v] = "absent" \/ item.rule # "idle")
    BY <1>0, <1>9 DEF Deregister, At, ItemFails, Done, Then, Items, WorldTypes
  <2>2. Committed(v) /\ (item.rule = "idle" \/ Finished(v))
    BY <2>1 DEF ItemFacts
  <2>3. item'.step = "kill" => item' = NoItem \/ Finished(v)'
    BY <2>1, <2>2 DEF Finished, Committed, Lasts
  <2> QED
    BY <2>1, <2>3 DEF ItemFacts
<1> QED
  BY <1>1, <1>2, <1>3, <1>4, <1>5, <1>6, <1>7, <1>8, <1>9 DEF ReconcileStep

LEMMA ReconcileSweepFacts ==
  ASSUME JanitorInv, NEW u \in Vms, ReconcileStep(u), \A v \in Vms : Lasts(v)
  PROVE  SweepFacts'
<1>1. item # NoItem /\ item.vm = u /\ item \in Items
  BY AtItem DEF JanitorInv, ReconcileStep, LifetimeKill, Unmap, Unstrike, PutOrphanRow, RereadTable,
     OrphanKill, LoadRunners, JudgeRunner, GetRunner, RelistRunners, WriteRow, Deregister, RunnerKill, Steps
<1>2. sweep = "items" /\ UNCHANGED <<sweep, snap, todo>>
      /\ (cache' = cache \/ (cache' = listed /\ runner' = runner /\ listed' = listed))
  BY <1>1 DEF JanitorInv, SweepFacts, Phasing, ReconcileStep, LifetimeKill, Unmap, Unstrike, PutOrphanRow,
     RereadTable, OrphanKill, Kill, LoadRunners, JudgeRunner, GetRunner, RelistRunners, WriteRow, Deregister,
     RunnerKill, worldVars
<1>3. \A v \in Vms : SeenVm(v)' /\ SeenRow(v)' /\ SeenAge(v)'
  BY <1>2, SeenLasts DEF JanitorInv, SweepFacts
<1>4. (item # NoItem => ItemFacts(item.vm))'
  BY <1>1, ReconcileItem DEF JanitorInv, SweepFacts
<1> QED
  BY <1>2, <1>3, <1>4 DEF JanitorInv, SweepFacts, Phasing

-----------------------------------------------------------------------------
(* The invariant is one.                                                   *)

LEMMA InitInv == Init => JanitorInv
<1> SUFFICES ASSUME Init PROVE JanitorInv
  OBVIOUS
<1>1. WorldFacts
  BY Times0 DEF Init, WorldFacts, Facts, Launches, VmAges, RowFacts, ClaimFacts, OrphanFacts, Over, Settled,
     Dead, Committed, Claimed, Launching, Served, Gone, NoRow
<1>2. SweepFacts
  BY DEF Init, SweepFacts, Phasing, Unread, SeenVm, SeenRow, SeenAge, Rowed
<1> QED
  BY <1>1, <1>2, InitTypes DEF JanitorInv

LEMMA Steady ==
  ASSUME JanitorInv, [Next]_vars
  PROVE  JanitorInv'
<1>1. WorldTypes' /\ SweepTypes'
  BY TypesStep DEF JanitorInv
<1>2. WorldFacts' /\ \A v \in Vms : Lasts(v)
  BY FactsStep
<1>3. SweepFacts'
  <2>1. CASE Reads
    BY <2>1, ReadFacts
  <2>2. CASE \E v \in Vms : ReconcileStep(v)
    BY <1>2, <2>2, ReconcileSweepFacts
  <2>3. CASE UNCHANGED vars \/ Tick \/ \E v \in Vms : WorldStep(v)
    <3>1. UNCHANGED sweepVars /\ \A v \in Vms : orphan[v] = None => orphan'[v] = None
      <4>1. CASE UNCHANGED vars
        BY <4>1 DEF vars, tableVars
      <4>2. CASE Tick
        BY <4>2 DEF Tick, Older
      <4>3. CASE \E v \in Vms : WorldStep(v)
        BY <4>3 DEF WorldStep, LaunchCold, ClaimWarm, Resume, Arm, Commit, LaunchFails, TerminateOnWebhook,
           UnmapOnWebhook, LaunchPooled, SuspendPooled, Boot, RotateImage, AssignJob, RunnerFinishes,
           RunnerDropped, RotateId, ListCatchesUp, ExpireRow, ExpireWarmClaim, tableVars
      <4> QED
        BY <2>3, <4>1, <4>2, <4>3
    <3> QED
      BY <1>2, <3>1, SweepWaits
  <2> QED
    BY <2>1, <2>2, <2>3 DEF Next, SweepStep, Reads
<1> QED
  BY <1>1, <1>2, <1>3 DEF JanitorInv

THEOREM JanitorInvariant == Spec => []JanitorInv
<1> QED
  BY InitInv, Steady, PTL DEF Spec

-----------------------------------------------------------------------------
(* The theorems.                                                           *)

\* Every variable keeps the shape the code gives it.
THEOREM TypeCorrect == Spec => []TypeOK
<1>1. JanitorInv => TypeOK
  BY DEF JanitorInv, WorldTypes, SweepTypes, TypeOK, VmRecords, JobRecords, RowRecords, Phases, Kinds, Items
<1> QED
  BY <1>1, JanitorInvariant, PTL

\* updateExistingRow: no strike and no runner id brings a deleted row back.
THEOREM NoRowComesBack == Spec => []NoZombieRow
<1>1. JanitorInv => NoZombieRow
  BY DEF JanitorInv, WorldFacts, Facts, RowFacts, NoZombieRow
<1> QED
  BY <1>1, JanitorInvariant, PTL

(***************************************************************************)
(* Rules 1 to 3 never take the VM of a busy runner: when the kill is       *)
(* reached its runner is gone for good, deregistered by the step before or *)
(* absent from two lists of which the second is newer than its launch.     *)
(***************************************************************************)
THEOREM BusyRunnersLive == Spec => BusyRunnerSpared
<1>1. JanitorInv => \A v \in Vms : At(v, "kill") => runner[v] # "busy"
  <2> SUFFICES ASSUME JanitorInv, NEW v \in Vms, At(v, "kill") PROVE runner[v] # "busy"
    OBVIOUS
  <2>1. item # NoItem /\ item.vm = v /\ item.step = "kill"
    BY DEF At, NoItem
  <2> QED
    BY <2>1 DEF JanitorInv, SweepFacts, ItemFacts, Finished
<1>2. (\A v \in Vms : At(v, "kill") => runner[v] # "busy")
        => [\A v \in Vms : Reaps(v, "kill") => runner[v] # "busy"]_vars
  BY DEF Reaps
<1> QED
  BY <1>1, <1>2, JanitorInvariant, PTL DEF BusyRunnerSpared

(***************************************************************************)
(* The lifetime backstop never takes the VM of a job younger than MaxJob,  *)
(* whatever the VM's own age, and although claims and rows expire.         *)
(***************************************************************************)
THEOREM YoungJobsLive == Spec => LifetimeSparesYoungJobs
<1> DEFINE Old == \A v \in Vms : At(v, "lifetimeKill") => NeverYoung(v)
<1>1. JanitorInv => Old
  <2> SUFFICES ASSUME JanitorInv, NEW v \in Vms, At(v, "lifetimeKill") PROVE NeverYoung(v)
    OBVIOUS
  <2>1. item # NoItem /\ item.vm = v /\ item.step = "lifetimeKill"
    BY DEF At, NoItem
  <2> QED
    BY <2>1 DEF JanitorInv, SweepFacts, ItemFacts
<1>2. Old => [\A v \in Vms : Reaps(v, "lifetimeKill") /\ Served(v) => job[v].age > MaxJob]_vars
  BY DEF Reaps, NeverYoung, OldJob, Unclaimable, Gone
<1> QED
  BY <1>1, <1>2, JanitorInvariant, PTL DEF LifetimeSparesYoungJobs

(***************************************************************************)
(* Rule 6 never takes a cold VM while its launch is under way or its row   *)
(* may still be there, whatever the schedule's jitter.  That no row runs   *)
(* out is the hypothesis: with RowTtl above every age, an absent row was   *)
(* deleted with its VM.                                                    *)
(***************************************************************************)
THEOREM ColdLaunchesLive == RowTtl > MaxAge => (Spec => ColdLaunchSpared)
<1> SUFFICES ASSUME RowTtl > MaxAge PROVE Spec => ColdLaunchSpared
  OBVIOUS
<1> DEFINE Lost == \A v \in Vms \ Pool : At(v, "orphanKill") => ~Served(v) \/ Dead(v)
<1>1. JanitorInv => Lost
  <2> SUFFICES ASSUME JanitorInv, NEW v \in Vms \ Pool, At(v, "orphanKill") PROVE ~Served(v) \/ Dead(v)
    OBVIOUS
  <2>1. item # NoItem /\ item.vm = v /\ item.step = "orphanKill"
    BY DEF At, NoItem
  <2>2. Landed(v) /\ Over(v)
    BY <2>1 DEF JanitorInv, SweepFacts, ItemFacts
  <2>3. job[v].age \in 0..MaxAge /\ RowTtl \in Nat /\ MaxAge \in Nat
    BY Fields, Times0 DEF JanitorInv
  <2> QED
    BY <2>2, <2>3 DEF Landed, Over, Committed, Launching, Served
<1>2. Lost => [\A v \in Vms \ Pool : Reaps(v, "orphanKill") => ~Served(v)]_vars
  BY DEF Reaps, Dead
<1> QED
  BY <1>1, <1>2, JanitorInvariant, PTL DEF ColdLaunchSpared

(***************************************************************************)
(* Without the hypothesis: rule 6 never takes a cold VM whose launch is    *)
(* still under way, the reason janitorInterval exceeds the launcher's      *)
(* timeout by the slack and a sweep's time.                                *)
(***************************************************************************)
THEOREM ColdLaunchesFinish ==
  Spec => [][\A v \in Vms \ Pool : Reaps(v, "orphanKill") => ~Launching(v)]_vars
<1> DEFINE NoneLaunching == \A v \in Vms \ Pool : At(v, "orphanKill") => ~Launching(v)
<1>1. JanitorInv => NoneLaunching
  <2> SUFFICES ASSUME JanitorInv, NEW v \in Vms \ Pool, At(v, "orphanKill") PROVE ~Launching(v)
    OBVIOUS
  <2>1. item # NoItem /\ item.vm = v /\ item.step = "orphanKill"
    BY DEF At, NoItem
  <2> QED
    BY <2>1 DEF JanitorInv, SweepFacts, ItemFacts, Landed
<1>2. NoneLaunching => [\A v \in Vms \ Pool : Reaps(v, "orphanKill") => ~Launching(v)]_vars
  BY DEF Reaps
<1> QED
  BY <1>1, <1>2, JanitorInvariant, PTL

-----------------------------------------------------------------------------
(* The invariant of time: while no call fails, each sweep leaves nothing   *)
(* for later.                                                              *)

Ran(v) == vm[v].state \in {"running", "terminated"}

\* What v has been through: it runs before it is armed, and is armed before it has a job.
Past(v) ==
  /\ job[v].phase \in {"none", "filling", "pooled"} => job[v].config = "none"
  /\ runner[v] = "busy" \/ Committed(v) => job[v].config # "none"
  /\ job[v].config # "none" => Ran(v)
  /\ v \notin Pool => vm[v].state # "suspended"
  /\ v \notin Pool /\ orphan[v] # None => Ran(v)

SeenRan(v) ==
  /\ v \notin Pool /\ snap[v].state = "running" => Ran(v)
  /\ v \notin Pool /\ At(v, "strike") => Ran(v)

\* The ages a sweep reads are no younger than the job, but for the launch before the commit.
Counts(v) ==
  /\ Served(v) /\ ~Gone(v) => job[v].age <= vm[v].age
  /\ row[v].is = "mapping" => job[v].age <= row[v].age + LaunchTime
  /\ Served(v) /\ warmClaim[v] # None => job[v].age <= warmClaim[v]

OnTime == faults = 0 => sweep # "killed" /\ (sweep # "off" => clock = due)

Late == LaunchTime + LifetimeCap

\* The time since a sweep last started.
SweepAge == IF sweep = "off" THEN due ELSE clock

\* A VM that serves a job and that the next sweep reads, listed or by its row.
Watched(v) == vm[v].state = "running" /\ Served(v) /\ (vm[v].current \/ row[v].is = "mapping")

Unseen(v) == snap[v].state = "unlisted"
Caught(v) == snap[v].state = "running" /\ snap[v].aged

\* The sweep under way is on its way to the lifetime kill of v.
Doomed(v) ==
  \/ sweep = "list"
  \/ sweep = "scan" /\ (Caught(v) \/ (Unseen(v) /\ ~vm[v].current))
  \/ sweep = "map" /\ snap[v].served /\ (Caught(v) \/ (Unseen(v) /\ snap[v].mapped))
  \/ /\ sweep = "items" /\ snap[v].served /\ Caught(v)
     /\ At(v, "lifetimeKill") \/ \E k \in {"row", "orphan", "bare"} : <<v, k>> \in todo

Backstopped(v) ==
  faults = 0 /\ Watched(v)
  => \/ job[v].age <= Late + SweepAge
     \/ job[v].age <= Late + Interval + Jitter + clock /\ Doomed(v)

\* The sweep under way is on its way to settle the strike of v.
Pending(v) ==
  \/ sweep = "list"
  \/ sweep = "scan" /\ snap[v].state \in {"running", "unlisted"}
  \/ sweep = "map" /\ snap[v].orphan = "old" /\ snap[v].state \in {"running", "unlisted"}
  \/ /\ sweep = "items" /\ snap[v].orphan = "old" /\ snap[v].state = "running"
     /\ \/ <<v, "orphan">> \in todo
        \/ /\ item.vm = v /\ item.kind = "orphan"
           /\ item.step \in {"lifetimeKill", "unstrike", "reread", "orphanKill"}

\* It was made in the sweep before this one.
OldStrike(v) ==
  /\ Interval - Jitter + clock <= orphan[v]
  /\ orphan[v] <= Interval + Jitter + clock

Struck(v) == v \notin Pool /\ vm[v].state = "running" /\ orphan[v] # None

StrikeKept(v) ==
  faults = 0 /\ Struck(v) /\ MaxAge > Interval + Jitter + SweepTime
  => orphan[v] = due \/ (OldStrike(v) /\ Pending(v))

Histories(v) == Past(v) /\ SeenRan(v) /\ Counts(v)
Timed(v) == Backstopped(v) /\ StrikeKept(v)
TimeInv == OnTime /\ \A v \in Vms : Histories(v) /\ Timed(v)

\* What a step may do to v while the sweep waits: v comes under the sweep's watch only young.
Calm(v) ==
  /\ Watched(v)' => job'[v].age <= LaunchTime \/ (Watched(v) /\ job'[v].age = job[v].age)
  /\ Struck(v)' => Struck(v) /\ orphan'[v] = orphan[v]
  /\ v \notin Pool /\ Ran(v) => Ran(v)'

LEMMA WorldStepMoves ==
  ASSUME WorldTypes, NEW v \in Vms, Facts(v), Past(v), Counts(v), WorldStep(v)
  PROVE  Past(v)' /\ Counts(v)' /\ Calm(v)
<1> USE Fields, Times0
<1>1. CASE LaunchCold(v)
  <2>1. Past(v)'
    BY <1>1 DEF LaunchCold, WorldTypes, VmRecords, JobRecords, RowRecords, worldVars, tableVars, Facts, Launches, RowFacts, OrphanFacts, Past, Ran, Committed, Launching, Gone
  <2>2. Counts(v)'
    BY <1>1 DEF LaunchCold, WorldTypes, VmRecords, JobRecords, RowRecords, worldVars, tableVars, Facts, Launches, RowFacts, ClaimFacts, Past, Ran, Counts, Committed, Claimed, Launching, Served, Gone, NoRow
  <2>3. Calm(v)
    BY <1>1 DEF LaunchCold, WorldTypes, VmRecords, JobRecords, RowRecords, worldVars, tableVars, Facts, Launches, Calm, Watched, Struck, Past, Ran, Committed, Launching, Served
  <2> QED
    BY <2>1, <2>2, <2>3
<1>2. CASE ClaimWarm(v)
  <2>1. Past(v)'
    BY <1>2 DEF ClaimWarm, WorldTypes, VmRecords, JobRecords, RowRecords, worldVars, tableVars, Facts, Launches, RowFacts, OrphanFacts, Past, Ran, Committed, Launching, Gone
  <2>2. Counts(v)'
    BY <1>2 DEF ClaimWarm, WorldTypes, VmRecords, JobRecords, RowRecords, worldVars, tableVars, Facts, Launches, RowFacts, ClaimFacts, Past, Ran, Counts, Committed, Claimed, Launching, Served, Gone, NoRow
  <2>3. Calm(v)
    BY <1>2 DEF ClaimWarm, WorldTypes, VmRecords, JobRecords, RowRecords, worldVars, tableVars, Facts, Launches, Calm, Watched, Struck, Past, Ran, Committed, Launching, Served
  <2> QED
    BY <2>1, <2>2, <2>3
<1>3. CASE Resume(v)
  <2>1. Past(v)'
    BY <1>3 DEF Resume, WorldTypes, VmRecords, JobRecords, RowRecords, worldVars, tableVars, Facts, Launches, RowFacts, OrphanFacts, Past, Ran, Committed, Launching, Gone
  <2>2. Counts(v)'
    BY <1>3 DEF Resume, WorldTypes, VmRecords, JobRecords, RowRecords, worldVars, tableVars, Facts, Launches, RowFacts, ClaimFacts, Past, Ran, Counts, Committed, Claimed, Launching, Served, Gone, NoRow
  <2>3. Calm(v)
    BY <1>3 DEF Resume, WorldTypes, VmRecords, JobRecords, RowRecords, worldVars, tableVars, Facts, Launches, Calm, Watched, Struck, Past, Ran, Committed, Launching, Served
  <2> QED
    BY <2>1, <2>2, <2>3
<1>4. CASE Arm(v)
  <2>1. Past(v)'
    BY <1>4 DEF Arm, WorldTypes, VmRecords, JobRecords, RowRecords, worldVars, tableVars, Facts, Launches, RowFacts, OrphanFacts, Past, Ran, Committed, Launching, Gone
  <2>2. Counts(v)'
    BY <1>4 DEF Arm, WorldTypes, VmRecords, JobRecords, RowRecords, worldVars, tableVars, Facts, Launches, RowFacts, ClaimFacts, Past, Ran, Counts, Committed, Claimed, Launching, Served, Gone, NoRow
  <2>3. Calm(v)
    BY <1>4 DEF Arm, WorldTypes, VmRecords, JobRecords, RowRecords, worldVars, tableVars, Facts, Launches, Calm, Watched, Struck, Past, Ran, Committed, Launching, Served
  <2> QED
    BY <2>1, <2>2, <2>3
<1>5. CASE Commit(v)
  <2>1. Past(v)'
    BY <1>5 DEF Commit, WorldTypes, VmRecords, JobRecords, RowRecords, worldVars, tableVars, Facts, Launches, RowFacts, OrphanFacts, Past, Ran, Committed, Launching, Gone
  <2>2. Counts(v)'
    BY <1>5 DEF Commit, WorldTypes, VmRecords, JobRecords, RowRecords, worldVars, tableVars, Facts, Launches, RowFacts, ClaimFacts, Past, Ran, Counts, Committed, Claimed, Launching, Served, Gone, NoRow
  <2>3. Calm(v)
    BY <1>5 DEF Commit, WorldTypes, VmRecords, JobRecords, RowRecords, worldVars, tableVars, Facts, Launches, Calm, Watched, Struck, Past, Ran, Committed, Launching, Served
  <2> QED
    BY <2>1, <2>2, <2>3
<1>6. CASE LaunchFails(v)
  <2>1. Past(v)'
    BY <1>6 DEF LaunchFails, WorldTypes, VmRecords, JobRecords, RowRecords, worldVars, tableVars, Facts, Launches, RowFacts, OrphanFacts, Past, Ran, Committed, Launching, Gone
  <2>2. Counts(v)'
    BY <1>6 DEF LaunchFails, WorldTypes, VmRecords, JobRecords, RowRecords, worldVars, tableVars, Facts, Launches, RowFacts, ClaimFacts, Past, Ran, Counts, Committed, Claimed, Launching, Served, Gone, NoRow
  <2>3. Calm(v)
    BY <1>6 DEF LaunchFails, WorldTypes, VmRecords, JobRecords, RowRecords, worldVars, tableVars, Facts, Launches, Calm, Watched, Struck, Past, Ran, Committed, Launching, Served
  <2> QED
    BY <2>1, <2>2, <2>3
<1>7. CASE TerminateOnWebhook(v)
  <2>1. Past(v)'
    BY <1>7 DEF TerminateOnWebhook, WorldTypes, VmRecords, JobRecords, RowRecords, worldVars, tableVars, Facts, Launches, RowFacts, OrphanFacts, Past, Ran, Committed, Launching, Gone
  <2>2. Counts(v)'
    BY <1>7 DEF TerminateOnWebhook, WorldTypes, VmRecords, JobRecords, RowRecords, worldVars, tableVars, Facts, Launches, RowFacts, ClaimFacts, Past, Ran, Counts, Committed, Claimed, Launching, Served, Gone, NoRow
  <2>3. Calm(v)
    BY <1>7 DEF TerminateOnWebhook, WorldTypes, VmRecords, JobRecords, RowRecords, worldVars, tableVars, Facts, Launches, Calm, Watched, Struck, Past, Ran, Committed, Launching, Served
  <2> QED
    BY <2>1, <2>2, <2>3
<1>8. CASE UnmapOnWebhook(v)
  <2>1. Past(v)'
    BY <1>8 DEF UnmapOnWebhook, WorldTypes, VmRecords, JobRecords, RowRecords, worldVars, tableVars, Facts, Launches, RowFacts, OrphanFacts, Past, Ran, Committed, Launching, Gone
  <2>2. Counts(v)'
    BY <1>8 DEF UnmapOnWebhook, WorldTypes, VmRecords, JobRecords, RowRecords, worldVars, tableVars, Facts, Launches, RowFacts, ClaimFacts, Past, Ran, Counts, Committed, Claimed, Launching, Served, Gone, NoRow
  <2>3. Calm(v)
    BY <1>8 DEF UnmapOnWebhook, WorldTypes, VmRecords, JobRecords, RowRecords, worldVars, tableVars, Facts, Launches, Calm, Watched, Struck, Past, Ran, Committed, Launching, Served
  <2> QED
    BY <2>1, <2>2, <2>3
<1>9. CASE LaunchPooled(v)
  <2>1. Past(v)'
    BY <1>9 DEF LaunchPooled, WorldTypes, VmRecords, JobRecords, RowRecords, worldVars, tableVars, Facts, Launches, RowFacts, OrphanFacts, Past, Ran, Committed, Launching, Gone
  <2>2. Counts(v)'
    BY <1>9 DEF LaunchPooled, WorldTypes, VmRecords, JobRecords, RowRecords, worldVars, tableVars, Facts, Launches, RowFacts, ClaimFacts, Past, Ran, Counts, Committed, Claimed, Launching, Served, Gone, NoRow
  <2>3. Calm(v)
    BY <1>9 DEF LaunchPooled, WorldTypes, VmRecords, JobRecords, RowRecords, worldVars, tableVars, Facts, Launches, Calm, Watched, Struck, Past, Ran, Committed, Launching, Served
  <2> QED
    BY <2>1, <2>2, <2>3
<1>10. CASE SuspendPooled(v)
  <2>1. Past(v)'
    BY <1>10 DEF SuspendPooled, WorldTypes, VmRecords, JobRecords, RowRecords, worldVars, tableVars, Facts, Launches, RowFacts, OrphanFacts, Past, Ran, Committed, Launching, Gone
  <2>2. Counts(v)'
    BY <1>10 DEF SuspendPooled, WorldTypes, VmRecords, JobRecords, RowRecords, worldVars, tableVars, Facts, Launches, RowFacts, ClaimFacts, Past, Ran, Counts, Committed, Claimed, Launching, Served, Gone, NoRow
  <2>3. Calm(v)
    BY <1>10 DEF SuspendPooled, WorldTypes, VmRecords, JobRecords, RowRecords, worldVars, tableVars, Facts, Launches, Calm, Watched, Struck, Past, Ran, Committed, Launching, Served
  <2> QED
    BY <2>1, <2>2, <2>3
<1>11. CASE Boot(v)
  <2>1. Past(v)'
    BY <1>11 DEF Boot, WorldTypes, VmRecords, JobRecords, RowRecords, worldVars, tableVars, Facts, Launches, RowFacts, OrphanFacts, Past, Ran, Committed, Launching, Gone
  <2>2. Counts(v)'
    BY <1>11 DEF Boot, WorldTypes, VmRecords, JobRecords, RowRecords, worldVars, tableVars, Facts, Launches, RowFacts, ClaimFacts, Past, Ran, Counts, Committed, Claimed, Launching, Served, Gone, NoRow
  <2>3. Calm(v)
    BY <1>11 DEF Boot, WorldTypes, VmRecords, JobRecords, RowRecords, worldVars, tableVars, Facts, Launches, Calm, Watched, Struck, Past, Ran, Committed, Launching, Served
  <2> QED
    BY <2>1, <2>2, <2>3
<1>12. CASE RotateImage(v)
  <2>1. Past(v)'
    BY <1>12 DEF RotateImage, WorldTypes, VmRecords, JobRecords, RowRecords, worldVars, tableVars, Facts, Launches, RowFacts, OrphanFacts, Past, Ran, Committed, Launching, Gone
  <2>2. Counts(v)'
    BY <1>12 DEF RotateImage, WorldTypes, VmRecords, JobRecords, RowRecords, worldVars, tableVars, Facts, Launches, RowFacts, ClaimFacts, Past, Ran, Counts, Committed, Claimed, Launching, Served, Gone, NoRow
  <2>3. Calm(v)
    BY <1>12 DEF RotateImage, WorldTypes, VmRecords, JobRecords, RowRecords, worldVars, tableVars, Facts, Launches, Calm, Watched, Struck, Past, Ran, Committed, Launching, Served
  <2> QED
    BY <2>1, <2>2, <2>3
<1>13. CASE AssignJob(v)
  <2>1. Past(v)'
    BY <1>13 DEF AssignJob, WorldTypes, VmRecords, JobRecords, RowRecords, worldVars, tableVars, Facts, Launches, RowFacts, OrphanFacts, Past, Ran, Committed, Launching, Gone
  <2>2. Counts(v)'
    BY <1>13 DEF AssignJob, WorldTypes, VmRecords, JobRecords, RowRecords, worldVars, tableVars, Facts, Launches, RowFacts, ClaimFacts, Past, Ran, Counts, Committed, Claimed, Launching, Served, Gone, NoRow
  <2>3. Calm(v)
    BY <1>13 DEF AssignJob, WorldTypes, VmRecords, JobRecords, RowRecords, worldVars, tableVars, Facts, Launches, Calm, Watched, Struck, Past, Ran, Committed, Launching, Served
  <2> QED
    BY <2>1, <2>2, <2>3
<1>14. CASE RunnerFinishes(v)
  <2>1. Past(v)'
    BY <1>14 DEF RunnerFinishes, WorldTypes, VmRecords, JobRecords, RowRecords, worldVars, tableVars, Facts, Launches, RowFacts, OrphanFacts, Past, Ran, Committed, Launching, Gone
  <2>2. Counts(v)'
    BY <1>14 DEF RunnerFinishes, WorldTypes, VmRecords, JobRecords, RowRecords, worldVars, tableVars, Facts, Launches, RowFacts, ClaimFacts, Past, Ran, Counts, Committed, Claimed, Launching, Served, Gone, NoRow
  <2>3. Calm(v)
    BY <1>14 DEF RunnerFinishes, WorldTypes, VmRecords, JobRecords, RowRecords, worldVars, tableVars, Facts, Launches, Calm, Watched, Struck, Past, Ran, Committed, Launching, Served
  <2> QED
    BY <2>1, <2>2, <2>3
<1>15. CASE RunnerDropped(v)
  <2>1. Past(v)'
    BY <1>15 DEF RunnerDropped, WorldTypes, VmRecords, JobRecords, RowRecords, worldVars, tableVars, Facts, Launches, RowFacts, OrphanFacts, Past, Ran, Committed, Launching, Gone
  <2>2. Counts(v)'
    BY <1>15 DEF RunnerDropped, WorldTypes, VmRecords, JobRecords, RowRecords, worldVars, tableVars, Facts, Launches, RowFacts, ClaimFacts, Past, Ran, Counts, Committed, Claimed, Launching, Served, Gone, NoRow
  <2>3. Calm(v)
    BY <1>15 DEF RunnerDropped, WorldTypes, VmRecords, JobRecords, RowRecords, worldVars, tableVars, Facts, Launches, Calm, Watched, Struck, Past, Ran, Committed, Launching, Served
  <2> QED
    BY <2>1, <2>2, <2>3
<1>16. CASE RotateId(v)
  <2>1. Past(v)'
    BY <1>16 DEF RotateId, WorldTypes, VmRecords, JobRecords, RowRecords, worldVars, tableVars, Facts, Launches, RowFacts, OrphanFacts, Past, Ran, Committed, Launching, Gone
  <2>2. Counts(v)'
    BY <1>16 DEF RotateId, WorldTypes, VmRecords, JobRecords, RowRecords, worldVars, tableVars, Facts, Launches, RowFacts, ClaimFacts, Past, Ran, Counts, Committed, Claimed, Launching, Served, Gone, NoRow
  <2>3. Calm(v)
    BY <1>16 DEF RotateId, WorldTypes, VmRecords, JobRecords, RowRecords, worldVars, tableVars, Facts, Launches, Calm, Watched, Struck, Past, Ran, Committed, Launching, Served
  <2> QED
    BY <2>1, <2>2, <2>3
<1>17. CASE ListCatchesUp(v)
  <2>1. Past(v)'
    BY <1>17 DEF ListCatchesUp, WorldTypes, VmRecords, JobRecords, RowRecords, worldVars, tableVars, Facts, Launches, RowFacts, OrphanFacts, Past, Ran, Committed, Launching, Gone
  <2>2. Counts(v)'
    BY <1>17 DEF ListCatchesUp, WorldTypes, VmRecords, JobRecords, RowRecords, worldVars, tableVars, Facts, Launches, RowFacts, ClaimFacts, Past, Ran, Counts, Committed, Claimed, Launching, Served, Gone, NoRow
  <2>3. Calm(v)
    BY <1>17 DEF ListCatchesUp, WorldTypes, VmRecords, JobRecords, RowRecords, worldVars, tableVars, Facts, Launches, Calm, Watched, Struck, Past, Ran, Committed, Launching, Served
  <2> QED
    BY <2>1, <2>2, <2>3
<1>18. CASE ExpireRow(v)
  <2>1. Past(v)'
    BY <1>18 DEF ExpireRow, WorldTypes, VmRecords, JobRecords, RowRecords, worldVars, tableVars, Facts, Launches, RowFacts, OrphanFacts, Past, Ran, Committed, Launching, Gone
  <2>2. Counts(v)'
    BY <1>18 DEF ExpireRow, WorldTypes, VmRecords, JobRecords, RowRecords, worldVars, tableVars, Facts, Launches, RowFacts, ClaimFacts, Past, Ran, Counts, Committed, Claimed, Launching, Served, Gone, NoRow
  <2>3. Calm(v)
    BY <1>18 DEF ExpireRow, WorldTypes, VmRecords, JobRecords, RowRecords, worldVars, tableVars, Facts, Launches, Calm, Watched, Struck, Past, Ran, Committed, Launching, Served
  <2> QED
    BY <2>1, <2>2, <2>3
<1>19. CASE ExpireWarmClaim(v)
  <2>1. Past(v)'
    BY <1>19 DEF ExpireWarmClaim, WorldTypes, VmRecords, JobRecords, RowRecords, worldVars, tableVars, Facts, Launches, RowFacts, OrphanFacts, Past, Ran, Committed, Launching, Gone
  <2>2. Counts(v)'
    BY <1>19 DEF ExpireWarmClaim, WorldTypes, VmRecords, JobRecords, RowRecords, worldVars, tableVars, Facts, Launches, RowFacts, ClaimFacts, Past, Ran, Counts, Committed, Claimed, Launching, Served, Gone, NoRow
  <2>3. Calm(v)
    BY <1>19 DEF ExpireWarmClaim, WorldTypes, VmRecords, JobRecords, RowRecords, worldVars, tableVars, Facts, Launches, Calm, Watched, Struck, Past, Ran, Committed, Launching, Served
  <2> QED
    BY <2>1, <2>2, <2>3
<1> QED
  BY <1>1, <1>2, <1>3, <1>4, <1>5, <1>6, <1>7, <1>8, <1>9, <1>10, <1>11, <1>12, <1>13, <1>14, <1>15, <1>16, <1>17, <1>18, <1>19 DEF WorldStep

LEMMA Kept ==
  ASSUME NEW v \in Vms, Past(v), Counts(v),
         vm'[v] = vm[v], job'[v] = job[v], runner'[v] = runner[v], row'[v] = row[v],
         orphan'[v] = orphan[v], warmClaim'[v] = warmClaim[v]
  PROVE  Past(v)' /\ Counts(v)' /\ Calm(v)
<1>1. Past(v)' /\ Counts(v)'
  BY DEF Past, Counts, Ran, Committed, Served, Gone
<1>2. Calm(v)
  BY DEF Calm, Watched, Struck, Ran, Served
<1> QED
  BY <1>1, <1>2

LEMMA TickEffects ==
  ASSUME WorldTypes, NEW v \in Vms, Tick
  PROVE  /\ vm'[v].state = vm[v].state /\ vm'[v].current = vm[v].current
         /\ vm'[v].age = (IF Gone(v) THEN 0 ELSE Older(vm[v].age))
         /\ job'[v].phase = job[v].phase /\ job'[v].config = job[v].config
         /\ job'[v].age = (IF Idling(v) THEN 0 ELSE Older(job[v].age))
         /\ runner'[v] = runner[v] /\ UNCHANGED sweepVars /\ faults' = faults
         /\ orphan'[v] = Older(orphan[v]) /\ warmClaim'[v] = Older(warmClaim[v])
         /\ row'[v].is = row[v].is /\ (row[v].is # "none" => row'[v].age = Older(row[v].age))
         /\ due' = due + 1 /\ due < Interval + Jitter
         /\ clock' = (IF sweep \in {"off", "killed"} THEN 0 ELSE clock + 1)
         /\ sweep \notin {"off", "killed"} => clock < SweepTime
<1>1. /\ vm'[v].state = vm[v].state /\ vm'[v].current = vm[v].current
      /\ vm'[v].age = (IF Gone(v) THEN 0 ELSE Older(vm[v].age))
  BY DEF Tick, WorldTypes, VmRecords
<1>2. /\ job'[v].phase = job[v].phase /\ job'[v].config = job[v].config
      /\ job'[v].age = (IF Idling(v) THEN 0 ELSE Older(job[v].age))
  BY DEF Tick, WorldTypes, JobRecords
<1>3. /\ runner'[v] = runner[v] /\ UNCHANGED sweepVars /\ faults' = faults
      /\ orphan'[v] = Older(orphan[v]) /\ warmClaim'[v] = Older(warmClaim[v])
  BY DEF Tick
<1>4. row'[v].is = row[v].is /\ (row[v].is # "none" => row'[v].age = Older(row[v].age))
  BY DEF Tick, WorldTypes, RowRecords
<1>5. /\ due' = due + 1 /\ due < Interval + Jitter
      /\ clock' = (IF sweep \in {"off", "killed"} THEN 0 ELSE clock + 1)
      /\ sweep \notin {"off", "killed"} => clock < SweepTime
  BY DEF Tick
<1> QED
  BY <1>1, <1>2, <1>3, <1>4, <1>5

LEMMA TickMoves ==
  ASSUME WorldTypes, OnTime, NEW v \in Vms, Facts(v), Past(v), Counts(v), Timed(v), Tick
  PROVE  Past(v)' /\ Counts(v)' /\ Timed(v)'
<1> USE Fields, Times0
<1>1. /\ vm'[v].state = vm[v].state /\ vm'[v].current = vm[v].current
      /\ vm'[v].age = (IF Gone(v) THEN 0 ELSE Older(vm[v].age))
  BY TickEffects
<1>2. /\ job'[v].phase = job[v].phase /\ job'[v].config = job[v].config
      /\ job'[v].age = (IF Idling(v) THEN 0 ELSE Older(job[v].age))
  BY TickEffects
<1>3. /\ runner'[v] = runner[v] /\ UNCHANGED sweepVars /\ faults' = faults
      /\ orphan'[v] = Older(orphan[v]) /\ warmClaim'[v] = Older(warmClaim[v])
  BY TickEffects
<1>4. row'[v].is = row[v].is /\ (row[v].is # "none" => row'[v].age = Older(row[v].age))
  BY TickEffects
<1>5. \A s, t \in 0..MaxAge : s <= t => Older(s) <= Older(t)
  BY DEF Older
<1>6. \A t \in 0..MaxAge : /\ Older(t) \in 0..MaxAge /\ Older(t) <= t + 1 /\ Older(t) # None
                           /\ t < MaxAge => Older(t) = t + 1
  BY DEF Older
<1>7. Older(None) = None
  BY DEF Older
<1>8. /\ due' = due + 1 /\ due < Interval + Jitter
      /\ clock' = (IF sweep \in {"off", "killed"} THEN 0 ELSE clock + 1)
      /\ sweep \notin {"off", "killed"} => clock < SweepTime
  BY TickEffects
<1>9. clock \in Nat /\ due \in Nat
  BY DEF WorldTypes
<1>10. Past(v)'
  BY <1>1, <1>2, <1>3, <1>7 DEF Past, Ran, Committed
<1>11. Counts(v)'
  <2>1. (Served(v) /\ ~Gone(v) => job[v].age <= vm[v].age)'
    BY <1>1, <1>2, <1>5 DEF Counts, Served, Gone, Idling, Launching
  <2>2. (row[v].is = "mapping" => job[v].age <= row[v].age + LaunchTime)'
    <3>1. row[v].is = "mapping" => row[v].age \in 0..MaxAge /\ job[v].age <= row[v].age + LaunchTime
      BY DEF Counts
    <3>2. Older(job[v].age) <= Older(row[v].age) + LaunchTime \/ row[v].is # "mapping"
      BY <3>1, OlderKeepsOrder DEF Ages
    <3>3. row'[v].age \in Nat \/ row[v].is # "mapping"
      BY <1>4, <1>6
    <3> QED
      BY <1>2, <1>4, <3>2, <3>3
  <2>3. (Served(v) /\ warmClaim[v] # None => job[v].age <= warmClaim[v])'
    <3>1. warmClaim[v] = None \/ warmClaim[v] \in 0..MaxAge
      BY DEF Times, Ages
    <3>2. CASE warmClaim[v] = None
      BY <1>3, <1>7, <3>2
    <3>3. CASE warmClaim[v] \in 0..MaxAge /\ Served(v)
      BY <1>2, <1>3, <1>5, <1>6, <3>3 DEF Counts
    <3> QED
      BY <1>2, <3>1, <3>2, <3>3 DEF Served
  <2> QED
    BY <2>1, <2>2, <2>3 DEF Counts
<1>12. Doomed(v)' = Doomed(v) /\ Pending(v)' = Pending(v)
  BY <1>1, <1>3 DEF Doomed, Pending, Caught, Unseen, At, sweepVars
<1>13. faults = 0 => sweep # "killed" /\ SweepAge' = SweepAge + 1 /\ SweepAge \in Nat
                     /\ (sweep # "off" => clock' = clock + 1)
  <2>1. sweep' = sweep
    BY <1>3 DEF sweepVars
  <2> QED
    BY <1>8, <1>9, <2>1 DEF OnTime, SweepAge
<1>14. Backstopped(v)'
  <2>1. SUFFICES ASSUME faults = 0, Watched(v)
        PROVE  \/ job'[v].age <= Late + SweepAge + 1
               \/ job'[v].age <= Late + Interval + Jitter + clock' /\ Doomed(v)
    BY <1>1, <1>2, <1>3, <1>4, <1>12, <1>13 DEF Backstopped, Watched, Served, Late
  <2>2. job'[v].age <= job[v].age + 1 /\ job'[v].age \in Nat /\ Late \in Nat
    BY <1>2, <1>6 DEF Late
  <2>3. CASE job[v].age <= Late + SweepAge
    BY <1>13, <2>1, <2>2, <2>3
  <2>4. CASE job[v].age <= Late + Interval + Jitter + clock /\ Doomed(v)
    <3>1. clock' = clock + 1
      BY <1>13, <2>1, <2>4 DEF Doomed
    <3> QED
      BY <1>9, <2>2, <2>4, <3>1
  <2> QED
    BY <2>1, <2>3, <2>4 DEF Timed, Backstopped
<1>15. StrikeKept(v)'
  <2>1. SUFFICES ASSUME faults = 0, Struck(v), MaxAge > Interval + Jitter + SweepTime
        PROVE  orphan'[v] = due' \/ (OldStrike(v)' /\ Pending(v))
    BY <1>1, <1>3, <1>7, <1>12 DEF StrikeKept, Struck
  <2>2. orphan[v] \in 0..MaxAge
    BY <2>1 DEF Struck, Times, Ages
  <2>3. CASE orphan[v] = due
    <3>1. orphan[v] < MaxAge
      BY <1>8, <1>9, <2>1, <2>3
    <3> QED
      BY <1>3, <1>6, <1>8, <2>2, <2>3, <3>1
  <2>4. CASE OldStrike(v) /\ Pending(v)
    <3>1. clock' = clock + 1 /\ clock < SweepTime
      <4>1. sweep \notin {"off", "killed"}
        BY <1>13, <2>1, <2>4 DEF Pending
      <4> QED
        BY <1>8, <4>1
    <3>2. orphan'[v] = orphan[v] + 1
      BY <1>3, <1>6, <1>9, <2>1, <2>2, <2>4, <3>1 DEF OldStrike
    <3> QED
      BY <1>9, <2>2, <2>4, <3>1, <3>2 DEF OldStrike
  <2> QED
    BY <2>1, <2>3, <2>4 DEF Timed, StrikeKept
<1> QED
  BY <1>10, <1>11, <1>14, <1>15 DEF Timed

\* Neither the schedule nor the sweep's readings move.
LEMMA BackstopLasts ==
  ASSUME WorldTypes, WorldTypes', NEW v \in Vms, Timed(v), faults' = 0 => faults = 0,
         UNCHANGED <<clock, due, sweep>>,
         Watched(v)' => job'[v].age <= LaunchTime \/ (Watched(v) /\ job'[v].age = job[v].age),
         faults' = 0 /\ Watched(v)' /\ Doomed(v) => Doomed(v)'
  PROVE  Backstopped(v)'
<1>1. SUFFICES ASSUME faults' = 0, Watched(v)'
      PROVE  \/ job'[v].age <= Late + SweepAge
             \/ job'[v].age <= Late + Interval + Jitter + clock /\ Doomed(v)'
  BY DEF Backstopped, SweepAge, Late
<1>2. CASE job'[v].age <= LaunchTime
  <2>1. SweepAge \in Nat /\ Late \in Nat /\ LaunchTime <= Late
    BY Times0 DEF SweepAge, Late, WorldTypes
  <2>2. job'[v].age \in Nat
    BY Times0 DEF WorldTypes, JobRecords, Ages
  <2> QED
    BY <1>2, <2>1, <2>2, Times0
<1>3. CASE Watched(v) /\ job'[v].age = job[v].age
  BY <1>1, <1>3 DEF Timed, Backstopped
<1> QED
  BY <1>1, <1>2, <1>3

LEMMA StrikeLasts ==
  ASSUME NEW v \in Vms, Timed(v), faults' = 0 => faults = 0, UNCHANGED <<clock, due>>,
         Struck(v)' => Struck(v) /\ orphan'[v] = orphan[v],
         faults' = 0 /\ Struck(v)' /\ Pending(v) => Pending(v)'
  PROVE  StrikeKept(v)'
  BY DEF Timed, StrikeKept, OldStrike

-----------------------------------------------------------------------------
(* One item, in time.                                                      *)

LEMMA KillMoves ==
  ASSUME WorldTypes, NEW v \in Vms, Past(v), Counts(v), NEW next, Kill(v, next)
  PROVE  /\ Past(v)' /\ Counts(v)' /\ Calm(v)
         /\ faults' = 0 => ~Struck(v)' /\ ~Watched(v)' /\ faults = 0
<1>1. /\ vm'[v].state = "terminated" \/ vm'[v] = vm[v]
      /\ vm'[v].current = vm[v].current
      /\ job' = job /\ runner' = runner /\ row' = row /\ orphan' = orphan /\ warmClaim' = warmClaim
  BY DEF Kill, WorldTypes, VmRecords, tableVars
<1>2. faults' = 0 => vm'[v].state = "terminated" /\ faults = 0
  <2>1. faults' = faults \/ (faults' = faults + 1 /\ UNCHANGED vm) \/ faults' = faults + 1
    BY DEF Kill, NoFault, ItemFails, Fault
  <2>2. faults \in Nat
    BY DEF WorldTypes
  <2>3. faults' # 0 \/ vm' = [vm EXCEPT ![v].state = "terminated"]
    BY <2>2 DEF Kill, NoFault, ItemFails, Fault
  <2>4. vm' = [vm EXCEPT ![v].state = "terminated"] => vm'[v].state = "terminated"
    BY DEF WorldTypes, VmRecords
  <2> QED
    BY <2>1, <2>2, <2>3, <2>4
<1>3. Past(v)' /\ Counts(v)' /\ Calm(v)
  BY <1>1 DEF Past, Counts, Calm, Watched, Struck, Ran, Committed, Served, Gone
<1> QED
  BY <1>2, <1>3 DEF Struck, Watched

LEMMA ReconcileMoves ==
  ASSUME WorldTypes, SweepTypes, NEW v \in Vms, Past(v), SeenRan(v), Counts(v), ReconcileStep(v)
  PROVE  /\ Past(v)' /\ Counts(v)'
         /\ faults' = 0 => faults = 0
         /\ Calm(v) \/ (PutOrphanRow(v) /\ Watched(v)' = Watched(v) /\ orphan'[v] \in {orphan[v], clock})
<1> USE Fields, Times0
<1>1. CASE LifetimeKill(v) \/ OrphanKill(v) \/ RunnerKill(v)
  <2>1. PICK next : Kill(v, next)
    BY <1>1 DEF LifetimeKill, OrphanKill, RunnerKill
  <2> QED
    BY <2>1, KillMoves
<1>2. CASE Unmap(v)
  <2>1. UNCHANGED <<worldVars, orphan>> /\ (row'[v] = row[v] \/ row'[v] = NoRow)
    BY <1>2 DEF Unmap, WorldTypes
  <2>2. faults' = 0 => faults = 0
    BY <1>2 DEF Unmap, NoFault, ItemFails, Fault, WorldTypes
  <2>3. Past(v)' /\ Counts(v)' /\ Calm(v)
    BY <2>1 DEF worldVars, Past, Counts, Calm, Watched, Struck, Ran, Committed, Served, Gone, NoRow
  <2> QED
    BY <2>2, <2>3
<1>3. CASE Unstrike(v)
  <2>1. UNCHANGED <<worldVars, row>> /\ (orphan'[v] = orphan[v] \/ orphan'[v] = None)
    BY <1>3 DEF Unstrike, WorldTypes
  <2>2. faults' = 0 => faults = 0
    BY <1>3 DEF Unstrike, NoFault, ItemFails, Fault, WorldTypes
  <2>3. Past(v)' /\ Counts(v)' /\ Calm(v)
    BY <2>1 DEF worldVars, Past, Counts, Calm, Watched, Struck, Ran, Committed, Served, Gone
  <2> QED
    BY <2>2, <2>3
<1>4. CASE PutOrphanRow(v)
  <2>1. UNCHANGED <<worldVars, row>> /\ orphan'[v] \in {orphan[v], clock} /\ At(v, "strike")
    BY <1>4 DEF PutOrphanRow, WorldTypes
  <2>2. faults' = 0 => faults = 0
    BY <1>4 DEF PutOrphanRow, NoFault, ItemFails, Fault, WorldTypes
  <2>3. v \notin Pool => Ran(v)
    BY <2>1 DEF SeenRan
  <2>4. Past(v)' /\ Counts(v)' /\ Watched(v)' = Watched(v)
    BY <2>1, <2>3 DEF worldVars, Past, Counts, Watched, Ran, Committed, Served, Gone
  <2> QED
    BY <1>4, <2>1, <2>2, <2>4
<1>5. CASE WriteRow(v)
  <2>1. UNCHANGED <<worldVars, orphan>>
    BY <1>5 DEF WriteRow
  <2>2. row'[v] = row[v] \/ (row[v].is # "none" /\ row'[v] = Written(v, FirstWrite(item.writes)))
    BY <1>5 DEF WriteRow, UpdateExistingRow, WorldTypes
  <2>3. row'[v].is = row[v].is /\ row'[v].age = row[v].age
    BY <2>2, FirstWriteType DEF Written, RowRecords
  <2>4. faults' = 0 => faults = 0
    BY <1>5 DEF WriteRow, NoFault, ItemFails, Fault, WorldTypes
  <2>5. Past(v)' /\ Counts(v)' /\ Calm(v)
    BY <2>1, <2>3 DEF worldVars, Past, Counts, Calm, Watched, Struck, Ran, Committed, Served, Gone
  <2> QED
    BY <2>4, <2>5
<1>6. CASE Deregister(v)
  <2>1. /\ UNCHANGED <<vm, job, warmClaim, row, orphan>>
        /\ runner'[v] = runner[v] \/ runner'[v] = "absent"
    BY <1>6 DEF Deregister, WorldTypes, tableVars
  <2>2. faults' = 0 => faults = 0
    BY <1>6 DEF Deregister, NoFault, ItemFails, Fault, WorldTypes
  <2>3. Past(v)' /\ Counts(v)' /\ Calm(v)
    BY <2>1 DEF Past, Counts, Calm, Watched, Struck, Ran, Committed, Served, Gone
  <2> QED
    BY <2>2, <2>3
<1>7. CASE RereadTable(v) \/ LoadRunners(v) \/ JudgeRunner(v) \/ GetRunner(v) \/ RelistRunners(v)
  <2>1. UNCHANGED <<worldVars, tableVars>>
    BY <1>7 DEF RereadTable, LoadRunners, JudgeRunner, GetRunner, RelistRunners
  <2>2. faults' = 0 => faults = 0
    BY <1>7 DEF RereadTable, LoadRunners, JudgeRunner, GetRunner, RelistRunners, NoFault, ItemFails, Fault, WorldTypes
  <2> QED
    BY <2>1, <2>2, Kept DEF worldVars, tableVars
<1> QED
  BY <1>1, <1>2, <1>3, <1>4, <1>5, <1>6, <1>7 DEF ReconcileStep

LEMMA ReconcileGoesOn ==
  ASSUME NEW v \in Vms, ReconcileStep(v), item \in Items
  PROVE  item' = NoItem \/ (item'.vm = v /\ item'.step # "strike")
<1>1. CASE LifetimeKill(v) \/ OrphanKill(v) \/ RunnerKill(v)
  <2>1. PICK next : Kill(v, next) /\ next # "strike"
    BY <1>1 DEF LifetimeKill, OrphanKill, RunnerKill
  <2> QED
    BY <1>1, <2>1 DEF LifetimeKill, OrphanKill, RunnerKill, Kill, At, Then, Done, ItemFails, Items
<1>2. CASE Unmap(v) \/ Unstrike(v) \/ PutOrphanRow(v)
  BY <1>2 DEF Unmap, Unstrike, PutOrphanRow, Done, ItemFails
<1>3. CASE RereadTable(v)
  <2>1. item' = NoItem \/ (\E s \in {"unstrike", "orphanKill"} : item' = [item EXCEPT !.step = s])
    BY <1>3 DEF RereadTable, Done, ItemFails, Then
  <2> QED
    BY <1>3, <2>1 DEF RereadTable, At, Items
<1>4. CASE LoadRunners(v)
  BY <1>4 DEF LoadRunners, At, Done, ItemFails
<1>5. CASE JudgeRunner(v)
  <2>1. item' = NoItem \/ (item'.vm = v /\ item'.step \in {"write", "byId", "relist"})
    BY <1>5 DEF JudgeRunner, At, ThenWrite, ThenReadAfresh, Done, Items
  <2> QED
    BY <2>1
<1>6. CASE GetRunner(v)
  BY <1>6, FreshReadGoesOn DEF GetRunner, At, Then, Done, ItemFails, Items
<1>7. CASE RelistRunners(v)
  BY <1>7, FreshReadGoesOn DEF RelistRunners, At, Done, ItemFails
<1>8. CASE WriteRow(v)
  BY <1>8 DEF WriteRow, At, Done, ItemFails, Items
<1>9. CASE Deregister(v)
  BY <1>9 DEF Deregister, At, Then, Done, ItemFails, Items
<1> QED
  BY <1>1, <1>2, <1>3, <1>4, <1>5, <1>6, <1>7, <1>8, <1>9 DEF ReconcileStep

\* The step of an item towards the end of v leads there.
LEMMA ReconcileEnds ==
  ASSUME WorldTypes, SweepTypes, NEW v \in Vms, Past(v), Counts(v), ReconcileStep(v), faults' = 0,
         item \in Items
  PROVE  /\ At(v, "lifetimeKill") => ~Watched(v)'
         /\ item.kind = "orphan" /\ item.step \in {"lifetimeKill", "unstrike", "reread", "orphanKill"}
              => \/ ~Struck(v)'
                 \/ item'.vm = v /\ item'.kind = "orphan" /\ item'.step \in {"unstrike", "orphanKill"}
<1>1. faults \in Nat
  BY DEF WorldTypes
<1>2. CASE LifetimeKill(v) \/ OrphanKill(v) \/ RunnerKill(v)
  <2>1. PICK next : Kill(v, next)
    BY <1>2 DEF LifetimeKill, OrphanKill, RunnerKill
  <2> QED
    BY <2>1, KillMoves
<1>3. CASE Unstrike(v)
  <2>1. item.step = "unstrike"
    BY <1>3 DEF Unstrike, At
  <2>2. orphan'[v] = None
    BY <1>1, <1>3 DEF Unstrike, NoFault, ItemFails, Fault, WorldTypes
  <2> QED
    BY <2>1, <2>2 DEF At, Struck
<1>4. CASE RereadTable(v)
  <2>1. item.vm = v /\ item.step = "reread"
    BY <1>4 DEF RereadTable, At
  <2>2. \E s \in {"unstrike", "orphanKill"} : item' = [item EXCEPT !.step = s]
    BY <1>1, <1>4 DEF RereadTable, NoFault, ItemFails, Fault, Then
  <2> QED
    BY <2>1, <2>2 DEF At, Items
<1>5. CASE Unmap(v) \/ PutOrphanRow(v)
  BY <1>5 DEF Unmap, PutOrphanRow, At
<1>6. CASE LoadRunners(v) \/ JudgeRunner(v) \/ GetRunner(v) \/ RelistRunners(v) \/ WriteRow(v) \/ Deregister(v)
  <2>1. item.step \in {"judge", "byId", "relist", "write", "deregister"}
    BY <1>6 DEF LoadRunners, JudgeRunner, GetRunner, RelistRunners, WriteRow, Deregister, At
  <2> QED
    BY <2>1 DEF At
<1> QED
  BY <1>2, <1>3, <1>4, <1>5, <1>6 DEF ReconcileStep

-----------------------------------------------------------------------------
(* The reads of a sweep, in time.                                          *)

\* A sweep reads a job past its cap as what it is.
LEMMA CaughtAt ==
  ASSUME WorldTypes, NEW v \in Vms, Counts(v), Watched(v), job[v].age > Late + clock
  PROVE  /\ vm[v].age - clock > LifetimeCap
         /\ ServedTooLong(v)
<1>1. /\ job[v].age \in Nat /\ vm[v].age \in Nat /\ clock \in Nat /\ row[v].age \in Nat
      /\ warmClaim[v] \in Nat \/ warmClaim[v] = None
      /\ LaunchTime \in Nat /\ LifetimeCap \in Nat /\ None \notin Nat
  BY Fields, Times0 DEF WorldTypes, Times, Ages
<1>2. job[v].age > LaunchTime + LifetimeCap + clock
  BY DEF Late
<1>3. /\ job[v].age <= vm[v].age
      /\ row[v].is = "mapping" => job[v].age <= row[v].age + LaunchTime
      /\ warmClaim[v] # None => job[v].age <= warmClaim[v]
  BY DEF Counts, Watched, Gone
<1>4. vm[v].age - clock > LifetimeCap
  BY <1>1, <1>2, <1>3
<1>5. \A t \in ClaimTimes(v) : t - clock > LifetimeCap
  <2> SUFFICES ASSUME NEW t \in ClaimTimes(v) PROVE t - clock > LifetimeCap
    OBVIOUS
  <2>1. (row[v].is = "mapping" /\ t = row[v].age) \/ (t = warmClaim[v] /\ warmClaim[v] # None)
    BY DEF ClaimTimes
  <2> QED
    BY <1>1, <1>2, <1>3, <2>1
<1> QED
  BY <1>4, <1>5 DEF ServedTooLong

LEMMA StartSweepTimes ==
  ASSUME WorldTypes, SweepTypes, OnTime, NEW v \in Vms, Timed(v), StartSweep
  PROVE  Timed(v)'
<1>1. /\ UNCHANGED <<worldVars, tableVars, item, faults>> /\ sweep' = "list" /\ clock' = 0
      /\ faults = 0 => sweep = "off" /\ due' = 0 /\ due >= Interval - Jitter
  BY DEF StartSweep, OnTime
<1>3. Doomed(v)' /\ Pending(v)' /\ Watched(v)' = Watched(v) /\ Struck(v)' = Struck(v)
  BY <1>1 DEF Doomed, Pending, Watched, Struck, Served, worldVars, tableVars
<1>4. due \in 0..(Interval + Jitter) /\ job[v].age \in Nat /\ Interval \in Nat /\ Jitter \in Nat /\ Late \in Nat
  BY Fields, Times0 DEF WorldTypes, Late
<1>5. Backstopped(v)'
  <2> SUFFICES ASSUME faults = 0, Watched(v) PROVE job[v].age <= Late + Interval + Jitter + 0
    BY <1>1, <1>3 DEF Backstopped, worldVars, Late
  <2>1. ~Doomed(v) /\ SweepAge = due
    BY <1>1 DEF Doomed, SweepAge
  <2>2. job[v].age <= Late + due
    BY <2>1 DEF Timed, Backstopped
  <2> QED
    BY <1>4, <2>2
<1>6. StrikeKept(v)'
  <2> SUFFICES ASSUME faults = 0, Struck(v), MaxAge > Interval + Jitter + SweepTime
      PROVE  Interval - Jitter + 0 <= orphan[v] /\ orphan[v] <= Interval + Jitter + 0
    BY <1>1, <1>3 DEF StrikeKept, OldStrike, tableVars
  <2>1. ~Pending(v)
    BY <1>1 DEF Pending
  <2>2. orphan[v] = due
    BY <2>1 DEF Timed, StrikeKept
  <2> QED
    BY <1>1, <1>4, <2>2
<1> QED
  BY <1>5, <1>6 DEF Timed

\* A read of the sweep takes Backstopped and StrikeKept along if it takes Doomed and Pending.
LEMMA ReadKeeps ==
  ASSUME WorldTypes, NEW v \in Vms, Timed(v), OnTime, faults' = 0 => faults = 0,
         UNCHANGED <<worldVars, tableVars, clock, due>>,
         sweep # "off",
         faults' = 0 /\ Watched(v) /\ job[v].age > Late + clock /\ Doomed(v) => Doomed(v)',
         faults' = 0 /\ Struck(v) /\ OldStrike(v) /\ Pending(v) => Pending(v)'
  PROVE  Timed(v)'
<1>1. Watched(v)' = Watched(v) /\ Struck(v)' = Struck(v) /\ job' = job /\ orphan' = orphan
      /\ OldStrike(v)' = OldStrike(v)
  BY DEF Watched, Struck, OldStrike, Served, worldVars, tableVars
<1>3. Backstopped(v)'
  <2> SUFFICES ASSUME faults' = 0, Watched(v)
      PROVE  \/ job[v].age <= Late + SweepAge'
             \/ job[v].age <= Late + Interval + Jitter + clock /\ Doomed(v)'
    BY <1>1 DEF Backstopped, Late
  <2>1. SweepAge' = clock /\ SweepAge = clock
    BY DEF SweepAge, OnTime
  <2>2. \/ job[v].age <= Late + clock
        \/ job[v].age <= Late + Interval + Jitter + clock /\ Doomed(v)
    BY <2>1 DEF Timed, Backstopped
  <2>3. job[v].age \in Nat /\ Late + clock \in Nat
    BY Fields, Times0 DEF WorldTypes, Late
  <2>4. job[v].age <= Late + clock \/ job[v].age > Late + clock
    BY <2>3
  <2> QED
    BY <2>1, <2>2, <2>4
<1>4. StrikeKept(v)'
  BY <1>1 DEF Timed, StrikeKept
<1> QED
  BY <1>3, <1>4 DEF Timed

LEMMA ListVmsTimes ==
  ASSUME JanitorInv, OnTime, NEW v \in Vms, Counts(v), Past(v), Timed(v), ListVms
  PROVE  Timed(v)'
<1>1. /\ WorldTypes /\ sweep = "list" /\ UNCHANGED <<worldVars, tableVars, clock, due>>
      /\ snap[v] = Unread /\ faults \in Nat
  BY Times0 DEF JanitorInv, ListVms, SweepFacts, Phasing, WorldTypes
<1>2. faults' = 0 => faults = 0
  BY <1>1 DEF ListVms, NoFault, Fault
<1>3. faults' = 0 => sweep' = "scan" /\ snap'[v] = IF vm[v].current /\ vm[v].state # "none"
                                                 THEN ReadVm(Unread, v) ELSE Unread
  BY <1>1 DEF ListVms, NoFault, Fault
<1>4. /\ ReadVm(Unread, v).state = vm[v].state
      /\ ReadVm(Unread, v).aged = (vm[v].age - clock > LifetimeCap)
      /\ Unread.state = "unlisted"
  BY DEF ReadVm, Unread
<1>5. ASSUME faults' = 0, Watched(v), job[v].age > Late + clock PROVE Doomed(v)'
  <2>1. vm[v].state = "running" /\ vm'[v].current = vm[v].current
    BY <1>1, <1>5 DEF Watched, worldVars
  <2>2. CASE vm[v].current
    <3>1. snap'[v] = ReadVm(Unread, v)
      BY <1>3, <1>5, <2>1, <2>2
    <3>2. snap'[v].state = "running" /\ snap'[v].aged
      BY <1>1, <1>4, <1>5, <2>1, <3>1, CaughtAt
    <3> QED
      BY <1>3, <1>5, <3>2 DEF Doomed, Caught
  <2>3. CASE ~vm[v].current
    <3>1. snap'[v] = Unread
      BY <1>3, <1>5, <2>3
    <3> QED
      BY <1>3, <1>4, <1>5, <2>1, <2>3, <3>1 DEF Doomed, Unseen
  <2> QED
    BY <2>2, <2>3
<1>6. ASSUME faults' = 0, Struck(v) PROVE Pending(v)'
  <2>1. snap'[v].state \in {"running", "unlisted"}
    BY <1>3, <1>4, <1>6 DEF Struck
  <2> QED
    BY <1>3, <1>6, <2>1 DEF Pending
<1>7. sweep # "off"
  BY <1>1
<1> QED
  BY <1>1, <1>2, <1>5, <1>6, <1>7, ReadKeeps

LEMMA ScanTableTimes ==
  ASSUME JanitorInv, OnTime, NEW v \in Vms, Counts(v), Past(v), Timed(v), ScanTable
  PROVE  Timed(v)'
<1>1. /\ WorldTypes /\ sweep = "scan" /\ UNCHANGED <<worldVars, tableVars, clock, due>>
      /\ snap[v] \in Readings /\ faults \in Nat
  BY Times0 DEF JanitorInv, ScanTable, SweepTypes, WorldTypes
<1>2. faults' = 0 => faults = 0
  BY <1>1 DEF ScanTable, NoFault, Fault
<1>3. faults' = 0 => sweep' = "map" /\ snap'[v] = ReadRows(snap[v], v)
  BY <1>1 DEF ScanTable, NoFault, Fault
<1>4. /\ ReadRows(snap[v], v).state = snap[v].state /\ ReadRows(snap[v], v).aged = snap[v].aged
      /\ ReadRows(snap[v], v).mapped = (row[v].is = "mapping")
      /\ ReadRows(snap[v], v).served = ServedTooLong(v)
      /\ ReadRows(snap[v], v).orphan = Strike(orphan[v])
  BY <1>1 DEF ReadRows, Readings
<1>5. ASSUME faults' = 0, Watched(v), job[v].age > Late + clock, Doomed(v) PROVE Doomed(v)'
  <2>1. Caught(v) \/ (Unseen(v) /\ ~vm[v].current)
    BY <1>1, <1>5 DEF Doomed
  <2>2. snap'[v].served
    BY <1>1, <1>3, <1>4, <1>5, CaughtAt
  <2>3. CASE Caught(v)
    <3>1. Caught(v)'
      BY <1>3, <1>4, <1>5, <2>3 DEF Caught
    <3> QED
      BY <1>3, <1>5, <2>2, <3>1 DEF Doomed
  <2>4. CASE Unseen(v) /\ ~vm[v].current
    <3>1. Unseen(v)' /\ snap'[v].mapped
      BY <1>3, <1>4, <1>5, <2>4 DEF Unseen, Watched
    <3> QED
      BY <1>3, <1>5, <2>2, <3>1 DEF Doomed
  <2> QED
    BY <2>1, <2>3, <2>4
<1>6. ASSUME faults' = 0, Struck(v), OldStrike(v), Pending(v) PROVE Pending(v)'
  <2>1. orphan[v] \in Nat /\ clock \in Nat
    BY <1>1, <1>6, Fields, Times0 DEF Struck, Times, Ages, WorldTypes
  <2>2. Strike(orphan[v]) = "old"
    BY <1>6, <2>1, Times0 DEF Struck, OldStrike, Strike, IsOlderThanInterval
  <2>3. snap[v].state \in {"running", "unlisted"}
    BY <1>1, <1>6 DEF Pending
  <2> QED
    BY <1>3, <1>4, <1>6, <2>2, <2>3 DEF Pending
<1>7. sweep # "off"
  BY <1>1
<1> QED
  BY <1>1, <1>2, <1>5, <1>6, <1>7, ReadKeeps

\* With no failing call, every VM with a row is read.
LEMMA MapReads ==
  ASSUME JanitorInv, NEW v \in Vms, MapVms, faults' = 0
  PROVE  /\ faults = 0
         /\ snap'[v] = IF Unlisted(v) THEN ReadVm(snap[v], v) ELSE snap[v]
         /\ \A k \in ItemsOf(snap'[v]) : <<v, k>> \in todo'
<1>1. PICK failed \in SUBSET {u \in Vms : Unlisted(u)} :
        /\ faults' = faults + Cardinality(failed)
        /\ snap' = [u \in Vms |->
             IF Unlisted(u) /\ u \notin failed THEN ReadVm(snap[u], u) ELSE snap[u]]
  BY DEF MapVms
<1>2. IsFiniteSet(failed)
  BY SetsAssumption, FS_Subset
<1>3. Cardinality(failed) \in Nat /\ faults \in Nat
  BY <1>2, FS_CardinalityType, Times0 DEF JanitorInv, WorldTypes
<1>4. faults = 0 /\ Cardinality(failed) = 0
  BY <1>1, <1>3
<1>5. failed = {}
  BY <1>2, <1>4, FS_EmptySet
<1>6. snap'[v] = IF Unlisted(v) THEN ReadVm(snap[v], v) ELSE snap[v]
  BY <1>1, <1>5
<1>7. todo' = UNION {{u} \X ItemsOf(snap'[u]) : u \in Vms}
  BY DEF MapVms
<1> QED
  BY <1>4, <1>6, <1>7

LEMMA RunningItems ==
  ASSUME NEW s \in Readings, s.state = "running"
  PROVE  /\ \E k \in {"row", "orphan", "bare"} : k \in ItemsOf(s)
         /\ s.orphan # "none" => "orphan" \in ItemsOf(s)
<1>1. s.mapped => "row" \in ItemsOf(s)
  BY DEF ItemsOf
<1>2. s.orphan # "none" => "orphan" \in ItemsOf(s)
  BY DEF ItemsOf
<1>3. ~Rowed(s) => "bare" \in ItemsOf(s)
  BY DEF ItemsOf
<1> QED
  BY <1>1, <1>2, <1>3 DEF Rowed

LEMMA MapVmsTimes ==
  ASSUME JanitorInv, SweepTypes', OnTime, NEW v \in Vms, Counts(v), Past(v), Timed(v), MapVms
  PROVE  Timed(v)'
<1>1. /\ WorldTypes /\ sweep = "map" /\ sweep' = "items" /\ UNCHANGED <<worldVars, tableVars, clock, due>>
      /\ snap[v] \in Readings /\ snap'[v] \in Readings
  BY DEF JanitorInv, MapVms, SweepTypes
<1>2. faults' = 0 => faults = 0
  BY MapReads
<1>3. /\ ReadVm(snap[v], v).state = vm[v].state
      /\ ReadVm(snap[v], v).aged = (vm[v].age - clock > LifetimeCap)
      /\ ReadVm(snap[v], v).served = snap[v].served
      /\ ReadVm(snap[v], v).orphan = snap[v].orphan
  BY <1>1 DEF ReadVm, Readings
<1>4. ASSUME faults' = 0, Watched(v), job[v].age > Late + clock, Doomed(v) PROVE Doomed(v)'
  <2>1. snap[v].served /\ (Caught(v) \/ (Unseen(v) /\ snap[v].mapped))
    BY <1>1, <1>4 DEF Doomed
  <2>2. snap'[v].served /\ snap'[v].state = "running" /\ snap'[v].aged
    <3>1. CASE Caught(v)
      <4>1. snap'[v] = snap[v]
        BY <1>4, <3>1, MapReads DEF Caught, Unlisted
      <4> QED
        BY <2>1, <3>1, <4>1 DEF Caught
    <3>2. CASE Unseen(v) /\ snap[v].mapped
      <4>1. snap'[v] = ReadVm(snap[v], v)
        BY <1>4, <3>2, MapReads DEF Unseen, Unlisted, Rowed
      <4> QED
        BY <1>1, <1>3, <1>4, <2>1, <4>1, CaughtAt DEF Watched
    <3> QED
      BY <2>1, <3>1, <3>2
  <2>3. PICK k \in {"row", "orphan", "bare"} : k \in ItemsOf(snap'[v])
    BY <1>1, <2>2, RunningItems
  <2>4. <<v, k>> \in todo'
    BY <1>4, <2>3, MapReads
  <2> QED
    BY <1>1, <2>2, <2>4 DEF Doomed, Caught
<1>5. ASSUME faults' = 0, Struck(v), OldStrike(v), Pending(v) PROVE Pending(v)'
  <2>1. snap[v].orphan = "old" /\ snap[v].state \in {"running", "unlisted"}
    BY <1>1, <1>5 DEF Pending
  <2>2. snap'[v].orphan = "old" /\ snap'[v].state = "running"
    BY <1>3, <1>5, <2>1, MapReads DEF Struck, Unlisted, Rowed
  <2>3. <<v, "orphan">> \in todo'
    BY <1>1, <1>5, <2>2, MapReads, RunningItems
  <2> QED
    BY <1>1, <2>2, <2>3 DEF Pending
<1>6. sweep # "off"
  BY <1>1
<1> QED
  BY <1>1, <1>2, <1>4, <1>5, <1>6, ReadKeeps

LEMMA TakeItemTimes ==
  ASSUME JanitorInv, OnTime, NEW v \in Vms, Counts(v), Past(v), Timed(v), TakeItem
  PROVE  Timed(v)'
<1>1. /\ WorldTypes /\ sweep = "items" /\ item = NoItem
      /\ UNCHANGED <<worldVars, tableVars, clock, due, sweep, snap, faults>>
  BY DEF JanitorInv, TakeItem
<1>2. PICK t \in todo :
        LET step == FirstStep(snap[t[1]], t[2]) IN
        /\ todo' = todo \ {t}
        /\ item' = IF step = "done" THEN NoItem
                   ELSE [NoItem EXCEPT !.vm = t[1], !.kind = t[2], !.step = step]
  BY DEF TakeItem
<1>3. ASSUME NEW k, t = <<v, k>>, FirstStep(snap[v], k) # "done"
      PROVE  item'.vm = v /\ item'.kind = k /\ item'.step = FirstStep(snap[v], k)
  BY <1>2, <1>3 DEF NoItem
<1>4. ASSUME Doomed(v) PROVE Doomed(v)'
  <2>1. snap[v].served /\ snap[v].aged /\ Caught(v) /\ Caught(v)'
    BY <1>1, <1>4 DEF Doomed, Caught
  <2>2. PICK k \in {"row", "orphan", "bare"} : <<v, k>> \in todo
    <3>1. ~At(v, "lifetimeKill")
      BY <1>1 DEF At, NoItem
    <3> QED
      BY <1>1, <1>4, <3>1 DEF Doomed
  <2>3. CASE t = <<v, k>>
    <3>1. FirstStep(snap[v], k) = "lifetimeKill"
      BY <2>1, <2>2 DEF FirstStep
    <3>2. At(v, "lifetimeKill")'
      BY <1>3, <2>3, <3>1 DEF At
    <3> QED
      BY <1>1, <2>1, <3>2 DEF Doomed
  <2>4. CASE t # <<v, k>>
    <3>1. <<v, k>> \in todo'
      BY <1>2, <2>2, <2>4
    <3> QED
      BY <1>1, <2>1, <2>2, <3>1 DEF Doomed
  <2> QED
    BY <2>3, <2>4
<1>5. ASSUME Pending(v) PROVE Pending(v)'
  <2>1. snap[v].orphan = "old" /\ snap[v].state = "running" /\ <<v, "orphan">> \in todo
    <3>1. item.step \notin {"lifetimeKill", "unstrike", "reread", "orphanKill"}
      BY <1>1 DEF NoItem
    <3> QED
      BY <1>1, <1>5, <3>1 DEF Pending
  <2>2. CASE t = <<v, "orphan">>
    <3>1. FirstStep(snap[v], "orphan") \in {"lifetimeKill", "unstrike", "reread"}
      BY <2>1 DEF FirstStep
    <3>2. /\ item'.vm = v /\ item'.kind = "orphan"
          /\ item'.step \in {"lifetimeKill", "unstrike", "reread", "orphanKill"}
      BY <1>3, <2>2, <3>1
    <3> QED
      BY <1>1, <2>1, <3>2 DEF Pending
  <2>3. CASE t # <<v, "orphan">>
    BY <1>1, <1>2, <2>1, <2>3 DEF Pending
  <2> QED
    BY <2>2, <2>3
<1>6. sweep # "off"
  BY <1>1
<1> QED
  BY <1>1, <1>4, <1>5, <1>6, ReadKeeps

LEMMA EndSweepTimes ==
  ASSUME JanitorInv, OnTime, NEW v \in Vms, Timed(v), EndSweep
  PROVE  Timed(v)'
<1>1. WorldTypes /\ UNCHANGED <<worldVars, tableVars, clock, due>> /\ faults \in Nat
  BY Times0 DEF JanitorInv, EndSweep, WorldTypes
<1>2. faults' = 0 => /\ faults = 0 /\ sweep = "items" /\ todo = {} /\ item = NoItem
                     /\ sweep' = "off"
  BY <1>1 DEF EndSweep, NoFault, Fault, SweepEnds
<1>3. Watched(v)' = Watched(v) /\ Struck(v)' = Struck(v) /\ job' = job /\ orphan' = orphan
  BY <1>1 DEF Watched, Struck, Served, worldVars, tableVars
<1>4. faults' = 0 => ~Doomed(v) /\ ~Pending(v) /\ clock = due /\ SweepAge = clock /\ SweepAge' = due
  <2> SUFFICES ASSUME faults' = 0
      PROVE  ~Doomed(v) /\ ~Pending(v) /\ clock = due /\ SweepAge = clock /\ SweepAge' = due
    OBVIOUS
  <2>1. item.step = "none"
    BY <1>2 DEF NoItem
  <2>2. ~Doomed(v) /\ ~Pending(v)
    BY <1>2, <2>1 DEF Doomed, Pending, At
  <2> QED
    BY <1>1, <1>2, <2>2 DEF OnTime, SweepAge
<1>5. Backstopped(v)'
  BY <1>2, <1>3, <1>4 DEF Timed, Backstopped, Late
<1>6. StrikeKept(v)'
  BY <1>1, <1>2, <1>3, <1>4 DEF Timed, StrikeKept
<1> QED
  BY <1>5, <1>6 DEF Timed

-----------------------------------------------------------------------------
(* The invariant of time is one.                                           *)

\* What is running in the sweep's eyes runs or has ended.
LEMMA SeenRanStep ==
  ASSUME JanitorInv, NEW v \in Vms, Past(v), SeenRan(v), Reads
  PROVE  SeenRan(v)'
<1>0. /\ WorldTypes /\ SweepTypes /\ snap[v] \in Readings /\ UNCHANGED <<worldVars, tableVars>>
  BY ReadsReadOnly DEF JanitorInv, SweepTypes
<1>1. Ran(v)' = Ran(v)
  BY <1>0 DEF Ran, worldVars
<1>2. CASE StartSweep
  BY <1>1, <1>2 DEF StartSweep, SeenRan, At
<1>3. CASE EndSweep
  BY <1>3 DEF EndSweep, SweepEnds, SeenRan, At, NoItem, Unread
<1>4. ASSUME item' = NoItem,
             snap'[v].state = snap[v].state \/ snap'[v].state = vm[v].state
      PROVE  SeenRan(v)'
  BY <1>1, <1>4 DEF SeenRan, At, NoItem, Ran
<1>5. CASE ListVms
  <2>1. CASE SweepEnds("off")
    BY <2>1 DEF SweepEnds, SeenRan, At, NoItem, Unread
  <2>2. CASE /\ snap' = [u \in Vms |->
                  IF vm[u].current /\ vm[u].state # "none" THEN ReadVm(snap[u], u) ELSE snap[u]]
             /\ item' = item
    <3>1. item' = NoItem
      BY <1>5, <2>2 DEF ListVms, JanitorInv, SweepFacts, Phasing
    <3>2. snap'[v].state = snap[v].state \/ snap'[v].state = vm[v].state
      BY <1>0, <2>2 DEF ReadVm, Readings
    <3> QED
      BY <1>4, <3>1, <3>2
  <2> QED
    BY <1>5, <2>1, <2>2 DEF ListVms
<1>6. CASE ScanTable
  <2>1. CASE SweepEnds("off")
    BY <2>1 DEF SweepEnds, SeenRan, At, NoItem, Unread
  <2>2. CASE snap' = [u \in Vms |-> ReadRows(snap[u], u)] /\ item' = item
    <3>1. item' = NoItem
      BY <1>6, <2>2 DEF ScanTable, JanitorInv, SweepFacts, Phasing
    <3>2. snap'[v].state = snap[v].state
      BY <1>0, <2>2 DEF ReadRows, Readings
    <3> QED
      BY <1>4, <3>1, <3>2
  <2> QED
    BY <1>6, <2>1, <2>2 DEF ScanTable
<1>7. CASE MapVms
  <2>1. item' = NoItem
    BY <1>7 DEF MapVms, JanitorInv, SweepFacts, Phasing
  <2>2. snap'[v] = snap[v] \/ snap'[v] = ReadVm(snap[v], v)
    BY <1>7 DEF MapVms
  <2>3. ReadVm(snap[v], v).state = vm[v].state
    BY <1>0 DEF ReadVm, Readings
  <2> QED
    BY <1>4, <2>1, <2>2, <2>3
<1>8. CASE TakeItem
  <2>1. snap' = snap
    BY <1>8 DEF TakeItem
  <2>2. PICK t \in todo :
          LET step == FirstStep(snap[t[1]], t[2]) IN
          item' = IF step = "done" THEN NoItem
                  ELSE [NoItem EXCEPT !.vm = t[1], !.kind = t[2], !.step = step]
    BY <1>8 DEF TakeItem
  <2>3. At(v, "strike")' => t[1] = v /\ FirstStep(snap[v], t[2]) = "strike"
    BY <2>2 DEF At, NoItem
  <2>4. t[2] \in ItemsOf(snap[t[1]])
    BY DEF JanitorInv, SweepFacts
  <2>5. At(v, "strike")' => snap[v].state = "running"
    BY <2>3, <2>4 DEF FirstStep, ItemsOf
  <2> QED
    BY <1>1, <2>1, <2>5 DEF SeenRan
<1> QED
  BY <1>2, <1>3, <1>5, <1>6, <1>7, <1>8 DEF Reads

LEMMA WorldStepTimes ==
  ASSUME JanitorInv, JanitorInv', TimeInv, NEW u \in Vms, WorldStep(u), NEW v \in Vms, Lasts(v)
  PROVE  Histories(v)' /\ Timed(v)'
<1>0. /\ WorldTypes /\ WorldTypes' /\ Facts(v) /\ Past(v) /\ SeenRan(v) /\ Counts(v) /\ Timed(v)
  BY DEF JanitorInv, WorldFacts, TimeInv, Histories
<1>1. UNCHANGED <<clock, due, sweepVars>> /\ (faults' = faults \/ faults' = faults + 1)
  BY DEF WorldStep, LaunchCold, ClaimWarm, Resume, Arm, Commit, LaunchFails, TerminateOnWebhook,
     UnmapOnWebhook, LaunchPooled, SuspendPooled, Boot, RotateImage, AssignJob, RunnerFinishes,
     RunnerDropped, RotateId, ListCatchesUp, ExpireRow, ExpireWarmClaim, Fault
<1>2. faults' = 0 => faults = 0
  BY <1>0, <1>1 DEF WorldTypes
<1>3. Past(v)' /\ Counts(v)' /\ Calm(v)
  <2>1. CASE u = v
    BY <1>0, <2>1, WorldStepMoves
  <2>2. CASE u # v
    BY <1>0, <2>2, Elsewhere, Kept
  <2> QED
    BY <2>1, <2>2
<1>4. SeenRan(v)'
  BY <1>0, <1>1, <1>3 DEF SeenRan, Calm, At, sweepVars
<1>5. Doomed(v) => Doomed(v)'
  BY <1>1 DEF Doomed, Caught, Unseen, At, sweepVars, Lasts
<1>6. Pending(v) => Pending(v)'
  BY <1>1 DEF Pending, sweepVars
<1>7. UNCHANGED <<clock, due, sweep>>
  BY <1>1 DEF sweepVars
<1>8. Backstopped(v)'
  BY <1>0, <1>2, <1>3, <1>5, <1>7, BackstopLasts DEF Calm
<1>9. StrikeKept(v)'
  BY <1>0, <1>2, <1>3, <1>6, <1>7, StrikeLasts DEF Calm
<1> QED
  BY <1>3, <1>4, <1>8, <1>9 DEF Histories, Timed

LEMMA ReconcileTimes ==
  ASSUME JanitorInv, JanitorInv', TimeInv, NEW u \in Vms, ReconcileStep(u), NEW v \in Vms
  PROVE  Histories(v)' /\ Timed(v)'
<1>0. /\ WorldTypes /\ WorldTypes' /\ SweepTypes /\ OnTime
      /\ Past(v) /\ SeenRan(v) /\ Counts(v) /\ Timed(v) /\ Past(u) /\ SeenRan(u) /\ Counts(u)
  BY DEF JanitorInv, TimeInv, Histories
<1>1. item # NoItem /\ item.vm = u /\ item \in Items
  BY <1>0, AtItem DEF ReconcileStep, LifetimeKill, Unmap, Unstrike, PutOrphanRow, RereadTable,
     OrphanKill, LoadRunners, JudgeRunner, GetRunner, RelistRunners, WriteRow, Deregister, RunnerKill, Steps
<1>2. sweep = "items" /\ UNCHANGED <<sweep, snap, todo, clock, due>>
  BY <1>1 DEF JanitorInv, SweepFacts, Phasing, ReconcileStep, LifetimeKill, Unmap, Unstrike, PutOrphanRow,
     RereadTable, OrphanKill, Kill, LoadRunners, JudgeRunner, GetRunner, RelistRunners, WriteRow, Deregister,
     RunnerKill
<1>3. faults' = 0 => faults = 0
  BY <1>0, ReconcileMoves
<1>4. item' = NoItem \/ (item'.vm = u /\ item'.step # "strike")
  BY <1>1, ReconcileGoesOn
<1>5. ASSUME faults' = 0
      PROVE  /\ At(u, "lifetimeKill") => ~Watched(u)'
             /\ item.kind = "orphan" /\ item.step \in {"lifetimeKill", "unstrike", "reread", "orphanKill"}
                  => \/ ~Struck(u)'
                     \/ item'.vm = u /\ item'.kind = "orphan" /\ item'.step \in {"unstrike", "orphanKill"}
  BY <1>0, <1>1, <1>5, ReconcileEnds
<1>6. Past(v)' /\ Counts(v)'
      /\ (Calm(v) \/ (PutOrphanRow(v) /\ Watched(v)' = Watched(v) /\ orphan'[v] \in {orphan[v], clock}))
  <2>1. CASE u = v
    BY <1>0, <2>1, ReconcileMoves
  <2>2. CASE u # v
    BY <1>0, <2>2, Elsewhere, Kept
  <2> QED
    BY <2>1, <2>2
<1>7. SeenRan(v)'
  <2>1. ~At(v, "strike")'
    BY <1>4 DEF At, NoItem
  <2>2. v \notin Pool /\ Ran(v) => Ran(v)'
    <3>1. CASE Calm(v)
      BY <3>1 DEF Calm
    <3>2. CASE PutOrphanRow(v)
      BY <3>2 DEF PutOrphanRow, worldVars, Ran
    <3> QED
      BY <1>6, <3>1, <3>2
  <2> QED
    BY <1>0, <1>2, <2>1, <2>2 DEF SeenRan
<1>8. ASSUME faults' = 0, Watched(v)', Doomed(v) PROVE Doomed(v)'
  <2>1. ~At(v, "lifetimeKill")
    <3>1. At(v, "lifetimeKill") => u = v
      BY <1>1 DEF At
    <3> QED
      BY <1>5, <1>8, <3>1
  <2> QED
    BY <1>2, <1>8, <2>1 DEF Doomed, Caught
<1>9. ASSUME faults' = 0, Struck(v)', Pending(v) PROVE Pending(v)'
  <2>1. snap[v].orphan = "old" /\ snap[v].state = "running"
    BY <1>2, <1>9 DEF Pending
  <2>2. CASE <<v, "orphan">> \in todo
    BY <1>2, <2>1, <2>2 DEF Pending
  <2>3. CASE /\ item.vm = v /\ item.kind = "orphan"
             /\ item.step \in {"lifetimeKill", "unstrike", "reread", "orphanKill"}
    <3>1. item'.vm = v /\ item'.kind = "orphan" /\ item'.step \in {"unstrike", "orphanKill"}
      BY <1>1, <1>5, <1>9, <2>3
    <3> QED
      BY <1>2, <2>1, <3>1 DEF Pending
  <2> QED
    BY <1>2, <1>9, <2>2, <2>3 DEF Pending
<1>10. Watched(v)' => job'[v].age <= LaunchTime \/ (Watched(v) /\ job'[v].age = job[v].age)
  <2>1. CASE Calm(v)
    BY <2>1 DEF Calm
  <2>2. CASE PutOrphanRow(v) /\ Watched(v)' = Watched(v)
    BY <2>2 DEF PutOrphanRow, worldVars
  <2> QED
    BY <1>6, <2>1, <2>2
<1>11. Backstopped(v)'
  BY <1>0, <1>2, <1>3, <1>8, <1>10, BackstopLasts
<1>12. StrikeKept(v)'
  <2>1. CASE Struck(v)' => Struck(v) /\ orphan'[v] = orphan[v]
    BY <1>0, <1>2, <1>3, <1>9, <2>1, StrikeLasts
  <2>2. CASE orphan'[v] = clock
    <3>1. faults = 0 => clock = due
      BY <1>0, <1>2 DEF OnTime
    <3> QED
      BY <1>2, <1>3, <2>2, <3>1 DEF StrikeKept
  <2>3. CASE PutOrphanRow(v) /\ orphan'[v] = orphan[v]
    <3>1. Struck(v)' => Struck(v) /\ orphan'[v] = orphan[v]
      BY <2>3 DEF PutOrphanRow, Struck, worldVars
    <3> QED
      BY <2>1, <3>1
  <2> QED
    BY <1>6, <2>1, <2>2, <2>3 DEF Calm
<1> QED
  BY <1>6, <1>7, <1>11, <1>12 DEF Histories, Timed

LEMMA ReadTimes ==
  ASSUME JanitorInv, JanitorInv', TimeInv, Reads, NEW v \in Vms
  PROVE  Histories(v)' /\ Timed(v)'
<1>0. /\ WorldTypes /\ SweepTypes /\ SweepTypes' /\ OnTime
      /\ Past(v) /\ SeenRan(v) /\ Counts(v) /\ Timed(v)
  BY DEF JanitorInv, TimeInv, Histories
<1>1. Past(v)' /\ Counts(v)'
  BY <1>0, ReadsReadOnly, Kept DEF worldVars, tableVars
<1>2. SeenRan(v)'
  BY <1>0, SeenRanStep
<1>3. Timed(v)'
  BY <1>0, StartSweepTimes, ListVmsTimes, ScanTableTimes, MapVmsTimes, TakeItemTimes, EndSweepTimes DEF Reads
<1> QED
  BY <1>1, <1>2, <1>3 DEF Histories

LEMMA OnTimeStep ==
  ASSUME JanitorInv, OnTime, [Next]_vars
  PROVE  OnTime'
<1>0. WorldTypes /\ faults \in Nat
  BY Times0 DEF JanitorInv, WorldTypes
<1>1. CASE Tick
  <2>1. /\ sweep' = sweep /\ faults' = faults /\ due' = due + 1
        /\ clock' = (IF sweep \in {"off", "killed"} THEN 0 ELSE clock + 1)
    BY <1>1 DEF Tick, sweepVars
  <2> QED
    BY <2>1 DEF OnTime
<1>2. ASSUME NEW v \in Vms, WorldStep(v) PROVE OnTime'
  <2>1. UNCHANGED <<clock, due, sweepVars>> /\ (faults' = faults \/ faults' = faults + 1)
    BY <1>2 DEF WorldStep, LaunchCold, ClaimWarm, Resume, Arm, Commit, LaunchFails, TerminateOnWebhook,
       UnmapOnWebhook, LaunchPooled, SuspendPooled, Boot, RotateImage, AssignJob, RunnerFinishes,
       RunnerDropped, RotateId, ListCatchesUp, ExpireRow, ExpireWarmClaim, Fault
  <2> QED
    BY <1>0, <2>1 DEF OnTime, sweepVars
<1>3. ASSUME NEW v \in Vms, ReconcileStep(v) PROVE OnTime'
  <2>1. UNCHANGED <<clock, due, sweep>> /\ (faults' = faults \/ faults' = faults + 1)
    BY <1>3 DEF ReconcileStep, LifetimeKill, Unmap, Unstrike, PutOrphanRow,
       RereadTable, OrphanKill, Kill, LoadRunners, JudgeRunner, GetRunner, RelistRunners, WriteRow, Deregister,
       RunnerKill, NoFault, ItemFails, Fault
  <2> QED
    BY <1>0, <2>1 DEF OnTime
<1>4. CASE UNCHANGED vars
  BY <1>4 DEF OnTime, vars, sweepVars
<1>5. CASE StartSweep
  BY <1>5 DEF StartSweep, OnTime
<1>6. CASE ListVms \/ ScanTable \/ TakeItem \/ EndSweep
  <2>1. /\ UNCHANGED <<clock, due>> /\ sweep # "off"
        /\ sweep' # "killed" \/ faults' = faults + 1
        /\ faults' = faults \/ faults' = faults + 1
    BY <1>6 DEF ListVms, ScanTable, TakeItem, EndSweep, SweepEnds, NoFault, Fault
  <2> QED
    BY <1>0, <2>1 DEF OnTime
<1>7. CASE MapVms
  <2>1. faults' = 0 => faults = 0
    <3>1. PICK failed \in SUBSET {u \in Vms : Unlisted(u)} : faults' = faults + Cardinality(failed)
      BY <1>7 DEF MapVms
    <3>2. IsFiniteSet(failed)
      BY SetsAssumption, FS_Subset
    <3>3. Cardinality(failed) \in Nat
      BY <3>2, FS_CardinalityType
    <3> QED
      BY <1>0, <3>1, <3>3
  <2> QED
    BY <1>7, <2>1 DEF MapVms, OnTime
<1> QED
  BY <1>1, <1>2, <1>3, <1>4, <1>5, <1>6, <1>7 DEF Next, SweepStep

LEMMA TimeSteady ==
  ASSUME JanitorInv, TimeInv, [Next]_vars
  PROVE  TimeInv'
<1>0. JanitorInv' /\ (\A v \in Vms : Lasts(v)) /\ OnTime'
  BY Steady, FactsStep, OnTimeStep DEF TimeInv
<1> SUFFICES ASSUME NEW v \in Vms PROVE Histories(v)' /\ Timed(v)'
  BY <1>0 DEF TimeInv
<1>1. CASE Reads
  BY <1>0, <1>1, ReadTimes
<1>2. ASSUME NEW u \in Vms, ReconcileStep(u) PROVE Histories(v)' /\ Timed(v)'
  BY <1>0, <1>2, ReconcileTimes
<1>3. ASSUME NEW u \in Vms, WorldStep(u) PROVE Histories(v)' /\ Timed(v)'
  BY <1>0, <1>3, WorldStepTimes
<1>4. CASE Tick
  <2>1. /\ WorldTypes /\ OnTime /\ Facts(v) /\ Past(v) /\ SeenRan(v) /\ Counts(v) /\ Timed(v)
    BY DEF JanitorInv, WorldFacts, TimeInv, Histories
  <2>2. Past(v)' /\ Counts(v)' /\ Timed(v)'
    BY <1>4, <2>1, TickMoves
  <2>3. vm'[v].state = vm[v].state /\ UNCHANGED sweepVars
    BY <1>4, <2>1, TickEffects
  <2>4. SeenRan(v)'
    BY <2>1, <2>3 DEF SeenRan, Ran, At, sweepVars
  <2> QED
    BY <2>2, <2>4 DEF Histories
<1>5. CASE UNCHANGED vars
  BY <1>5 DEF TimeInv, Histories, Past, SeenRan, Counts, Ran, Committed, Served, Gone, At, Timed, Backstopped,
     StrikeKept, SweepAge, Watched, Struck, Doomed, Pending, OldStrike, Caught, Unseen, vars, worldVars,
     tableVars, sweepVars
<1> QED
  BY <1>1, <1>2, <1>3, <1>4, <1>5 DEF Next, SweepStep, Reads

LEMMA TimeInit == Init => TimeInv
<1> SUFFICES ASSUME Init PROVE TimeInv
  OBVIOUS
<1>1. OnTime
  BY DEF Init, OnTime
<1>2. ASSUME NEW v \in Vms PROVE Histories(v) /\ Timed(v)
  BY DEF Init, Histories, Past, SeenRan, Counts, Ran, Committed, Served, Gone, At, Timed, Backstopped,
     StrikeKept, Watched, Struck, NoRow, NoItem, Unread
<1> QED
  BY <1>1, <1>2 DEF TimeInv

THEOREM TimeInvariant == Spec => [](JanitorInv /\ TimeInv)
<1>1. Init => JanitorInv /\ TimeInv
  BY InitInv, TimeInit
<1>2. (JanitorInv /\ TimeInv) /\ [Next]_vars => (JanitorInv /\ TimeInv)'
  BY Steady, TimeSteady
<1> QED
  BY <1>1, <1>2, PTL DEF Spec

(***************************************************************************)
(* While no call fails, the sweep after an orphan strike settles it: the   *)
(* cold VM is reaped or the strike withdrawn, however early or late the    *)
(* schedule fires within its slack.                                        *)
(***************************************************************************)
THEOREM StrikesSettle == Spec => []StrikeSettledByNextSweep
<1>1. JanitorInv /\ TimeInv => StrikeSettledByNextSweep
  <2> SUFFICES ASSUME JanitorInv, TimeInv, NEW v \in Vms \ Pool,
                      faults = 0, vm[v].state = "running", orphan[v] # None
      PROVE  orphan[v] <= Interval + Jitter + SweepTime
    BY DEF StrikeSettledByNextSweep
  <2>1. /\ orphan[v] \in 0..MaxAge /\ due \in 0..(Interval + Jitter) /\ clock \in 0..SweepTime
        /\ Interval \in Nat /\ Jitter \in Nat /\ SweepTime \in Nat /\ MaxAge \in Nat
    BY Times0 DEF JanitorInv, WorldTypes, Times, Ages
  <2>2. CASE MaxAge <= Interval + Jitter + SweepTime
    BY <2>1, <2>2
  <2>3. CASE MaxAge > Interval + Jitter + SweepTime
    <3>1. orphan[v] = due \/ OldStrike(v)
      BY <2>3 DEF TimeInv, Timed, StrikeKept, Struck
    <3> QED
      BY <2>1, <3>1 DEF OldStrike
  <2> QED
    BY <2>1, <2>2, <2>3
<1> QED
  BY <1>1, TimeInvariant, PTL

(***************************************************************************)
(* While no call fails, no VM serves one job longer than the lifetime cap  *)
(* and the time to the end of the next sweep: the backstop is real for     *)
(* warm VMs and cold ones, rows and claims that expire, images that are    *)
(* replaced.                                                               *)
(***************************************************************************)
THEOREM JobsEnd == Spec => []BackstopHolds
<1>1. JanitorInv /\ TimeInv => BackstopHolds
  <2> SUFFICES ASSUME JanitorInv, TimeInv, NEW v \in Vms, faults = 0, Watched(v)
      PROVE  job[v].age <= LaunchTime + LifetimeCap + Interval + Jitter + SweepTime
    BY DEF BackstopHolds, Watched
  <2>1. /\ job[v].age \in Nat /\ due \in 0..(Interval + Jitter) /\ clock \in 0..SweepTime
        /\ Interval \in Nat /\ Jitter \in Nat /\ SweepTime \in Nat
        /\ LaunchTime \in Nat /\ LifetimeCap \in Nat
    BY Fields, Times0 DEF JanitorInv, WorldTypes
  <2>2. \/ job[v].age <= Late + SweepAge
        \/ job[v].age <= Late + Interval + Jitter + clock
    BY DEF TimeInv, Timed, Backstopped
  <2> QED
    BY <2>1, <2>2 DEF Late, SweepAge
<1> QED
  BY <1>1, TimeInvariant, PTL

=============================================================================
