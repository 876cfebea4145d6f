------------------------------- MODULE Recovery -------------------------------
(***************************************************************************)
(* Stuck-launch recovery (src/handlers/janitor.ts, recoverStuckLaunches):  *)
(* a just-in-time launch answers one announcement, so a launch that comes  *)
(* to nothing leaves its job queued with nobody to ask again.  A sweep     *)
(* recovers such jobs in three places: committed claims whose VM is gone,  *)
(* VMs reaped because their runner never registered, and launches on the   *)
(* dead-letter queue.                                                      *)
(*                                                                         *)
(* The module composes the sweep, one action per awaited call, with the    *)
(* two queues, the launcher reduced to what it does to claims and messages *)
(* (Launcher has its detail), the VMs and GitHub's view of the jobs.       *)
(***************************************************************************)
EXTENDS Integers, FiniteSets, Bags

CONSTANTS
  Jobs,          \* the jobs, numbered in the order a table scan returns their claims
  Vms,           \* MicroVM ids, used again once nothing refers to them
  NoVm,          \* microvmId of a claim that is not there
  MaxRelaunches, \* MAX_UNREGISTERED_RELAUNCH_ATTEMPTS
  ClaimCap,      \* COMMITTED_CLAIM_RECONCILE_CAP
  DlqCap,        \* DLQ_RECOVERY_BATCH_CAP
  ClaimLife,     \* sweeps begun between the end of a claim's VM and the claim's expiry
  MaxFaults      \* bound: how many calls fail or sweeps are killed

ASSUME JobsAssumption == Jobs \subseteq Nat \ {0} /\ IsFiniteSet(Jobs) /\ NoVm \notin Vms
ASSUME LimitsAssumption ==
  /\ {ClaimCap, DlqCap, ClaimLife} \subseteq Nat \ {0}
  /\ {MaxRelaunches, MaxFaults} \subseteq Nat

VARIABLES
  github,    \* each job's status, with what a completed job was
  queue,     \* the job queue, a bag of launch messages
  dlq,       \* the dead-letter queue
  claim,     \* the job# rows
  vm,        \* each VM's state, its runner, and the job it runs
  row,       \* each VM's mapping row: its job, and whether it bears a strike
  launch,    \* the message an invocation is launching the VM for
  exhausted, \* jobs whose relaunch bound has been raised
  sweep,     \* the phase of the sweep
  snap,      \* the VM list and the table scan of the sweep
  todo,      \* the claims, rows and dead letters still to handle
  item,      \* the one being handled
  faults,    \* faults spent
  lost       \* jobs whose claim a sweep deleted, with nothing sent or restored (history)

worldVars == <<github, queue, claim, vm, row, launch>>
sweepVars == <<sweep, snap, todo, item>>
vars == <<worldVars, dlq, exhausted, sweepVars, faults, lost>>

Message(j, n) == [job |-> j, relaunch |-> n]
NoMessage == Message(0, 0)
Messages == [job : Jobs, relaunch : 0..MaxRelaunches]
One(m) == SetToBag({m})

FreeClaim == [state |-> "none", vm |-> NoVm, relaunch |-> 0, age |-> 0]
NoRow == [job |-> 0, struck |-> FALSE]
NewVm == [state |-> "running", runner |-> "absent", job |-> 0]
Ended == [state |-> "ended", runner |-> "absent", job |-> 0]
NoSnap == [running |-> {}, claim |-> [j \in Jobs |-> FreeClaim], row |-> [v \in Vms |-> NoRow]]
NoTodo == [claims |-> {}, rows |-> {}, letters |-> EmptyBag]
Item(rule, step, j, v, m) == [rule |-> rule, step |-> step, job |-> j, vm |-> v, letter |-> m]
NoItem == Item("none", "none", 0, NoVm, NoMessage)

Committed(c) == c.state = "committed"
Running(v) == vm[v].state = "running"
Launching(v) == launch[v] # NoMessage
Holds(v) == claim[launch[v].job].state = "pending" /\ claim[launch[v].job].vm = v

(***************************************************************************)
(* A call that fails may have taken effect all the same: its answer was    *)
(* lost.  Answered is for the last call of a step, which has its effect.   *)
(***************************************************************************)
NoFault == faults' = faults
Fault == faults < MaxFaults /\ faults' = faults + 1
TwoFaults == faults + 1 < MaxFaults /\ faults' = faults + 2
Answered == NoFault \/ Fault

At(rule, step) == item.rule = rule /\ item.step = step
Step(s) == item' = [item EXCEPT !.step = s]
Done == item' = NoItem

\* A relaunch between its delete and its send or restore.
Resending == item.rule \in {"claim", "row"} /\ item.step \in {"send", "restore"}

\* The claim a relaunch was decided on: as the sweep scanned it.
Scanned == snap.claim[item.job]

\* deleteRow of the claim is unconditional: whatever the claim is by now.
ClaimDeleted == claim' = [claim EXCEPT ![item.job] = FreeClaim]

\* The sweep drops the job it has in hand, and with it what it knew of its claim.
Stranded == lost' = lost \cup {item.job}

-----------------------------------------------------------------------------
(* Plausible bugs, each a changed form of a definition further down.       *)

RelaunchedUncounted(c) == c.relaunch

AtBoundLate(c) == c.relaunch > MaxRelaunches

SendLetterAfterDelete ==
  /\ At("letter", "send")
  /\ \/ dlq' = dlq (-) One(item.letter) /\ queue' = queue (+) One(item.letter) /\ NoFault
     \/ dlq' = dlq (-) One(item.letter) /\ UNCHANGED queue /\ Fault
  /\ Done
  /\ UNCHANGED <<github, claim, vm, row, launch, exhausted, sweep, snap, todo, lost>>

RestoreSkipped ==
  /\ item.step = "restore" /\ Done /\ NoFault
  /\ UNCHANGED <<worldVars, dlq, exhausted, sweep, snap, todo, lost>>

-----------------------------------------------------------------------------
Init ==
  /\ github = [j \in Jobs |-> "none"]
  /\ queue = EmptyBag /\ dlq = EmptyBag
  /\ claim = [j \in Jobs |-> FreeClaim]
  /\ vm = [v \in Vms |-> Ended]
  /\ row = [v \in Vms |-> NoRow]
  /\ launch = [v \in Vms |-> NoMessage]
  /\ exhausted = {}
  /\ sweep = "off" /\ snap = NoSnap /\ todo = NoTodo /\ item = NoItem
  /\ faults = 0 /\ lost = {}

-----------------------------------------------------------------------------
(* The webhook, the queue and the launcher.                                *)

\* The webhook enqueues the one launch message of a queued job.
Announce(j) ==
  /\ github[j] = "none"
  /\ github' = [github EXCEPT ![j] = "queued"]
  /\ queue' = queue (+) One(Message(j, 0))
  /\ UNCHANGED <<claim, vm, row, launch, dlq, exhausted, sweepVars, faults, lost>>

(***************************************************************************)
(* A failed record becomes visible again or, the maxReceiveCount'th time,  *)
(* moves to the dead-letter queue.  The count is left out: either may come.*)
(***************************************************************************)
Redrive(m, q) ==
  \/ queue' = q (+) One(m) /\ UNCHANGED dlq
  \/ queue' = q /\ dlq' = dlq (+) One(m)

\* The look at the job before a launch; one that fails launches all the same.
StillWanted(j) ==
  \/ github[j] # "cancelled" /\ NoFault
  \/ github[j] = "cancelled" /\ Fault

\* A cancelled job is skipped; a committed claim makes the message a duplicate.
DropMessage(j) ==
  /\ \E m \in BagToSet(queue) : m.job = j /\ queue' = queue (-) One(m)
  /\ github[j] = "cancelled" \/ Committed(claim[j])
  /\ UNCHANGED <<github, claim, vm, row, launch, dlq, exhausted, sweepVars, faults, lost>>

\* A claim another invocation is holding: RetryLaterError.
Contend(j) ==
  /\ StillWanted(j)
  /\ claim[j].state = "pending" /\ Launching(claim[j].vm)
  /\ \E m \in BagToSet(queue) : m.job = j /\ Redrive(m, queue (-) One(m))
  /\ UNCHANGED <<github, claim, vm, row, launch, exhausted, sweepVars, lost>>

\* An id job j's new VM may have: nothing else refers to it.  Ids are interchangeable.
Unused(v, j) ==
  /\ ~Running(v) /\ ~Launching(v) /\ item.vm # v /\ v \notin snap.running
  /\ \A k \in Jobs : (k # j => claim[k].vm # v) /\ snap.claim[k].vm # v

\* The claim is won, or taken over from a dead holder, and a VM launched.
Acquire(j) ==
  /\ StillWanted(j)
  /\ ~Committed(claim[j]) /\ (claim[j].state = "pending" => ~Launching(claim[j].vm))
  /\ \E v \in Vms : Unused(v, j)
  /\ \E m \in BagToSet(queue) : LET v == CHOOSE u \in Vms : Unused(u, j) IN
       /\ m.job = j
       /\ queue' = queue (-) One(m)
       /\ claim' = [claim EXCEPT ![j] =
            [state |-> "pending", vm |-> v, relaunch |-> m.relaunch, age |-> 0]]
       /\ vm' = [vm EXCEPT ![v] = NewVm]
       /\ row' = [row EXCEPT ![v] = NoRow]
       /\ launch' = [launch EXCEPT ![v] = m]
  /\ UNCHANGED <<github, dlq, exhausted, sweepVars, lost>>

\* commitLaunch's two writes: the mapping row and the claim's VM.
Mapped(v) == row' = [row EXCEPT ![v] = [NoRow EXCEPT !.job = launch[v].job]]
CommitWrites(v) ==
  Mapped(v) /\ claim' = [claim EXCEPT ![launch[v].job].state = "committed"]

\* They are made while the claim is ours.
Commit(v) ==
  /\ Launching(v) /\ Holds(v) /\ CommitWrites(v)
  /\ launch' = [launch EXCEPT ![v] = NoMessage]
  /\ UNCHANGED <<github, queue, vm, dlq, exhausted, sweepVars, faults, lost>>

(***************************************************************************)
(* The launch fails, or its claim is no longer its own when it commits:    *)
(* the VM is terminated, the claim released if it is ours, and the message *)
(* goes back.  A killed invocation does neither of the first two.  A       *)
(* commit may have been made and not heard of: then the claim is released  *)
(* all the same, or, with the terminate failing too, stays committed.      *)
(* (One that fails before its claim differs only by the VM.)               *)
(***************************************************************************)
FailLaunch(v) ==
  /\ Launching(v)
  /\ \/ /\ Holds(v) /\ Fault
        /\ vm' = [vm EXCEPT ![v] = Ended]
        /\ claim' = [claim EXCEPT ![launch[v].job] = FreeClaim]
        /\ UNCHANGED row \/ Mapped(v)
     \/ Holds(v) /\ Fault /\ UNCHANGED <<vm, claim, row>>
     \/ Holds(v) /\ TwoFaults /\ UNCHANGED vm /\ CommitWrites(v)
     \/ /\ ~Holds(v) /\ NoFault
        /\ vm' = [vm EXCEPT ![v] = Ended]
        /\ UNCHANGED <<claim, row>>
  /\ Redrive(launch[v], queue)
  /\ launch' = [launch EXCEPT ![v] = NoMessage]
  /\ UNCHANGED <<github, exhausted, sweepVars, lost>>

-----------------------------------------------------------------------------
(* VMs and GitHub.                                                         *)

Register(v) ==
  /\ Running(v) /\ vm[v].runner = "absent"
  /\ vm' = [vm EXCEPT ![v].runner = "idle"]
  /\ UNCHANGED <<github, queue, claim, row, launch, dlq, exhausted, sweepVars, faults, lost>>

\* Runners are a pool: an idle one takes whichever job is queued.
TakeJob(v) ==
  /\ Running(v) /\ vm[v].runner = "idle"
  /\ \E j \in Jobs :
       /\ github[j] = "queued"
       /\ github' = [github EXCEPT ![j] = "in_progress"]
       /\ vm' = [vm EXCEPT ![v].runner = "busy", ![v].job = j]
  /\ UNCHANGED <<queue, claim, row, launch, dlq, exhausted, sweepVars, faults, lost>>

\* The job ends, and with it the runner's VM.
FinishJob(v) ==
  /\ vm[v].runner = "busy"
  /\ github' = [github EXCEPT ![vm[v].job] = "served"]
  /\ vm' = [vm EXCEPT ![v] = Ended]
  /\ UNCHANGED <<queue, claim, row, launch, dlq, exhausted, sweepVars, faults, lost>>

\* A VM dies before it has a job, or is reaped as an orphan or at its lifetime.
VmEnds(v) ==
  /\ Running(v) /\ vm[v].runner # "busy"
  /\ vm' = [vm EXCEPT ![v] = Ended]
  /\ UNCHANGED <<github, queue, claim, row, launch, dlq, exhausted, sweepVars, faults, lost>>

\* Among them the orphans a killed launch leaves, which the orphan rule reaps.
OrphanEnds(v) == VmEnds(v) /\ row[v] = NoRow /\ ~Launching(v)

Cancel(j) ==
  /\ github[j] = "queued"
  /\ github' = [github EXCEPT ![j] = "cancelled"]
  /\ UNCHANGED <<queue, claim, vm, row, launch, dlq, exhausted, sweepVars, faults, lost>>

\* expiresAt: a claim outlives its VM by ClaimLife sweeps.
ExpireClaim(j) ==
  /\ Committed(claim[j]) /\ claim[j].age = ClaimLife
  /\ claim' = [claim EXCEPT ![j] = FreeClaim]
  /\ UNCHANGED <<github, queue, vm, row, launch, dlq, exhausted, sweepVars, faults, lost>>

-----------------------------------------------------------------------------
(* The sweep's reads, and its end.                                         *)

(***************************************************************************)
(* A sweep begins with the VM list; the claims of ended VMs are one sweep  *)
(* older.  A row whose VM is not on the list is never taken: it is dropped *)
(* here, where the code leaves it to its expiresAt.                        *)
(***************************************************************************)
ListVms ==
  /\ sweep = "off" /\ sweep' = "scan"
  /\ snap' = [snap EXCEPT !.running = {v \in Vms : Running(v)}]
  /\ claim' = [j \in Jobs |->
       IF Committed(claim[j]) /\ ~Running(claim[j].vm) /\ claim[j].age < ClaimLife
         THEN [claim[j] EXCEPT !.age = @ + 1] ELSE claim[j]]
  /\ row' = [v \in Vms |-> IF Running(v) THEN row[v] ELSE NoRow]
  /\ UNCHANGED <<github, queue, vm, launch, dlq, exhausted, todo, item, faults, lost>>

\* The committed claims a sweep probes: the first ClaimCap in scan order.
WithinCap(j) ==
  /\ Committed(claim[j])
  /\ Cardinality({k \in Jobs : k < j /\ Committed(claim[k])}) < ClaimCap

\* After the claims, the rows whose VM was listed RUNNING, in any order.
ScanTable ==
  /\ sweep = "scan" /\ sweep' = "table"
  /\ snap' = [snap EXCEPT !.claim = claim, !.row = row]
  /\ todo' = [todo EXCEPT !.claims = {j \in Jobs : WithinCap(j)},
                          !.rows = {v \in snap.running : row[v] # NoRow}]
  /\ UNCHANGED <<worldVars, dlq, exhausted, item, faults, lost>>

(***************************************************************************)
(* Then the dead letters, up to the cap, in whichever order the queue      *)
(* gives them.  A received letter is hidden, not gone.  One that arrives   *)
(* while a sweep is at its letters is left to the next sweep.              *)
(***************************************************************************)
Pulls ==
  {b \in UNION {[D -> 1..DlqCap] : D \in SUBSET BagToSet(dlq)} :
     /\ b \sqsubseteq dlq
     /\ BagCardinality(b) = DlqCap \/ (b = dlq /\ BagCardinality(b) < DlqCap)}

TableDone ==
  /\ sweep = "table" /\ todo.claims = {} /\ todo.rows = {} /\ item = NoItem
  /\ sweep' = "letters"
  /\ \E b \in Pulls : todo' = [todo EXCEPT !.letters = b]
  /\ snap' = NoSnap
  /\ UNCHANGED <<worldVars, dlq, exhausted, item, faults, lost>>

SweepOver ==
  /\ sweep' = "off" /\ snap' = NoSnap /\ todo' = NoTodo /\ item' = NoItem
  /\ UNCHANGED <<worldVars, dlq, exhausted>>

EndSweep ==
  /\ sweep = "letters" /\ todo.letters = EmptyBag /\ item = NoItem
  /\ SweepOver /\ NoFault /\ UNCHANGED lost

KillSweep ==
  /\ sweep # "off" /\ SweepOver /\ Fault
  /\ lost' = IF Resending THEN lost \cup {item.job} ELSE lost

\* The catch around an item: a read that fails leaves it for a later sweep.
ProbeJobFails ==
  /\ item.step = "probeJob" /\ Fault /\ Done
  /\ UNCHANGED <<worldVars, dlq, exhausted, sweep, snap, todo, lost>>

-----------------------------------------------------------------------------
(* Committed claims: reconcileCommittedClaim.                              *)

\* The next claim's VM, read afresh.
ProbeClaimVm ==
  /\ sweep = "table" /\ item = NoItem
  /\ \E j \in todo.claims :
       /\ \A k \in todo.claims : j <= k
       /\ todo' = [todo EXCEPT !.claims = @ \ {j}]
       /\ \/ UNCHANGED item /\ Fault
          \/ Running(snap.claim[j].vm) /\ UNCHANGED item /\ NoFault
          \/ /\ ~Running(snap.claim[j].vm) /\ NoFault
             /\ item' = Item("claim", "probeJob", j, snap.claim[j].vm, NoMessage)
  /\ UNCHANGED <<worldVars, dlq, exhausted, sweep, snap, lost>>

\* The bound on the relaunches of one job, counted by its claims and messages.
AtBound(c) == c.relaunch >= MaxRelaunches

\* At the bound the claim is released and the exhaustion raised.
ProbeClaimedJob ==
  /\ At("claim", "probeJob") /\ NoFault
  /\ \/ github[item.job] # "queued" /\ Done
     \/ github[item.job] = "queued" /\ ~AtBound(Scanned) /\ Step("delete")
     \/ github[item.job] = "queued" /\ AtBound(Scanned) /\ Step("release")
  /\ UNCHANGED <<worldVars, dlq, exhausted, sweep, snap, todo, lost>>

\* The delete throws past the metric and the error: a release that loses its answer is silent.
ReleaseClaim ==
  /\ At("claim", "release") /\ Done
  /\ \/ ClaimDeleted /\ NoFault /\ exhausted' = exhausted \cup {item.job} /\ UNCHANGED lost
     \/ ClaimDeleted /\ Fault /\ Stranded /\ UNCHANGED exhausted
     \/ UNCHANGED <<claim, exhausted, lost>> /\ Fault
  /\ UNCHANGED <<github, queue, vm, row, launch, dlq, sweep, snap, todo>>

-----------------------------------------------------------------------------
(* The relaunch both rules share: delete the claim, send, or restore it.   *)

(***************************************************************************)
(* The delete is outside the try whose catch restores the claim: one that  *)
(* takes effect and loses its answer leaves neither claim nor message.     *)
(***************************************************************************)
DeleteClaim ==
  /\ item.step = "delete"
  /\ \/ ClaimDeleted /\ NoFault /\ Step("send") /\ UNCHANGED lost
     \/ ClaimDeleted /\ Fault /\ Done /\ Stranded
     \/ UNCHANGED <<claim, lost>> /\ Fault /\ Done
  /\ UNCHANGED <<github, queue, vm, row, launch, dlq, exhausted, sweep, snap, todo>>

Relaunched(c) == c.relaunch + 1

\* A send that fails may have put the message on the queue all the same.
SendRelaunch ==
  LET sent == queue (+) One(Message(item.job, Relaunched(Scanned))) IN
  /\ item.rule \in {"claim", "row"} /\ item.step = "send"
  /\ \/ queue' = sent /\ NoFault /\ Done
     \/ queue' \in {queue, sent} /\ Fault /\ Step("restore")
  /\ UNCHANGED <<github, claim, vm, row, launch, dlq, exhausted, sweep, snap, todo, lost>>

\* An unconditional put of the claim as it was scanned.
RestoreClaim ==
  /\ item.step = "restore" /\ Done
  /\ \/ claim' = [claim EXCEPT ![item.job] = Scanned] /\ Answered /\ UNCHANGED lost
     \/ UNCHANGED claim /\ Fault /\ Stranded
  /\ UNCHANGED <<github, queue, vm, row, launch, dlq, exhausted, sweep, snap, todo>>

-----------------------------------------------------------------------------
(* Mapping rows: the two strikes and reaps of rules 1 to 3, in outline.    *)

Registered(v) == vm[v].runner \in {"idle", "busy"}
Deregistered(v) == vm' = [vm EXCEPT ![v].runner = "gone"]
VmEnded(v) == vm' = [vm EXCEPT ![v] = Ended]
RowDeleted(v) == row' = [row EXCEPT ![v] = NoRow]
Strike(v, b) == row' = IF row[v] = NoRow THEN row ELSE [row EXCEPT ![v].struck = b]

(***************************************************************************)
(* The next row's runner, read afresh, with the strike it earns or loses:  *)
(* an idle runner loses it while its VM is young.  Struck by the sweep     *)
(* before, an idle runner is deregistered, its VM terminated and its row   *)
(* deleted, unless one of the three fails; an absent one leads to the      *)
(* terminate and the relaunch below.                                       *)
(***************************************************************************)
JudgeRow ==
  /\ sweep = "table" /\ todo.claims = {} /\ item = NoItem
  /\ \E v \in todo.rows :
       /\ todo' = [todo EXCEPT !.rows = @ \ {v}]
       /\ \/ Fault /\ UNCHANGED <<vm, row, item>>
          \/ Registered(v) /\ Strike(v, FALSE) /\ Answered /\ UNCHANGED <<vm, item>>
          \/ /\ vm[v].runner # "busy" /\ ~snap.row[v].struck
             /\ Strike(v, TRUE) /\ Answered /\ UNCHANGED <<vm, item>>
          \/ /\ vm[v].runner = "idle" /\ snap.row[v].struck /\ UNCHANGED item
             /\ \/ VmEnded(v) /\ RowDeleted(v) /\ Answered
                \/ (VmEnded(v) \/ Deregistered(v)) /\ UNCHANGED row /\ Fault
          \/ /\ ~Registered(v) /\ snap.row[v].struck
             /\ item' = Item("row", "terminate", snap.row[v].job, v, NoMessage)
             /\ NoFault /\ UNCHANGED <<vm, row>>
  /\ UNCHANGED <<github, queue, claim, launch, dlq, exhausted, sweep, snap, lost>>

(***************************************************************************)
(* Rule 1: terminate and delete the row, then relaunchUnregisteredJob: its *)
(* guards are that the scanned claim names the reaped VM, and the bound.   *)
(* Either call that fails keeps the sweep from it, and leaves the claim.   *)
(***************************************************************************)
Reap ==
  LET owned == Committed(Scanned) /\ Scanned.vm = item.vm IN
  /\ At("row", "terminate")
  /\ \/ UNCHANGED vm /\ UNCHANGED row /\ Fault /\ Done /\ UNCHANGED exhausted
     \/ /\ VmEnded(item.vm) /\ (UNCHANGED row \/ RowDeleted(item.vm))
        /\ Fault /\ Done /\ UNCHANGED exhausted
     \/ /\ VmEnded(item.vm) /\ RowDeleted(item.vm) /\ NoFault
        /\ \/ ~owned /\ Done /\ UNCHANGED exhausted
           \/ owned /\ AtBound(Scanned) /\ Done /\ exhausted' = exhausted \cup {item.job}
           \/ owned /\ ~AtBound(Scanned) /\ Step("probeJob") /\ UNCHANGED exhausted
  /\ UNCHANGED <<github, queue, claim, launch, dlq, sweep, snap, todo, lost>>

ProbeReapedJob ==
  /\ At("row", "probeJob") /\ NoFault
  /\ IF github[item.job] = "queued" THEN Step("delete") ELSE Done
  /\ UNCHANGED <<worldVars, dlq, exhausted, sweep, snap, todo, lost>>

-----------------------------------------------------------------------------
(* Dead letters: recoverOneStuckLaunch.                                    *)

\* The next letter, with its job's status; a read that fails leaves the letter.
ProbeLetter ==
  /\ sweep = "letters" /\ item = NoItem
  /\ \E m \in BagToSet(todo.letters) :
       /\ todo' = [todo EXCEPT !.letters = @ (-) One(m)]
       /\ \/ UNCHANGED item /\ Fault
          \/ /\ NoFault
             /\ item' = Item("letter", IF github[m.job] = "queued" THEN "send" ELSE "discard",
                             m.job, NoVm, m)
  /\ UNCHANGED <<worldVars, dlq, exhausted, sweep, snap, lost>>

\* Send, then delete: a letter is never gone before its copy is queued.
SendLetter ==
  LET sent == queue (+) One(item.letter) IN
  /\ At("letter", "send")
  /\ \/ queue' = sent /\ NoFault /\ Step("discard")
     \/ queue' \in {queue, sent} /\ Fault /\ Done
  /\ UNCHANGED <<github, claim, vm, row, launch, dlq, exhausted, sweep, snap, todo, lost>>

DeleteLetter ==
  /\ At("letter", "discard") /\ Done
  /\ \/ dlq' = dlq (-) One(item.letter) /\ Answered
     \/ UNCHANGED dlq /\ Fault
  /\ UNCHANGED <<worldVars, exhausted, sweep, snap, todo, lost>>

-----------------------------------------------------------------------------
Deliver(j) == DropMessage(j) \/ Contend(j) \/ Acquire(j)

SweepStep ==
  \/ ListVms \/ ScanTable \/ TableDone \/ EndSweep
  \/ ProbeClaimVm \/ ProbeClaimedJob \/ ReleaseClaim
  \/ DeleteClaim \/ SendRelaunch \/ RestoreClaim
  \/ JudgeRow \/ Reap \/ ProbeReapedJob \/ ProbeJobFails
  \/ ProbeLetter \/ SendLetter \/ DeleteLetter

Next ==
  \/ \E j \in Jobs : Announce(j) \/ Cancel(j) \/ ExpireClaim(j) \/ Deliver(j)
  \/ \E v \in Vms :
       \/ Commit(v) \/ FailLaunch(v)
       \/ Register(v) \/ TakeJob(v) \/ FinishJob(v) \/ VmEnds(v)
  \/ SweepStep \/ KillSweep

Fairness ==
  /\ WF_vars(SweepStep)
  /\ \A j \in Jobs : WF_vars(Deliver(j))
  /\ \A v \in Vms : WF_vars(Commit(v) \/ FailLaunch(v)) /\ WF_vars(TakeJob(v))
                     /\ WF_vars(FinishJob(v)) /\ WF_vars(OrphanEnds(v))

Spec == Init /\ [][Next]_vars
FairSpec == Spec /\ Fairness

-----------------------------------------------------------------------------
(* Properties.                                                             *)

\* Every variable has the shape the code gives it, and no counter passes its bound.
TypeOK ==
  /\ github \in [Jobs -> {"none", "queued", "in_progress", "served", "cancelled"}]
  /\ BagToSet(queue) \cup BagToSet(dlq) \cup BagToSet(todo.letters) \subseteq Messages
  /\ claim \in [Jobs -> [state : {"none", "pending", "committed"}, vm : Vms \cup {NoVm},
                         relaunch : 0..MaxRelaunches, age : 0..ClaimLife]]
  /\ vm \in [Vms -> [state : {"running", "ended"},
                     runner : {"absent", "idle", "busy", "gone"}, job : Jobs \cup {0}]]
  /\ row \in [Vms -> [job : Jobs \cup {0}, struck : BOOLEAN]]
  /\ launch \in [Vms -> Messages \cup {NoMessage}]
  /\ exhausted \subseteq Jobs
  /\ sweep \in {"off", "scan", "table", "letters"}
  /\ todo.claims \subseteq Jobs /\ todo.rows \subseteq Vms
  /\ item.rule \in {"none", "claim", "row", "letter"} /\ item.vm \in Vms \cup {NoVm}
  /\ faults \in 0..MaxFaults /\ lost \subseteq Jobs

\* What will still see to job j: a message, a launch, a claim, a relaunch under way.
Tracked(j) ==
  \/ \E m \in BagToSet(queue) \cup BagToSet(dlq) : m.job = j
  \/ \E v \in Vms : launch[v].job = j
  \/ Committed(claim[j])
  \/ item.job = j /\ Resending

(***************************************************************************)
(* recoverStuckLaunches loses a job in no other way than these: however    *)
(* launches, deletes, sends and restores interleave and whichever calls    *)
(* fail, with or without effect, a queued job that was not given up has    *)
(* something that will see to it, unless a sweep deleted its claim and     *)
(* then did not hear of the delete, was killed before the send, or failed  *)
(* both to send and to restore; and a failure costs no more than one job.  *)
(* The code concedes the last of the three only: OneFailureStrandsNobody,  *)
(* below, is about the others.                                             *)
(***************************************************************************)
QueuedJobIsTracked ==
  /\ \A j \in Jobs :
       github[j] = "queued" /\ j \notin exhausted \cup lost => Tracked(j)
  /\ Cardinality(lost) <= faults

(***************************************************************************)
(* And it is seen to: a queued job gets a runner, is cancelled, or is      *)
(* given up aloud after a bounded number of relaunches, but for the three  *)
(* failures above.  Neither a runner that never registers nor a VM that    *)
(* dies keeps it queued for ever.                                          *)
(***************************************************************************)
QueuedJobIsResolved ==
  \A j \in Jobs :
    github[j] = "queued" ~> (github[j] # "queued" \/ j \in exhausted \cup lost)

-----------------------------------------------------------------------------
(* What the documents say and the code does not keep.                      *)

(***************************************************************************)
(* "Only a send-AND-restore double failure strands": after one failing     *)
(* call or killed sweep no queued job is without something that will see   *)
(* to it, if it was not given up aloud.                                    *)
(***************************************************************************)
OneFailureStrandsNobody ==
  faults <= 1 => \A j \in Jobs : github[j] = "queued" /\ j \notin exhausted => Tracked(j)

(***************************************************************************)
(* "A larger backlog drains across sweeps": a committed claim whose VM is  *)
(* gone and whose job is queued is relaunched or given up, even when there *)
(* are more claims than one sweep probes.                                  *)
(***************************************************************************)
BacklogDrains ==
  \A j \in Jobs :
    (Committed(claim[j]) /\ ~Running(claim[j].vm) /\ github[j] = "queued")
      ~> (github[j] # "queued" \/ j \in exhausted)

(***************************************************************************)
(* "NO DOUBLE LAUNCH": a job is never relaunched under a launch that       *)
(* already owns it.                                                        *)
(***************************************************************************)
Serving(j) == {v \in Vms : Running(v) /\ row[v].job = j}

NoDoubleLaunch == \A j \in Jobs : Cardinality(Serving(j)) <= 1

=============================================================================
