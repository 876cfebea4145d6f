-------------------------- MODULE LauncherVms_proofs --------------------------
(***************************************************************************)
(* The MicroVMs of the launcher, for every value of the constants: one     *)
(* live VM per job, a claim that outlives the VM it names, and a pooled VM *)
(* that serves one launch.                                                 *)
(***************************************************************************)
EXTENDS Launcher_proofs, FiniteSetTheorems

-----------------------------------------------------------------------------
(* The invariant.                                                          *)

\* The attempts at work on the VM that vmOf names.
WarmWorkPcs == {"resume", "warmJit", "warmPush", "warmCommit", "warmFail"}
ColdWorkPcs == {"push", "commit", "compensate"}

Started(v) == vm[v].state \notin {"none", "suspended"}

PoolVms ==
  \A v \in Vms :
    /\ v \in Pool => vm[v].state # "none"
    /\ vm[v].state = "suspended" => v \in Pool

\* A warm VM is its launch's for as long as the launch may run.
WarmOwned ==
  \A a \in Attempts :
    pc[a] \in WarmWorkPcs =>
      /\ vmOf[a] \in Pool /\ vm[vmOf[a]].owner = a
      /\ vm[vmOf[a]].since = local[a].stamp
      /\ warmClaim[vmOf[a]] = local[a].stamp + WarmClaimTtl
      /\ VmCanServe(a, vmOf[a])

ColdOwned ==
  \A a \in Attempts :
    pc[a] \in ColdWorkPcs =>
      /\ vmOf[a] \in Vms \ Pool /\ Started(vmOf[a]) /\ vm[vmOf[a]].owner = a
      /\ vm[vmOf[a]].born <= local[a].stamp + LambdaTimeout

\* What was suspended when it was listed, and has been resumed since, is claimed.
CandidatesHeld ==
  \A a \in Attempts :
    pc[a] = "claimWarm" =>
      \A v \in local[a].cands :
        v \in Pool /\ (Alive(v) => warmClaim[v] > local[a].start + LambdaTimeout)

ArmedOnce ==
  \A v \in Vms :
    /\ ~Started(v) => vm[v].armed = {}
    /\ Alive(v) => vm[v].armed \subseteq {vm[v].owner}
    /\ \A a, b \in vm[v].armed : a = b

CommitReady ==
  \A a \in Attempts :
    /\ pc[a] \in {"commit", "warmCommit"} => a \in vm[vmOf[a]].armed
    /\ pc[a] = "warmCommit" => local[a].pushed

OwnersRan ==
  \A v \in Vms :
    vm[v].owner \in Attempts => pc[vm[v].owner] \in HoldPcs \cup {"launched", "failed", "dead"}

\* The claim of a's job names v, and will for as long as v exists.
Sealed(a, v) ==
  /\ OwnsClaim(a) /\ claim[jobOf[a]].vm = v
  /\ now < claim[jobOf[a]].expiresAt /\ Deadline(v) < claim[jobOf[a]].expiresAt

LaunchedSealed ==
  \A a \in Attempts :
    pc[a] = "launched" =>
      /\ vmOf[a] \in Vms /\ a \in vm[vmOf[a]].armed
      /\ Alive(vmOf[a]) => Sealed(a, vmOf[a])

\* A mapped launch that still runs has lost its commit's answer.
MappedSealed ==
  \A a \in Attempts :
    mapping[a] # NoVm =>
      /\ a \in vm[mapping[a]].armed
      /\ pc[a] \notin {"idle"} \cup ClaimPcs
      /\ Alive(mapping[a]) =>
           /\ Sealed(a, mapping[a])
           /\ Holding(a) => /\ vmOf[a] = mapping[a]
                            /\ pc[a] = "compensate" \/ (pc[a] = "warmFail" /\ local[a].pushed)

VmInv ==
  /\ PoolVms /\ WarmOwned /\ ColdOwned /\ CandidatesHeld
  /\ ArmedOnce /\ CommitReady /\ OwnersRan /\ LaunchedSealed /\ MappedSealed


-----------------------------------------------------------------------------
(* What one step of attempt a does to VMs, mappings and warm claims.       *)

WorkSteady(a) ==
  /\ pc'[a] \in WarmWorkPcs => pc[a] \in WarmWorkPcs
  /\ pc'[a] \in ColdWorkPcs => pc[a] \in ColdWorkPcs
  /\ pc'[a] \notin {"commit", "warmCommit", "launched"}

CandsSteady(a) ==
  pc'[a] = "claimWarm" =>
    \/ pc[a] = "warm" /\ local'[a].cands = {v \in Vms : vm[v].state = "suspended"}
    \/ pc[a] = "claimWarm" /\ local'[a].cands \subseteq local[a].cands

Quiet(a) ==
  /\ UNCHANGED <<vm, mapping, warmClaim, vmOf>>
  /\ WorkSteady(a) /\ CandsSteady(a)
  /\ pc[a] \in {"compensate", "warmFail"} /\ Holding(a)' => pc[a] = "warmFail" /\ ~local[a].pushed

\* A won put whose answer is lost.
Bids(a) ==
  /\ pc[a] = "claimWarm" /\ pc'[a] \in {"claimWarm", "jit"}
  /\ \E v \in local[a].cands :
       warmClaim[v] = 0 /\ warmClaim' = [warmClaim EXCEPT ![v] = local[a].stamp + WarmClaimTtl]
  /\ CandsSteady(a) /\ UNCHANGED <<vm, mapping, vmOf>>

Wins(a) ==
  /\ pc[a] = "claimWarm" /\ pc'[a] = "resume"
  /\ \E v \in local[a].cands :
       /\ warmClaim[v] = 0 /\ VmCanServe(a, v)
       /\ warmClaim' = [warmClaim EXCEPT ![v] = local[a].stamp + WarmClaimTtl]
       /\ vm' = [vm EXCEPT ![v].owner = a, ![v].since = local[a].stamp]
       /\ vmOf' = [vmOf EXCEPT ![a] = v]
  /\ UNCHANGED mapping

Resumes(a) ==
  /\ pc[a] = "resume" /\ pc'[a] \in {"warmJit", "warmFail"}
  /\ vm[vmOf[a]].state = "suspended"
  /\ vm' = [vm EXCEPT ![vmOf[a]].state = "pending"]
  /\ UNCHANGED <<mapping, warmClaim, vmOf>>

Arms(a) ==
  /\ \/ pc[a] = "push" /\ pc'[a] \in {"commit", "compensate"}
     \/ pc[a] = "warmPush" /\ pc'[a] \in {"warmCommit", "warmFail"}
  /\ pc'[a] = "warmCommit" => local'[a].pushed
  /\ vm[vmOf[a]].state = "running" /\ Arm(a)
  /\ UNCHANGED <<mapping, warmClaim, vmOf>>

Runs(a) ==
  /\ pc[a] = "run"
  /\ \E v \in Vms :
       /\ vm[v].state = "none"
       /\ vm' = [vm EXCEPT ![v] = [state |-> "pending", born |-> now, since |-> now,
                                   owner |-> a, armed |-> {}]]
       /\ \/ pc'[a] = "push" /\ vmOf' = [vmOf EXCEPT ![a] = v]
          \/ pc'[a] = "release" /\ UNCHANGED vmOf
  /\ UNCHANGED <<mapping, warmClaim>>

Commits(a) ==
  /\ \/ pc[a] = "commit" /\ pc'[a] \in {"launched", "compensate"}
     \/ pc[a] = "warmCommit" /\ pc'[a] \in {"launched", "warmFail"}
  /\ pc'[a] = "warmFail" => local'[a].pushed = local[a].pushed
  /\ OwnsClaim(a) /\ CommitWrites(a)
  /\ UNCHANGED <<vm, warmClaim, vmOf>>

Kills(a) ==
  /\ pc[a] \in {"warmFail", "compensate", "kill"}
  /\ pc'[a] \in {"jit", "failed", "release", "unmap"}
  /\ Terminated(vmOf[a])
  /\ UNCHANGED <<mapping, warmClaim, vmOf>>

Aims(a) ==
  /\ pc[a] = "idle" /\ pc'[a] = "kill"
  /\ \E x : vmOf' = [vmOf EXCEPT ![a] = x]
  /\ UNCHANGED <<vm, mapping, warmClaim>>

Unmaps(a) ==
  /\ pc[a] = "unmap" /\ pc'[a] = "terminated"
  /\ \E x : mapping' = [mapping EXCEPT ![x] = NoVm]
  /\ UNCHANGED <<vm, warmClaim, vmOf>>

LEMMA StepKinds ==
  ASSUME TypeOK, NEW a \in Attempts, StepOf(a)
  PROVE  \/ Quiet(a) \/ Bids(a) \/ Wins(a) \/ Resumes(a) \/ Arms(a)
         \/ Runs(a) \/ Commits(a) \/ Kills(a) \/ Aims(a) \/ Unmaps(a)
<1>1. pc \in [Attempts -> Pcs] /\ local \in [Attempts -> Locals]
  BY DEF TypeOK, Pcs, Locals
<1> USE <1>1 DEF Go, GoWith
<1>2. CASE DeliverLaunch(a) \/ CheckCapacity(a) \/ FailUnclaimed(a)
  BY <1>2 DEF DeliverLaunch, CheckCapacity, FailUnclaimed, Quiet, WorkSteady, CandsSteady,
              WarmWorkPcs, ColdWorkPcs, ClaimPcs, tableVars, worldVars
<1>3. CASE PutClaim(a) \/ InspectClaim(a) \/ TakeOver(a)
  BY <1>3 DEF PutClaim, InspectClaim, TakeOver, Quiet, WorkSteady, CandsSteady,
              WarmWorkPcs, ColdWorkPcs, tableVars, worldVars
<1>4. CASE Release(a) \/ WarmWaitFails(a)
  BY <1>4 DEF Release, WarmWaitFails, Quiet, WorkSteady, CandsSteady,
              WarmWorkPcs, ColdWorkPcs, Holding, HoldPcs, WarmPcs, ColdPcs, tableVars, worldVars
<1>17. CASE ListPool(a)
  <2>1. UNCHANGED <<vm, mapping, warmClaim, vmOf>> /\ pc[a] = "warm" /\ pc'[a] \in {"claimWarm", "jit"}
    BY <1>17 DEF ListPool, tableVars, worldVars
  <2>2. pc'[a] = "claimWarm" => local'[a].cands = {v \in Vms : vm[v].state = "suspended"}
    <3> DEFINE listed == [local[a] EXCEPT !.cands = {v \in Vms : vm[v].state = "suspended"}]
    <3>1. pc'[a] = "claimWarm" => local'[a] = listed
      BY <1>17 DEF ListPool, FinalPcs
    <3>2. listed.cands = {v \in Vms : vm[v].state = "suspended"}
      BY DEF Locals
    <3> QED
      BY <3>1, <3>2
  <2> QED
    BY <2>1, <2>2 DEF Quiet, WorkSteady, CandsSteady, WarmWorkPcs, ColdWorkPcs
<1>5. CASE ClaimWarmVm(a)
  <2>1. ASSUME NEW v, Skip(a, v)
        PROVE  pc'[a] = "claimWarm" /\ local'[a].cands \subseteq local[a].cands
    BY <2>1 DEF Skip, Locals, FinalPcs
  <2>2. pc[a] = "claimWarm" /\ UNCHANGED mapping
    BY <1>5 DEF ClaimWarmVm
  <2>3. CASE UNCHANGED <<warmClaim, vm, vmOf>> /\ (Go(a, "jit") \/ \E v : Skip(a, v))
    BY <2>1, <2>2, <2>3 DEF Quiet, WorkSteady, CandsSteady, WarmWorkPcs, ColdWorkPcs
  <2>4. ASSUME NEW v \in local[a].cands, WarmClaimAbsent(v),
               warmClaim' = [warmClaim EXCEPT ![v] = local[a].stamp + WarmClaimTtl],
               UNCHANGED <<vm, vmOf>>, Skip(a, v) \/ Go(a, "jit")
        PROVE  Bids(a)
    BY <2>1, <2>2, <2>4 DEF Bids, CandsSteady, WarmClaimAbsent
  <2>5. ASSUME NEW v \in local[a].cands, Usable(a, v), WarmClaimAbsent(v),
               warmClaim' = [warmClaim EXCEPT ![v] = local[a].stamp + WarmClaimTtl],
               vmOf' = [vmOf EXCEPT ![a] = v],
               vm' = [vm EXCEPT ![v].owner = a, ![v].since = local[a].stamp], Go(a, "resume")
        PROVE  Wins(a)
    BY <2>2, <2>5 DEF Wins, WarmClaimAbsent, Usable
  <2> QED
    BY <1>5, <2>3, <2>4, <2>5 DEF ClaimWarmVm
<1>6. CASE Resume(a)
  BY <1>6 DEF Resume, Quiet, Resumes, WorkSteady, CandsSteady, WarmWorkPcs, ColdWorkPcs, tableVars
<1>7. CASE WarmJit(a) \/ ColdJit(a)
  BY <1>7 DEF WarmJit, ColdJit, GenerateJitConfig, Quiet, WorkSteady, CandsSteady,
              WarmWorkPcs, ColdWorkPcs, tableVars
<1>8. CASE WarmPush(a) \/ ColdPush(a)
  BY <1>8 DEF WarmPush, ColdPush, PushJitConfig, Quiet, Arms, WorkSteady, CandsSteady,
              WarmWorkPcs, ColdWorkPcs, FinalPcs, tableVars, Locals
<1>9. CASE WarmCommit(a) \/ ColdCommit(a)
  BY <1>9 DEF WarmCommit, ColdCommit, CommitLaunch, Quiet, Commits, WorkSteady, CandsSteady,
              WarmWorkPcs, ColdWorkPcs, FinalPcs, worldVars
<1>10. CASE WarmFallBack(a)
  BY <1>10 DEF WarmFallBack, Quiet, Kills, WorkSteady, CandsSteady, WarmWorkPcs, ColdWorkPcs,
               Holding, HoldPcs, WarmPcs, ColdPcs, tableVars
<1>11. CASE RunMicrovm(a)
  BY <1>11 DEF RunMicrovm, Quiet, Runs, WorkSteady, CandsSteady, WarmWorkPcs, ColdWorkPcs, tableVars
<1>12. CASE Compensate(a)
  BY <1>12 DEF Compensate, Quiet, Kills, WorkSteady, CandsSteady, WarmWorkPcs, ColdWorkPcs,
               Holding, HoldPcs, WarmPcs, ColdPcs, tableVars
<1>13. CASE DeliverTerminate(a)
  BY <1>13 DEF DeliverTerminate, Quiet, Aims, WorkSteady, CandsSteady, WarmWorkPcs, ColdWorkPcs,
               tableVars, worldVars
<1>14. CASE KillVm(a)
  BY <1>14 DEF KillVm, Quiet, Kills, WorkSteady, CandsSteady, WarmWorkPcs, ColdWorkPcs, tableVars
<1>15. CASE Unmap(a)
  BY <1>15 DEF Unmap, Quiet, Unmaps, WorkSteady, CandsSteady, WarmWorkPcs, ColdWorkPcs, worldVars
<1>16. CASE Crash(a)
  BY <1>16 DEF Crash, Quiet, WorkSteady, CandsSteady, WarmWorkPcs, ColdWorkPcs,
               Holding, HoldPcs, WarmPcs, ColdPcs, tableVars, worldVars
<1> QED
  BY <1>2, <1>3, <1>4, <1>5, <1>6, <1>7, <1>8, <1>9, <1>10, <1>11, <1>12, <1>13, <1>14, <1>15,
     <1>16, <1>17 DEF StepOf, LaunchStep, TerminateStep

\* Nobody goes back before its claim, and a launch ends launched, failed or dead.
LEMMA PcFlow ==
  ASSUME TypeOK, NEW a \in Attempts, StepOf(a)
  PROVE  /\ pc'[a] \in {"idle"} \cup ClaimPcs => pc[a] \in {"idle"} \cup ClaimPcs
         /\ Holding(a) => pc'[a] \in HoldPcs \cup {"launched", "failed", "dead"}
<1>1. pc \in [Attempts -> Pcs]
  BY DEF TypeOK, Pcs
<1> USE <1>1 DEF Go, GoWith, Skip, Holding, HoldPcs, WarmPcs, ColdPcs, ClaimPcs
<1>2. CASE DeliverLaunch(a) \/ CheckCapacity(a) \/ FailUnclaimed(a) \/ PutClaim(a)
  BY <1>2 DEF DeliverLaunch, CheckCapacity, FailUnclaimed, PutClaim
<1>3. CASE InspectClaim(a) \/ TakeOver(a) \/ Release(a) \/ ListPool(a)
  BY <1>3 DEF InspectClaim, TakeOver, Release, ListPool
<1>4. CASE ClaimWarmVm(a)
  BY <1>4 DEF ClaimWarmVm
<1>5. CASE Resume(a) \/ WarmWaitFails(a) \/ WarmFallBack(a) \/ RunMicrovm(a) \/ Compensate(a)
  BY <1>5 DEF Resume, WarmWaitFails, WarmFallBack, RunMicrovm, Compensate
<1>6. CASE WarmJit(a) \/ ColdJit(a) \/ WarmPush(a) \/ ColdPush(a)
  BY <1>6 DEF WarmJit, ColdJit, WarmPush, ColdPush, GenerateJitConfig, PushJitConfig
<1>7. CASE WarmCommit(a) \/ ColdCommit(a)
  BY <1>7 DEF WarmCommit, ColdCommit, CommitLaunch
<1>8. CASE DeliverTerminate(a) \/ KillVm(a) \/ Unmap(a) \/ Crash(a)
  BY <1>8 DEF DeliverTerminate, KillVm, Unmap, Crash, Live, LivePcs, TerminatePcs
<1> QED
  BY <1>2, <1>3, <1>4, <1>5, <1>6, <1>7, <1>8 DEF StepOf, LaunchStep, TerminateStep

-----------------------------------------------------------------------------
(* The steps of an attempt preserve it, one conjunct at a time.            *)

LEMMA VmTypes ==
  ASSUME TypeOK
  PROVE  /\ vm \in [Vms -> MicroVms] /\ warmClaim \in [Vms -> Nat]
         /\ mapping \in [Attempts -> Vms \cup {NoVm}] /\ vmOf \in [Attempts -> Vms \cup {NoVm}]
         /\ local \in [Attempts -> Locals] /\ pc \in [Attempts -> Pcs] /\ now \in Nat
         /\ Pool \subseteq Vms /\ LambdaTimeout \in Nat /\ WarmClaimTtl \in Nat
         /\ 2 * LambdaTimeout < WarmClaimTtl
  BY ConstantTypes, SetsAssumption, TtlAssumption DEF TypeOK, MicroVms, Locals, Pcs

\* A VM that has been started stays what it is, but for its end and its pushes.
LEMMA VmsKept ==
  ASSUME LeaseInv, VmInv, NEW a \in Attempts, StepOf(a), NEW v \in Vms, Started(v)
  PROVE  /\ Started(v)' /\ (Alive(v)' => Alive(v))
         /\ vm'[v].born = vm[v].born /\ vm[v].armed \subseteq vm'[v].armed
         /\ Alive(v) => vm'[v].owner = vm[v].owner /\ vm'[v].since = vm[v].since
<1>1. TypeOK /\ PoolVms /\ CandidatesHeld
  BY DEF LeaseInv, ClaimInv, VmInv
<1> USE DEF Started, Alive, MicroVms
<1>2. CASE UNCHANGED vm
  BY <1>2
<1>3. CASE Wins(a)
  <2>1. PICK w \in local[a].cands :
          warmClaim[w] = 0 /\ vm' = [vm EXCEPT ![w].owner = a, ![w].since = local[a].stamp]
    BY <1>3 DEF Wins
  <2>2. w \in Vms /\ ~Alive(w)
    BY <1>1, <1>3, <2>1, VmTypes DEF Wins, CandidatesHeld, Locals
  <2> QED
    BY <1>1, <2>1, <2>2, VmTypes
<1>4. CASE Resumes(a)
  BY <1>1, <1>4, VmTypes DEF Resumes
<1>5. CASE Arms(a)
  BY <1>1, <1>5, VmTypes DEF Arms, Arm
<1>6. CASE Runs(a)
  <2>1. PICK w \in Vms :
          /\ vm[w].state = "none"
          /\ vm' = [vm EXCEPT ![w] = [state |-> "pending", born |-> now, since |-> now,
                                      owner |-> a, armed |-> {}]]
    BY <1>6 DEF Runs
  <2> QED
    BY <1>1, <2>1, VmTypes
<1>7. CASE Kills(a)
  BY <1>1, <1>7, VmTypes DEF Kills, Terminated
<1> QED
  BY <1>1, <1>2, <1>3, <1>4, <1>5, <1>6, <1>7, StepKinds
     DEF Quiet, Bids, Commits, Aims, Unmaps

LEMMA PoolVmsStep ==
  ASSUME LeaseInv, VmInv, NEW a \in Attempts, StepOf(a)
  PROVE  PoolVms'
<1> SUFFICES ASSUME NEW v \in Vms
             PROVE  /\ v \in Pool => vm'[v].state # "none"
                    /\ vm'[v].state = "suspended" => v \in Pool
  BY DEF PoolVms
<1>1. TypeOK /\ PoolVms
  BY DEF LeaseInv, ClaimInv, VmInv
<1>2. vm'[v].state = vm[v].state \/ vm'[v].state \in {"pending", "terminated"}
  <2>1. CASE Resumes(a) \/ Arms(a) \/ Kills(a)
    BY <1>1, <2>1, VmTypes DEF Resumes, Arms, Arm, Kills, Terminated, MicroVms
  <2>2. CASE Runs(a)
    BY <1>1, <2>2, VmTypes DEF Runs, MicroVms
  <2>3. CASE Wins(a)
    BY <1>1, <2>3, VmTypes DEF Wins, MicroVms
  <2> QED
    BY <1>1, <2>1, <2>2, <2>3, StepKinds DEF Quiet, Bids, Commits, Aims, Unmaps
<1> QED
  BY <1>1, <1>2 DEF PoolVms

\* No other attempt wins a VM whose warm claim is up.
LEMMA OthersWarmOwned ==
  ASSUME LeaseInv, VmInv, NEW a \in Attempts, StepOf(a),
         NEW v \in Pool, warmClaim[v] # 0, ~(pc[a] = "claimWarm" /\ pc'[a] = "resume" /\ vmOf'[a] = v)
  PROVE  /\ vm'[v].owner = vm[v].owner /\ vm'[v].since = vm[v].since
         /\ warmClaim'[v] = warmClaim[v] /\ vm'[v].born = vm[v].born
<1>1. TypeOK /\ PoolVms /\ v \in Vms /\ vm[v].state # "none"
  BY VmTypes DEF LeaseInv, ClaimInv, VmInv, PoolVms
<1>2. CASE Wins(a)
  BY <1>1, <1>2, VmTypes DEF Wins, MicroVms
<1>3. CASE Bids(a)
  BY <1>1, <1>3, VmTypes DEF Bids
<1>4. CASE Resumes(a) \/ Arms(a) \/ Kills(a)
  BY <1>1, <1>4, VmTypes DEF Resumes, Arms, Arm, Kills, Terminated, MicroVms
<1>5. CASE Runs(a)
  BY <1>1, <1>5, VmTypes DEF Runs, MicroVms
<1> QED
  BY <1>1, <1>2, <1>3, <1>4, <1>5, StepKinds DEF Quiet, Commits, Aims, Unmaps

\* Where an attempt's work on a VM begins and goes on.
LEMMA WorkMoves ==
  ASSUME TypeOK, NEW a \in Attempts, StepOf(a)
  PROVE  /\ \A b \in Attempts \ {a} : vmOf'[b] = vmOf[b]
         /\ pc'[a] \in WarmWorkPcs => Wins(a) \/ (pc[a] \in WarmWorkPcs /\ vmOf'[a] = vmOf[a])
         /\ pc'[a] \in ColdWorkPcs => Runs(a) \/ (pc[a] \in ColdWorkPcs /\ vmOf'[a] = vmOf[a])
<1>1. CASE Quiet(a)
  BY <1>1 DEF Quiet, WorkSteady
<1>2. CASE Bids(a) \/ Resumes(a) \/ Arms(a) \/ Commits(a)
  BY <1>2 DEF Bids, Resumes, Arms, Commits, WarmWorkPcs, ColdWorkPcs
<1>3. CASE Kills(a) \/ Aims(a) \/ Unmaps(a)
  BY <1>3, VmTypes DEF Kills, Aims, Unmaps, WarmWorkPcs, ColdWorkPcs
<1>4. CASE Wins(a)
  BY <1>4, VmTypes DEF Wins, WarmWorkPcs, ColdWorkPcs
<1>5. CASE Runs(a)
  BY <1>5, VmTypes DEF Runs, WarmWorkPcs, ColdWorkPcs
<1> QED
  BY <1>1, <1>2, <1>3, <1>4, <1>5, StepKinds

LEMMA WorkIsHeld ==
  /\ WarmWorkPcs \subseteq HoldPcs /\ ColdWorkPcs \subseteq HoldPcs
  /\ {"claimWarm", "run"} \subseteq HoldPcs
  /\ WarmWorkPcs \cap ColdWorkPcs = {}
  BY DEF WarmWorkPcs, ColdWorkPcs, HoldPcs, WarmPcs, ColdPcs

LEMMA WarmOwnedStep ==
  ASSUME LeaseInv, VmInv, NEW a \in Attempts, StepOf(a)
  PROVE  WarmOwned'
<1>1. /\ TypeOK /\ TypeOK' /\ WarmOwned /\ CandidatesHeld /\ Moved(a) /\ PcOk(a)
  BY MovedByStep, TypeStep DEF LeaseInv, ClaimInv, VmInv, Moved, StepOf, Next
<1> SUFFICES ASSUME NEW b \in Attempts, pc'[b] \in WarmWorkPcs
             PROVE  /\ vmOf'[b] \in Pool /\ vm'[vmOf'[b]].owner = b
                    /\ vm'[vmOf'[b]].since = local'[b].stamp
                    /\ warmClaim'[vmOf'[b]] = local'[b].stamp + WarmClaimTtl
                    /\ PoolVmCap - (local'[b].stamp - vm'[vmOf'[b]].born) >= MaxJob + Grace
  BY DEF WarmOwned, VmCanServe
<1>2. CASE b = a /\ Wins(a)
  <2>1. PICK v \in local[a].cands :
          /\ VmCanServe(a, v)
          /\ warmClaim' = [warmClaim EXCEPT ![v] = local[a].stamp + WarmClaimTtl]
          /\ vm' = [vm EXCEPT ![v].owner = a, ![v].since = local[a].stamp]
          /\ vmOf' = [vmOf EXCEPT ![a] = v]
    BY <1>2 DEF Wins
  <2>2. v \in Pool /\ v \in Vms
    BY <1>1, <1>2, VmTypes DEF Wins, CandidatesHeld
  <2>3. local'[a].stamp = local[a].stamp
    BY <1>1, <1>2, WorkIsHeld DEF Wins, Moved, StampOk, StampedPcs, WarmWorkPcs
  <2> QED
    BY <1>1, <1>2, <2>1, <2>2, <2>3, VmTypes DEF MicroVms, VmCanServe
<1>3. CASE ~(b = a /\ Wins(a))
  <2>1. pc[b] \in WarmWorkPcs /\ vmOf'[b] = vmOf[b]
    BY <1>1, <1>3, WorkMoves DEF Moved
  <2>2. local'[b].stamp = local[b].stamp
    BY <1>1, <2>1, WorkIsHeld DEF Moved, StampOk, StampedPcs
  <2>3. /\ vmOf[b] \in Pool /\ vm[vmOf[b]].owner = b /\ vm[vmOf[b]].since = local[b].stamp
        /\ warmClaim[vmOf[b]] = local[b].stamp + WarmClaimTtl
        /\ PoolVmCap - (local[b].stamp - vm[vmOf[b]].born) >= MaxJob + Grace
    BY <1>1, <2>1 DEF WarmOwned, VmCanServe
  <2>4. warmClaim[vmOf[b]] # 0
    BY <1>1, <2>3, VmTypes DEF Locals
  <2>5. ~(pc[a] = "claimWarm" /\ pc'[a] = "resume" /\ vmOf'[a] = vmOf[b])
    <3>1. ASSUME pc[a] = "claimWarm", pc'[a] = "resume", vmOf'[a] = vmOf[b] PROVE FALSE
      <4>1. Wins(a)
        BY <1>1, <3>1, StepKinds, VmTypes
           DEF Quiet, WorkSteady, WarmWorkPcs, Bids, Resumes, Arms, Runs, Commits, Kills, Aims, Unmaps
      <4> QED
        BY <1>1, <2>1, <2>4, <3>1, <4>1, VmTypes DEF Wins
    <3> QED
      BY <3>1
  <2> QED
    BY <2>1, <2>2, <2>3, <2>4, <2>5, OthersWarmOwned
<1> QED
  BY <1>2, <1>3

LEMMA ColdOwnedStep ==
  ASSUME LeaseInv, VmInv, NEW a \in Attempts, StepOf(a)
  PROVE  ColdOwned'
<1>1. /\ TypeOK /\ Timed /\ Stamped /\ PoolVms /\ WarmOwned /\ ColdOwned /\ CandidatesHeld
      /\ Moved(a) /\ PcOk(a)
  BY MovedByStep DEF LeaseInv, ClaimInv, VmInv, Moved
<1> SUFFICES ASSUME NEW b \in Attempts, pc'[b] \in ColdWorkPcs
             PROVE  /\ vmOf'[b] \in Vms \ Pool /\ Started(vmOf[b])' /\ vm'[vmOf'[b]].owner = b
                    /\ vm'[vmOf'[b]].born <= local'[b].stamp + LambdaTimeout
  BY DEF ColdOwned, Started
<1>2. CASE b = a /\ Runs(a)
  <2>1. PICK v \in Vms :
          /\ vm[v].state = "none" /\ vmOf' = [vmOf EXCEPT ![a] = v]
          /\ vm' = [vm EXCEPT ![v] = [state |-> "pending", born |-> now, since |-> now,
                                      owner |-> a, armed |-> {}]]
    BY <1>2 DEF Runs, ColdWorkPcs
  <2>2. v \notin Pool
    BY <1>1, <2>1 DEF PoolVms
  <2>3. local'[a].stamp = local[a].stamp
    BY <1>1, <1>2, WorkIsHeld DEF Runs, Moved, StampOk, StampedPcs
  <2>4. now <= local[a].stamp + LambdaTimeout
    BY <1>1, <1>2, VmTypes, WorkIsHeld, PcSets
       DEF Runs, Timed, Stamped, Live, StampedPcs, Locals
  <2> QED
    BY <1>1, <1>2, <2>1, <2>2, <2>3, <2>4, VmTypes DEF Started
<1>3. CASE ~(b = a /\ Runs(a))
  <2>1. pc[b] \in ColdWorkPcs /\ vmOf'[b] = vmOf[b]
    BY <1>1, <1>3, WorkMoves DEF Moved
  <2>2. local'[b].stamp = local[b].stamp
    BY <1>1, <2>1, WorkIsHeld DEF Moved, StampOk, StampedPcs
  <2>3. /\ vmOf[b] \in Vms \ Pool /\ Started(vmOf[b]) /\ vm[vmOf[b]].owner = b
        /\ vm[vmOf[b]].born <= local[b].stamp + LambdaTimeout
    BY <1>1, <2>1 DEF ColdOwned
  <2>4. Started(vmOf[b])' /\ vm'[vmOf[b]].born = vm[vmOf[b]].born
    <3>1. ASSUME NEW v \in Vms, Started(v) PROVE Started(v)' /\ vm'[v].born = vm[v].born
      BY <3>1, VmsKept
    <3> QED
      BY <2>1, <2>3, <3>1 DEF Started
  <2>5. vm'[vmOf[b]].owner = vm[vmOf[b]].owner
    <3>1. CASE Wins(a)
      BY <1>1, <2>3, <3>1, VmTypes DEF Wins, CandidatesHeld, MicroVms
    <3>2. CASE Runs(a)
      BY <1>1, <2>3, <3>2, VmTypes DEF Runs, Started, MicroVms
    <3>3. CASE Resumes(a) \/ Kills(a)
      BY <1>1, <2>3, <3>3, VmTypes DEF Resumes, Kills, Terminated, MicroVms
    <3>4. CASE Arms(a)
      BY <1>1, <2>3, <3>4, VmTypes DEF Arms, Arm, MicroVms
    <3> QED
      BY <1>1, <3>1, <3>2, <3>3, <3>4, StepKinds DEF Quiet, Bids, Commits, Aims, Unmaps
  <2> QED
    BY <2>1, <2>2, <2>3, <2>4, <2>5 DEF Started
<1> QED
  BY <1>2, <1>3

LEMMA CandidatesHeldStep ==
  ASSUME LeaseInv, VmInv, NEW a \in Attempts, StepOf(a)
  PROVE  CandidatesHeld'
<1>1. /\ TypeOK /\ Timed /\ Stamped /\ PoolVms /\ WarmOwned /\ CandidatesHeld
      /\ Moved(a) /\ PcOk(a) /\ StartOk(a)
  BY MovedByStep DEF LeaseInv, ClaimInv, VmInv, Moved
<1> SUFFICES ASSUME NEW b \in Attempts, pc'[b] = "claimWarm", NEW v \in local'[b].cands
             PROVE  v \in Pool
                    /\ (Alive(v)' => warmClaim'[v] > local'[b].start + LambdaTimeout)
  BY DEF CandidatesHeld, Alive
<1>2. \/ pc[b] = "claimWarm" /\ v \in local[b].cands /\ local'[b].start = local[b].start
      \/ b = a /\ v \in Vms /\ vm[v].state = "suspended" /\ vm' = vm
  <2>1. CASE b # a
    BY <1>1, <2>1 DEF Moved
  <2>2. CASE b = a
    <3>1. CandsSteady(a) /\ (pc[a] = "warm" => vm' = vm)
      BY <1>1, <2>2, StepKinds
         DEF Quiet, Bids, Wins, Resumes, Arms, Runs, Commits, Kills, Aims, Unmaps
    <3>2. Live(a) => local'[a].start = local[a].start
      BY <1>1, <2>2, WorkIsHeld DEF StartOk, Live, LivePcs
    <3> QED
      BY <1>1, <2>2, <3>1, <3>2, WorkIsHeld DEF CandsSteady, Live, LivePcs
  <2> QED
    BY <2>1, <2>2
<1>3. CASE b = a /\ v \in Vms /\ vm[v].state = "suspended" /\ vm' = vm
  BY <1>1, <1>3 DEF PoolVms, Alive
<1>4. CASE pc[b] = "claimWarm" /\ v \in local[b].cands /\ local'[b].start = local[b].start
  <2>1. v \in Pool /\ v \in Vms /\ (Alive(v) => warmClaim[v] > local[b].start + LambdaTimeout)
    BY <1>1, <1>4, VmTypes DEF CandidatesHeld
  <2>2. CASE Alive(v)'
    <3>1. CASE Started(v)
      <4>1. Alive(v) /\ warmClaim[v] > local[b].start + LambdaTimeout
        BY <2>1, <2>2, <3>1, VmsKept
      <4>2. warmClaim[v] # 0
        BY <1>1, <4>1, VmTypes DEF Locals
      <4>3. warmClaim'[v] = warmClaim[v]
        BY <1>1, <2>1, <4>2, VmTypes, StepKinds
           DEF Quiet, Bids, Wins, Resumes, Arms, Runs, Commits, Kills, Aims, Unmaps
      <4> QED
        BY <1>4, <2>1, <4>1, <4>3
    <3>2. CASE ~Started(v)
      <4>1. vm[v].state = "suspended"
        BY <1>1, <2>1, <3>2 DEF Started, PoolVms
      <4>2. Resumes(a) /\ v = vmOf[a]
        <5>1. CASE Wins(a)
          BY <1>1, <2>1, <2>2, <4>1, <5>1, VmTypes DEF Wins, Alive, MicroVms
        <5>4. CASE Arms(a) \/ Kills(a)
          BY <1>1, <2>1, <2>2, <4>1, <5>4, VmTypes
             DEF Arms, Arm, Kills, Terminated, Alive, MicroVms
        <5>2. CASE Runs(a)
          BY <1>1, <2>1, <2>2, <4>1, <5>2, VmTypes DEF Runs, Alive, MicroVms
        <5>3. CASE Resumes(a)
          BY <1>1, <2>1, <2>2, <4>1, <5>3, VmTypes DEF Resumes, Alive, MicroVms
        <5> QED
          BY <1>1, <2>2, <4>1, <5>1, <5>2, <5>3, <5>4, StepKinds
             DEF Quiet, Bids, Commits, Aims, Unmaps, Alive
      <4>3. warmClaim'[v] = local[a].stamp + WarmClaimTtl
        BY <1>1, <4>2 DEF Resumes, WarmOwned, WarmWorkPcs
      <4>4. /\ now <= local[a].start + LambdaTimeout /\ local[a].start <= local[a].stamp
            /\ local[b].start <= now
        BY <1>1, <1>4, <4>2, WorkIsHeld, PcSets
           DEF Resumes, Timed, Stamped, Live, StampedPcs, WarmWorkPcs
      <4>5. /\ local[a].start \in Nat /\ local[a].stamp \in Nat /\ local[b].start \in Nat
            /\ now \in Nat /\ LambdaTimeout \in Nat /\ WarmClaimTtl \in Nat
            /\ 2 * LambdaTimeout < WarmClaimTtl
        BY <1>1, VmTypes DEF Locals
      <4>6. local[a].stamp + WarmClaimTtl > local[b].start + LambdaTimeout
        BY <4>4, <4>5
      <4> QED
        BY <1>4, <2>1, <4>3, <4>6
    <3> QED
      BY <3>1, <3>2
  <2> QED
    BY <2>1, <2>2
<1> QED
  BY <1>2, <1>3, <1>4

LEMMA ArmedOnceStep ==
  ASSUME LeaseInv, VmInv, NEW a \in Attempts, StepOf(a)
  PROVE  ArmedOnce'
<1>1. /\ TypeOK /\ PoolVms /\ WarmOwned /\ ColdOwned /\ CandidatesHeld /\ ArmedOnce
  BY DEF LeaseInv, ClaimInv, VmInv
<1> SUFFICES ASSUME NEW v \in Vms
             PROVE  /\ ~Started(v)' => vm'[v].armed = {}
                    /\ Alive(v)' => vm'[v].armed \subseteq {vm'[v].owner}
                    /\ \A b, c \in vm'[v].armed : b = c
  BY DEF ArmedOnce, Started, Alive
<1>2. /\ ~Started(v) => vm[v].armed = {}
      /\ Alive(v) => vm[v].armed \subseteq {vm[v].owner}
      /\ \A b, c \in vm[v].armed : b = c
  BY <1>1 DEF ArmedOnce
<1>3. CASE UNCHANGED vm
  BY <1>2, <1>3 DEF Started, Alive
<1>4. CASE Wins(a)
  <2>1. PICK w \in local[a].cands :
          warmClaim[w] = 0 /\ vm' = [vm EXCEPT ![w].owner = a, ![w].since = local[a].stamp]
    BY <1>4 DEF Wins
  <2>2. w \in Vms /\ ~Alive(w)
    BY <1>1, <1>4, <2>1, VmTypes DEF Wins, CandidatesHeld, Locals
  <2>3. /\ vm'[v].armed = vm[v].armed /\ vm'[v].state = vm[v].state
        /\ Alive(v) => vm'[v].owner = vm[v].owner
    BY <1>1, <2>1, <2>2, VmTypes DEF MicroVms
  <2> QED
    BY <1>2, <2>3 DEF Started, Alive
<1>5. CASE Resumes(a) \/ Kills(a)
  <2>1. /\ vm'[v].armed = vm[v].armed /\ vm'[v].owner = vm[v].owner
        /\ \/ vm'[v].state = vm[v].state \/ vm'[v].state = "terminated"
           \/ vm[v].state = "suspended" /\ vm'[v].state = "pending"
    BY <1>1, <1>5, VmTypes DEF Resumes, Kills, Terminated, MicroVms
  <2> QED
    BY <1>2, <2>1 DEF Started, Alive
<1>6. CASE Arms(a)
  <2>1. CASE v = vmOf[a]
    <3>1. vm[v].owner = a /\ vm[v].state = "running"
      BY <1>1, <1>6, <2>1 DEF Arms, WarmOwned, ColdOwned, WarmWorkPcs, ColdWorkPcs
    <3>2. vm'[v].armed = vm[v].armed \cup {a} /\ vm'[v].owner = a /\ vm'[v].state = "running"
      BY <1>1, <1>6, <2>1, <3>1, VmTypes DEF Arms, Arm, MicroVms
    <3> QED
      BY <1>2, <3>1, <3>2 DEF Started, Alive
  <2>2. CASE v # vmOf[a]
    BY <1>1, <1>2, <1>6, <2>2, VmTypes DEF Arms, Arm, Started, Alive
  <2> QED
    BY <2>1, <2>2
<1>7. CASE Runs(a)
  <2>1. vm'[v] = vm[v] \/ (vm'[v].state = "pending" /\ vm'[v].armed = {})
    BY <1>1, <1>7, VmTypes DEF Runs
  <2> QED
    BY <1>2, <2>1 DEF Started, Alive
<1> QED
  BY <1>1, <1>3, <1>4, <1>5, <1>6, <1>7, StepKinds DEF Quiet, Bids, Commits, Aims, Unmaps

LEMMA CommitReadyStep ==
  ASSUME LeaseInv, VmInv, NEW a \in Attempts, StepOf(a)
  PROVE  CommitReady'
<1>1. /\ TypeOK /\ PoolVms /\ WarmOwned /\ ColdOwned /\ ArmedOnce /\ CommitReady /\ Moved(a) /\ PcOk(a)
  BY MovedByStep DEF LeaseInv, ClaimInv, VmInv, Moved
<1> SUFFICES ASSUME NEW b \in Attempts
             PROVE  /\ pc'[b] \in {"commit", "warmCommit"} => b \in vm'[vmOf'[b]].armed
                    /\ pc'[b] = "warmCommit" => local'[b].pushed
  BY DEF CommitReady
<1>2. CASE b = a
  <2>1. CASE pc'[a] \in {"commit", "warmCommit"}
    <3>1. Arms(a)
      BY <1>1, <2>1, StepKinds
         DEF Quiet, WorkSteady, Bids, Wins, Resumes, Runs, Commits, Kills, Aims, Unmaps
    <3>2. vmOf[a] \in Vms
      BY <1>1, <3>1, VmTypes DEF Arms, WarmOwned, ColdOwned, WarmWorkPcs, ColdWorkPcs
    <3> QED
      BY <1>1, <1>2, <3>1, <3>2, VmTypes DEF Arms, Arm, MicroVms
  <2>2. CASE pc'[a] \notin {"commit", "warmCommit"}
    BY <1>2, <2>2
  <2> QED
    BY <2>1, <2>2
<1>3. CASE b # a
  <2>1. pc'[b] = pc[b] /\ local'[b] = local[b] /\ vmOf'[b] = vmOf[b]
    BY <1>1, <1>3, WorkMoves DEF Moved
  <2>2. CASE pc[b] \in {"commit", "warmCommit"}
    <3>1. vmOf[b] \in Vms /\ b \in vm[vmOf[b]].armed
      BY <1>1, <2>2, VmTypes DEF WarmOwned, ColdOwned, WarmWorkPcs, ColdWorkPcs, CommitReady
    <3>2. Started(vmOf[b])
      BY <1>1, <3>1 DEF ArmedOnce
    <3> QED
      BY <1>1, <2>1, <3>1, <3>2, VmsKept DEF CommitReady
  <2> QED
    BY <2>1, <2>2
<1> QED
  BY <1>2, <1>3

LEMMA OwnersRanStep ==
  ASSUME LeaseInv, VmInv, NEW a \in Attempts, StepOf(a)
  PROVE  OwnersRan'
<1>1. TypeOK /\ OwnersRan /\ Moved(a) /\ PcOk(a)
  BY MovedByStep DEF LeaseInv, ClaimInv, VmInv, Moved
<1> DEFINE Ran == HoldPcs \cup {"launched", "failed", "dead"}
<1>2. ASSUME NEW b \in Attempts, pc[b] \in Ran PROVE pc'[b] \in Ran
  <2>1. {"launched", "failed", "dead"} \subseteq FinalPcs
    BY DEF FinalPcs
  <2> QED
    BY <1>1, <1>2, <2>1, PcFlow DEF Moved, PcOk, Holding
<1>3. ASSUME NEW v \in Vms
      PROVE  vm'[v].owner = vm[v].owner \/ (vm'[v].owner = a /\ pc'[a] \in Ran)
  <2>1. CASE Wins(a)
    BY <1>1, <2>1, VmTypes, WorkIsHeld DEF Wins, WarmWorkPcs, MicroVms
  <2>2. CASE Runs(a)
    BY <1>1, <2>2, VmTypes DEF Runs, MicroVms, HoldPcs, ColdPcs
  <2>3. vm \in [Vms -> MicroVms]
    BY <1>1, VmTypes
  <2> HIDE DEF Ran
  <2>4. CASE Resumes(a)
    BY <2>3, <2>4 DEF Resumes, MicroVms
  <2>5. CASE Kills(a)
    BY <2>3, <2>5 DEF Kills, Terminated, MicroVms
  <2>6. CASE Arms(a)
    BY <2>3, <2>6 DEF Arms, Arm, MicroVms
  <2>7. CASE UNCHANGED vm
    BY <2>7
  <2> QED
    BY <1>1, <2>1, <2>2, <2>4, <2>5, <2>6, <2>7, StepKinds DEF Quiet, Bids, Commits, Aims, Unmaps
<1> QED
  BY <1>1, <1>2, <1>3 DEF OwnersRan

\* Nothing but its own launch's release ends a seal.
LEMMA SealedKept ==
  ASSUME LeaseInv, VmInv, NEW a \in Attempts, StepOf(a),
         NEW b \in Attempts, NEW v \in Vms, Alive(v), Sealed(b, v),
         a = b => pc[a] \notin {"release", "commit", "warmCommit"}
  PROVE  Sealed(b, v)'
<1>1. TypeOK /\ now' = now /\ jobOf' = jobOf
  BY TypeMoves DEF LeaseInv, ClaimInv, StepOf
<1>2. UNCHANGED claim \/ Takes(a) \/ GivesUp(a) \/ Seals(a)
  BY <1>1, ClaimEffects
<1>3. Committed(jobOf[b])
  BY <1>1, LeaseTypes DEF Sealed, Committed
<1>4. claim'[jobOf[b]] = claim[jobOf[b]]
  <2>1. CASE Takes(a)
    <3>1. jobOf[a] # jobOf[b]
      BY <1>3, <2>1, TakesFree
    <3> QED
      BY <1>1, <2>1, <3>1, LeaseTypes DEF Takes, WriteClaim
  <2>2. CASE GivesUp(a) \/ Seals(a)
    <3>1. jobOf[a] # jobOf[b]
      BY <2>2 DEF GivesUp, Seals, Sealed, OwnsClaim
    <3> QED
      BY <1>1, <2>2, <3>1, LeaseTypes DEF GivesUp, Seals
  <2> QED
    BY <1>2, <2>1, <2>2
<1>5. Deadline(v)' = Deadline(v)
  <2>1. vm'[v].born = vm[v].born /\ vm'[v].owner = vm[v].owner /\ vm'[v].since = vm[v].since
    BY VmsKept DEF Started, Alive
  <2> QED
    BY <2>1 DEF Deadline
<1> QED
  BY <1>1, <1>4, <1>5 DEF Sealed, OwnsClaim

\* A VM that is committed ends before the claim that names it.
LEMMA CommitSeals ==
  ASSUME LeaseInv, VmInv, NEW a \in Attempts, StepOf(a), Commits(a)
  PROVE  Sealed(a, vmOf[a])' /\ vmOf[a] \in Vms
<1>1. /\ TypeOK /\ Timed /\ Stamped /\ Held /\ WarmOwned /\ ColdOwned
      /\ now' = now /\ jobOf' = jobOf /\ vm' = vm /\ vmOf' = vmOf
  BY TypeMoves DEF LeaseInv, ClaimInv, VmInv, StepOf, Commits
<1>2. /\ now \in Nat /\ local[a] \in Locals /\ LambdaTimeout \in Nat /\ MaxJob \in Nat
      /\ Grace \in Nat /\ TtlGrace \in Nat /\ SweepLag \in Nat /\ PoolVmCap \in Nat
      /\ LambdaTimeout < MaxJob + TtlGrace /\ LambdaTimeout + Grace < TtlGrace
      /\ Grace + SweepLag < TtlGrace
  BY <1>1, ConstantTypes, TimesAssumption, TtlAssumption, VmTypes
<1>3. Holding(a) /\ pc[a] \in {"commit", "warmCommit"}
  BY DEF Commits, Holding, HoldPcs, WarmPcs, ColdPcs
<1>4. OwnsClaim(a) /\ claim[jobOf[a]].expiresAt = local[a].stamp + MaxJob + TtlGrace
  BY <1>1, <1>2, <1>3 DEF Held, ClaimTtl, Locals
<1>5. claim'[jobOf[a]] = [claim[jobOf[a]] EXCEPT !.vm = vmOf[a]]
  BY <1>1, LeaseTypes DEF Commits, CommitWrites
<1>6. /\ claim'[jobOf[a]].vm = vmOf[a] /\ claim'[jobOf[a]].holder = a
      /\ claim'[jobOf[a]].expiresAt = local[a].stamp + MaxJob + TtlGrace
  BY <1>1, <1>4, <1>5, LeaseTypes DEF OwnsClaim, Claims
<1>7. local[a].start <= local[a].stamp /\ now <= local[a].start + LambdaTimeout
  BY <1>1, <1>3, PcSets DEF Timed, Stamped, Live, Holding
<1>8. now < local[a].stamp + MaxJob + TtlGrace
  BY <1>2, <1>7 DEF Locals
<1>9. vmOf[a] \in Vms /\ Deadline(vmOf[a]) < local[a].stamp + MaxJob + TtlGrace
  <2>1. CASE pc[a] = "warmCommit"
    <3>1. /\ vmOf[a] \in Pool /\ vm[vmOf[a]].owner = a /\ vm[vmOf[a]].since = local[a].stamp
          /\ vm[vmOf[a]] \in MicroVms /\ a # Nobody
      BY <1>1, <2>1, VmTypes, LeaseTypes DEF WarmOwned, WarmWorkPcs
    <3>2. Deadline(vmOf[a]) <= local[a].stamp + MaxJob + Grace + SweepLag
      BY <1>2, <3>1 DEF Deadline, MicroVms, Locals
    <3>3. Deadline(vmOf[a]) \in Nat
      BY <1>2, <3>1 DEF Deadline, MicroVms, Locals
    <3> QED
      BY <1>1, <1>2, <3>1, <3>2, <3>3, VmTypes DEF Locals
  <2>2. CASE pc[a] = "commit"
    <3>1. /\ vmOf[a] \in Vms \ Pool /\ vm[vmOf[a]].born <= local[a].stamp + LambdaTimeout
          /\ vm[vmOf[a]] \in MicroVms
      BY <1>1, <2>2, VmTypes DEF ColdOwned, ColdWorkPcs
    <3> QED
      BY <1>2, <3>1 DEF Deadline, MicroVms, Locals
  <2> QED
    BY <1>3, <2>1, <2>2
<1>10. Deadline(vmOf[a])' = Deadline(vmOf[a])
  BY <1>1 DEF Deadline
<1> QED
  BY <1>1, <1>6, <1>8, <1>9, <1>10 DEF Sealed, OwnsClaim

LEMMA LaunchedSealedStep ==
  ASSUME LeaseInv, VmInv, NEW a \in Attempts, StepOf(a)
  PROVE  LaunchedSealed'
<1>1. TypeOK /\ ArmedOnce /\ CommitReady /\ LaunchedSealed /\ Moved(a) /\ PcOk(a)
  BY MovedByStep DEF LeaseInv, ClaimInv, VmInv, Moved
<1> SUFFICES ASSUME NEW b \in Attempts, pc'[b] = "launched"
             PROVE  /\ vmOf'[b] \in Vms /\ b \in vm'[vmOf'[b]].armed
                    /\ Alive(vmOf[b])' => Sealed(b, vmOf[b])'
  BY DEF LaunchedSealed
<1>2. CASE b = a
  <2>1. Commits(a)
    BY <1>1, <1>2, StepKinds
       DEF Quiet, WorkSteady, Bids, Wins, Resumes, Arms, Runs, Kills, Aims, Unmaps
  <2> QED
    BY <1>1, <1>2, <2>1, CommitSeals DEF Commits, CommitReady
<1>3. CASE b # a
  <2>1. pc[b] = "launched" /\ vmOf'[b] = vmOf[b]
    BY <1>1, <1>3, WorkMoves DEF Moved
  <2>2. vmOf[b] \in Vms /\ b \in vm[vmOf[b]].armed /\ (Alive(vmOf[b]) => Sealed(b, vmOf[b]))
    BY <1>1, <2>1 DEF LaunchedSealed
  <2>3. PICK v \in Vms : v = vmOf[b]
    BY <2>2
  <2>4. Started(v)
    BY <1>1, <2>2, <2>3 DEF ArmedOnce
  <2>5. (Alive(v)' => Alive(v)) /\ b \in vm'[v].armed
    BY <2>2, <2>3, <2>4, VmsKept
  <2>6. Alive(v)' => Sealed(b, v)'
    BY <1>3, <2>2, <2>3, <2>5, SealedKept
  <2> QED
    BY <2>1, <2>2, <2>3, <2>5, <2>6 DEF Alive, Sealed, Deadline
<1> QED
  BY <1>2, <1>3

LEMMA MappedSealedStep ==
  ASSUME LeaseInv, VmInv, NEW a \in Attempts, StepOf(a)
  PROVE  MappedSealed'
<1>1. /\ TypeOK /\ ArmedOnce /\ CommitReady /\ MappedSealed /\ Moved(a) /\ PcOk(a)
  BY MovedByStep DEF LeaseInv, ClaimInv, VmInv, Moved
<1> SUFFICES ASSUME NEW b \in Attempts, NEW v \in Vms, mapping'[b] = v
             PROVE  /\ b \in vm'[v].armed
                    /\ pc'[b] \notin {"idle"} \cup ClaimPcs
                    /\ Alive(v)' =>
                         /\ Sealed(b, v)'
                         /\ Holding(b)' =>
                              /\ vmOf'[b] = v
                              /\ \/ pc'[b] = "compensate"
                                 \/ pc'[b] = "warmFail" /\ local'[b].pushed
  <2>1. mapping' \in [Attempts -> Vms \cup {NoVm}]
    BY <1>1, TypeTables DEF StepOf
  <2> QED
    BY <2>1 DEF MappedSealed, Alive, Sealed, Deadline, OwnsClaim, Holding
<1>2. CASE b = a /\ Commits(a)
  <2>1. v = vmOf[a] /\ vm' = vm /\ vmOf' = vmOf
    BY <1>1, <1>2, VmTypes DEF Commits, CommitWrites
  <2>2. Sealed(a, v)'
    BY <1>2, <2>1, CommitSeals DEF Sealed, OwnsClaim, Deadline
  <2>3. a \in vm'[v].armed
    BY <1>1, <1>2, <2>1 DEF Commits, CommitReady
  <2>4. pc'[a] \notin {"idle"} \cup ClaimPcs
    BY <1>2 DEF Commits, ClaimPcs
  <2>5. Holding(a)' => pc'[a] = "compensate" \/ (pc'[a] = "warmFail" /\ local'[a].pushed)
    BY <1>1, <1>2, PcSets DEF Commits, CommitReady, Holding, HoldPcs, WarmPcs, ColdPcs
  <2> QED
    BY <1>2, <2>1, <2>2, <2>3, <2>4, <2>5
<1>3. CASE ~(b = a /\ Commits(a))
  <2>1. mapping[b] = v
    BY <1>1, <1>3, VmTypes, LeaseTypes, StepKinds
       DEF Quiet, Bids, Wins, Resumes, Arms, Runs, Commits, CommitWrites, Kills, Aims, Unmaps
  <2>2. /\ b \in vm[v].armed /\ pc[b] \notin {"idle"} \cup ClaimPcs
        /\ Alive(v) =>
             /\ Sealed(b, v)
             /\ Holding(b) => /\ vmOf[b] = v
                              /\ pc[b] = "compensate" \/ (pc[b] = "warmFail" /\ local[b].pushed)
    BY <1>1, <2>1, LeaseTypes DEF MappedSealed
  <2>3. Started(v)
    BY <1>1, <2>2 DEF ArmedOnce
  <2>4. (Alive(v)' => Alive(v)) /\ b \in vm'[v].armed
    BY <2>2, <2>3, VmsKept
  <2>5. pc'[b] \notin {"idle"} \cup ClaimPcs
    BY <1>1, <2>2, PcFlow DEF Moved
  <2>6. Holding(b)' => Holding(b)
    BY <1>1, <2>2 DEF Moved, PcOk, Holding, ClaimPcs
  <2>7. CASE ~Alive(v)'
    BY <2>4, <2>5, <2>7
  <2>8. CASE Alive(v)' /\ b # a
    <3>1. Sealed(b, v)'
      BY <2>2, <2>4, <2>8, SealedKept
    <3>2. vmOf'[b] = vmOf[b] /\ pc'[b] = pc[b] /\ local'[b] = local[b]
      BY <1>1, <2>8, WorkMoves DEF Moved
    <3> QED
      BY <2>2, <2>4, <2>5, <2>6, <2>8, <3>1, <3>2
  <2>9. CASE Alive(v)' /\ b = a
    <3>1. ~Holding(a)'
      <4>1. SUFFICES ASSUME Holding(a)' PROVE FALSE
        OBVIOUS
      <4>2. Holding(a) /\ vmOf[a] = v
            /\ (pc[a] = "compensate" \/ (pc[a] = "warmFail" /\ local[a].pushed))
        BY <2>2, <2>4, <2>6, <2>9, <4>1
      <4>3. Kills(a)
        BY <1>1, <4>1, <4>2, StepKinds
           DEF Quiet, Bids, Wins, Resumes, Arms, Runs, Commits, Aims, Unmaps
      <4> QED
        BY <1>1, <2>9, <4>2, <4>3, VmTypes DEF Kills, Terminated, Alive, MicroVms
    <3>2. pc[a] \notin {"release", "commit", "warmCommit"}
      BY <2>2, <2>4, <2>9 DEF Holding, HoldPcs, WarmPcs, ColdPcs
    <3>3. Sealed(b, v)'
      BY <2>2, <2>4, <2>9, <3>2, SealedKept
    <3> QED
      BY <2>4, <2>5, <2>9, <3>1, <3>3
  <2> QED
    BY <2>7, <2>8, <2>9
<1> QED
  BY <1>2, <1>3

LEMMA VmInvAttempt ==
  ASSUME LeaseInv, VmInv, NEW a \in Attempts, StepOf(a)
  PROVE  VmInv'
  BY PoolVmsStep, WarmOwnedStep, ColdOwnedStep, CandidatesHeldStep, ArmedOnceStep,
     CommitReadyStep, OwnersRanStep, LaunchedSealedStep, MappedSealedStep DEF VmInv

-----------------------------------------------------------------------------
(* The world's steps, and the whole.                                       *)

LEMMA VmInvInit == Init => VmInv
<1> SUFFICES ASSUME Init PROVE VmInv
  OBVIOUS
<1>1. \A a \in Attempts : pc[a] = "idle" /\ mapping[a] = NoVm
  BY DEF Init
<1>2. \A v \in Vms : /\ vm[v].state = IF v \in Pool THEN "suspended" ELSE "none"
                     /\ vm[v].armed = {} /\ vm[v].owner = Nobody
  BY DEF Init
<1>3. Nobody \notin Attempts
  BY ConstantTypes
<1> QED
  BY <1>1, <1>2, <1>3
     DEF VmInv, PoolVms, WarmOwned, ColdOwned, CandidatesHeld, ArmedOnce, CommitReady, OwnersRan,
         LaunchedSealed, MappedSealed, WarmWorkPcs, ColdWorkPcs, Started, Alive

\* A VM boots or ends: nothing that was not alive comes to life.
LEMMA VmInvPlatform ==
  ASSUME LeaseInv, VmInv, NEW w \in Vms, Boot(w) \/ LifetimeEnds(w)
  PROVE  VmInv'
<1>1. /\ TypeOK /\ PoolVms /\ WarmOwned /\ ColdOwned /\ CandidatesHeld /\ ArmedOnce
      /\ CommitReady /\ OwnersRan /\ LaunchedSealed /\ MappedSealed
  BY DEF LeaseInv, ClaimInv, VmInv
<1>2. UNCHANGED <<now, claim, mapping, warmClaim, jobOf, pc, local, vmOf>>
  BY DEF Boot, LifetimeEnds, tableVars, attemptVars
<1>3. ASSUME NEW v \in Vms
      PROVE  /\ vm'[v].born = vm[v].born /\ vm'[v].owner = vm[v].owner
             /\ vm'[v].since = vm[v].since /\ vm'[v].armed = vm[v].armed
             /\ \/ vm'[v].state = vm[v].state
                \/ vm[v].state = "pending" /\ vm'[v].state = "running"
                \/ vm[v].state # "none" /\ vm'[v].state = "terminated"
  BY <1>1, VmTypes DEF Boot, LifetimeEnds, Exists, Terminated, MicroVms
<1>4. ASSUME NEW v \in Vms
      PROVE  /\ Alive(v)' => Alive(v)
             /\ Started(v) => Started(v)'
             /\ Deadline(v)' = Deadline(v)
             /\ \A a \in Attempts : Sealed(a, v)' <=> Sealed(a, v)
  BY <1>2, <1>3 DEF Alive, Started, Deadline, Sealed, OwnsClaim
<1>5. PoolVms'
  BY <1>1, <1>3 DEF PoolVms
<1>6. WarmOwned' /\ CandidatesHeld'
  BY <1>1, <1>2, <1>3, <1>4, VmTypes DEF WarmOwned, VmCanServe, CandidatesHeld
<1>7. ColdOwned' /\ OwnersRan'
  BY <1>1, <1>2, <1>3, <1>4 DEF ColdOwned, OwnersRan, Started
<1>8. ArmedOnce'
  BY <1>1, <1>3, <1>4 DEF ArmedOnce
<1>9. CommitReady'
  <2>1. \A a \in Attempts : pc[a] \in {"commit", "warmCommit"} => vmOf[a] \in Vms
    BY <1>1, VmTypes DEF WarmOwned, ColdOwned, WarmWorkPcs, ColdWorkPcs
  <2> QED
    BY <1>1, <1>2, <1>3, <2>1 DEF CommitReady
<1>10. LaunchedSealed'
  BY <1>1, <1>2, <1>3, <1>4 DEF LaunchedSealed, Alive, Sealed, Deadline
<1>11. MappedSealed'
  <2>1. \A a \in Attempts : mapping[a] # NoVm => mapping[a] \in Vms
    BY <1>1, VmTypes
  <2> QED
    BY <1>1, <1>2, <1>3, <1>4, <2>1 DEF MappedSealed, Alive, Sealed, Deadline, Holding
<1> QED
  BY <1>5, <1>6, <1>7, <1>8, <1>9, <1>10, <1>11 DEF VmInv

\* A row that expires is no running attempt's, and no live VM's.
LEMMA VmInvExpiry ==
  ASSUME LeaseInv, VmInv,
         (\E v \in Vms : ExpireWarmClaim(v)) \/ (\E j \in Jobs : ExpireClaim(j))
  PROVE  VmInv'
<1>1. /\ TypeOK /\ Timed /\ Stamped /\ PoolVms /\ WarmOwned /\ ColdOwned /\ CandidatesHeld
      /\ ArmedOnce /\ CommitReady /\ OwnersRan /\ LaunchedSealed /\ MappedSealed
  BY DEF LeaseInv, ClaimInv, VmInv
<1>2. UNCHANGED <<now, mapping, vm, jobOf, pc, local, vmOf>>
  BY DEF ExpireWarmClaim, ExpireClaim, worldVars, attemptVars
<1>3. PoolVms' /\ ColdOwned' /\ ArmedOnce' /\ CommitReady' /\ OwnersRan'
  BY <1>1, <1>2 DEF PoolVms, ColdOwned, ArmedOnce, CommitReady, OwnersRan, Started, Alive
<1>4. ASSUME NEW v \in Vms, warmClaim[v] > now PROVE warmClaim'[v] = warmClaim[v]
  BY <1>1, <1>4, VmTypes DEF ExpireWarmClaim, ExpireClaim
<1>5. ASSUME NEW a \in Attempts, Holding(a)
      PROVE  /\ local[a].start <= local[a].stamp /\ now <= local[a].start + LambdaTimeout
  BY <1>1, <1>5, PcSets DEF Timed, Stamped, Live, Holding
<1>6. WarmOwned'
  <2> SUFFICES ASSUME NEW a \in Attempts, pc[a] \in WarmWorkPcs
               PROVE  warmClaim'[vmOf[a]] = warmClaim[vmOf[a]]
    BY <1>1, <1>2 DEF WarmOwned, VmCanServe
  <2>1. vmOf[a] \in Vms /\ warmClaim[vmOf[a]] = local[a].stamp + WarmClaimTtl
    BY <1>1, VmTypes DEF WarmOwned
  <2>2. warmClaim[vmOf[a]] > now
    BY <1>1, <1>5, <2>1, VmTypes, WorkIsHeld DEF Holding, Locals
  <2> QED
    BY <1>4, <2>1, <2>2
<1>7. CandidatesHeld'
  <2> SUFFICES ASSUME NEW a \in Attempts, pc[a] = "claimWarm", NEW v \in local[a].cands, Alive(v)
               PROVE  warmClaim'[v] > local[a].start + LambdaTimeout
    BY <1>1, <1>2 DEF CandidatesHeld, Alive
  <2>1. v \in Vms /\ warmClaim[v] > local[a].start + LambdaTimeout
    BY <1>1, VmTypes DEF CandidatesHeld
  <2>2. warmClaim[v] > now
    BY <1>1, <1>5, <2>1, VmTypes, WorkIsHeld DEF Holding, Locals
  <2> QED
    BY <1>4, <2>1, <2>2
<1>8. ASSUME NEW a \in Attempts, NEW v \in Vms, Sealed(a, v) PROVE Sealed(a, v)'
  <2>1. claim'[jobOf[a]] = claim[jobOf[a]]
    <3>1. ASSUME NEW j \in Jobs, ExpireClaim(j) PROVE claim'[jobOf[a]] = claim[jobOf[a]]
      <4>1. claim[j].expiresAt \in Nat /\ now \in Nat
        BY <1>1, LeaseTypes, VmTypes DEF Claims
      <4>2. jobOf[a] # j
        BY <1>8, <3>1, <4>1 DEF ExpireClaim, Sealed
      <4> QED
        BY <1>1, <3>1, <4>2, LeaseTypes DEF ExpireClaim
    <3>2. CASE \E w \in Vms : ExpireWarmClaim(w)
      BY <3>2 DEF ExpireWarmClaim
    <3> QED
      BY <3>1, <3>2
  <2> QED
    BY <1>2, <1>8, <2>1 DEF Sealed, OwnsClaim, Deadline
<1>9. LaunchedSealed'
  BY <1>1, <1>2, <1>8 DEF LaunchedSealed, Alive, Sealed, OwnsClaim, Deadline
<1>10. MappedSealed'
  <2>1. \A a \in Attempts : mapping[a] # NoVm => mapping[a] \in Vms
    BY <1>1, VmTypes
  <2> QED
    BY <1>1, <1>2, <1>8, <2>1 DEF MappedSealed, Alive, Sealed, OwnsClaim, Deadline, Holding
<1> QED
  BY <1>3, <1>6, <1>7, <1>9, <1>10 DEF VmInv

\* The clock stops at a live VM's deadline, and so before its claim's expiry.
LEMMA VmInvTick ==
  ASSUME LeaseInv, VmInv, Tick
  PROVE  VmInv'
<1>1. /\ TypeOK /\ PoolVms /\ WarmOwned /\ ColdOwned /\ CandidatesHeld
      /\ ArmedOnce /\ CommitReady /\ OwnersRan /\ LaunchedSealed /\ MappedSealed
  BY DEF LeaseInv, ClaimInv, VmInv
<1>2. UNCHANGED <<claim, mapping, warmClaim, vm, jobOf, pc, local, vmOf>> /\ now' = now + 1
  BY DEF Tick, tableVars, worldVars, attemptVars
<1>3. PoolVms' /\ WarmOwned' /\ ColdOwned' /\ CandidatesHeld' /\ ArmedOnce' /\ CommitReady'
      /\ OwnersRan'
  BY <1>1, <1>2 DEF PoolVms, WarmOwned, ColdOwned, CandidatesHeld, ArmedOnce, CommitReady, OwnersRan,
                    Started, Alive, VmCanServe
<1>4. ASSUME NEW a \in Attempts, NEW v \in Vms, Alive(v), Sealed(a, v) PROVE Sealed(a, v)'
  <2>1. now < Deadline(v)
    BY <1>4 DEF Tick, Exists, Alive
  <2>2. /\ vm[v] \in MicroVms /\ now \in Nat /\ claim[jobOf[a]].expiresAt \in Nat
        /\ MaxJob \in Nat /\ Grace \in Nat /\ PoolVmCap \in Nat /\ SweepLag \in Nat
    BY <1>1, VmTypes, LeaseTypes, ConstantTypes, TimesAssumption DEF Claims
  <2>3. Deadline(v) \in Nat
    BY <2>2 DEF Deadline, MicroVms
  <2>4. now + 1 < claim[jobOf[a]].expiresAt
    BY <1>4, <2>1, <2>2, <2>3 DEF Sealed
  <2>5. Deadline(v)' = Deadline(v)
    BY <1>2 DEF Deadline
  <2> QED
    BY <1>2, <1>4, <2>4, <2>5 DEF Sealed, OwnsClaim
<1>5. LaunchedSealed'
  BY <1>1, <1>2, <1>4 DEF LaunchedSealed, Alive, Sealed, OwnsClaim, Deadline
<1>6. MappedSealed'
  <2>1. \A a \in Attempts : mapping[a] # NoVm => mapping[a] \in Vms
    BY <1>1, VmTypes
  <2> QED
    BY <1>1, <1>2, <1>4, <2>1 DEF MappedSealed, Alive, Sealed, OwnsClaim, Deadline, Holding
<1> QED
  BY <1>3, <1>5, <1>6 DEF VmInv

LEMMA VmInvSame ==
  ASSUME VmInv, UNCHANGED <<now, tableVars, vm, attemptVars>>
  PROVE  VmInv'
  BY DEF VmInv, PoolVms, WarmOwned, ColdOwned, CandidatesHeld, ArmedOnce, CommitReady, OwnersRan,
         LaunchedSealed, MappedSealed, Started, Alive, Sealed, OwnsClaim, Deadline, Holding, VmCanServe,
         tableVars, attemptVars

LEMMA VmInvStep == LeaseInv /\ VmInv /\ [Next]_vars => VmInv'
<1> SUFFICES ASSUME LeaseInv, VmInv, [Next]_vars PROVE VmInv'
  OBVIOUS
<1>1. ASSUME NEW a \in Attempts, StepOf(a) PROVE VmInv'
  BY <1>1, VmInvAttempt
<1>2. ASSUME NEW v \in Vms, Boot(v) \/ LifetimeEnds(v) PROVE VmInv'
  BY <1>2, VmInvPlatform
<1>3. ASSUME NEW v \in Vms, RunnerFinishes(v) PROVE VmInv'
  BY <1>3, VmInvSame DEF RunnerFinishes
<1>4. CASE (\E v \in Vms : ExpireWarmClaim(v)) \/ (\E j \in Jobs : ExpireClaim(j))
  BY <1>4, VmInvExpiry
<1>5. CASE Tick
  BY <1>5, VmInvTick
<1>6. CASE UNCHANGED vars
  BY <1>6, VmInvSame DEF vars, worldVars
<1> QED
  BY <1>1, <1>2, <1>3, <1>4, <1>5, <1>6 DEF Next, StepOf

\* A launch owns its VM while it works on it, and its claim outlives the VM.
THEOREM VmInvariant == Spec => []VmInv
<1>1. Init => VmInv
  BY VmInvInit
<1>2. LeaseInv /\ VmInv /\ [Next]_vars => VmInv'
  BY VmInvStep
<1> QED
  BY <1>1, <1>2, LeaseInvariant, PTL DEF Spec

(***************************************************************************)
(* However often a job's message is delivered, at most one VM works for    *)
(* it, but for those whose launch was killed or could not terminate them   *)
(* (handleLaunch, compensateAfterRunMicrovm).                              *)
(***************************************************************************)
THEOREM OneVmPerJob == Spec => []OneLiveVmPerJob
<1>1. LeaseInv /\ VmInv => OneLiveVmPerJob
  <2> SUFFICES ASSUME LeaseInv, VmInv, NEW v \in Vms, NEW w \in Vms, v # w, Alive(v), Alive(w),
                      Nobody \notin {vm[v].owner, vm[w].owner},
                      jobOf[vm[v].owner] = jobOf[vm[w].owner],
                      ~LeftBehind(v), ~LeftBehind(w)
               PROVE  FALSE
    BY DEF OneLiveVmPerJob
  <2>1. TypeOK /\ Held /\ OwnersRan /\ LaunchedSealed
    BY DEF LeaseInv, ClaimInv, VmInv
  <2>2. ASSUME NEW u \in Vms, Alive(u), vm[u].owner # Nobody, ~LeftBehind(u)
        PROVE  OwnsClaim(vm[u].owner) /\ vmOf[vm[u].owner] = u
    <3>1. vm[u].owner \in Attempts
      BY <2>1, <2>2, VmTypes DEF MicroVms
    <3>2. Holding(vm[u].owner) \/ pc[vm[u].owner] = "launched"
      BY <2>1, <2>2, <3>1 DEF OwnersRan, LeftBehind, Holding
    <3> QED
      BY <2>1, <2>2, <3>1, <3>2 DEF Held, LaunchedSealed, Sealed, LeftBehind
  <2>3. vm[v].owner = vm[w].owner
    BY <2>2 DEF OwnsClaim
  <2> QED
    BY <2>2, <2>3
<1> QED
  BY <1>1, LeaseInvariant, VmInvariant, PTL

(***************************************************************************)
(* As long as a mapped VM is alive its job's claim names it: the two rows  *)
(* commitLaunch writes as one do not come apart, and the claim's expiresAt *)
(* lies behind the VM's end.                                               *)
(***************************************************************************)
THEOREM ClaimsAreSealed == Spec => []MappedVmSealsClaim
<1>1. VmInv => MappedVmSealsClaim
  BY DEF VmInv, MappedSealed, Sealed, MappedVmSealsClaim
<1> QED
  BY <1>1, VmInvariant, PTL

\* A mapping row is only ever written for a VM that has accepted its runner.
THEOREM MappedVmsAreArmed == Spec => []MappedVmIsArmed
<1>1. VmInv => MappedVmIsArmed
  BY DEF VmInv, MappedSealed, MappedVmIsArmed
<1> QED
  BY <1>1, VmInvariant, PTL

(***************************************************************************)
(* A pooled VM takes one configuration and serves one launch, although its *)
(* warm claim expires while it runs: whoever listed it before it was       *)
(* resumed is gone by then (WARM_CLAIM_TTL_SECONDS).                       *)
(***************************************************************************)
THEOREM OneLaunchPerWarmVm == Spec => []WarmVmServesOneLaunch
<1>1. LeaseInv /\ VmInv => WarmVmServesOneLaunch
  <2> SUFFICES ASSUME LeaseInv, VmInv PROVE WarmVmServesOneLaunch
    OBVIOUS
  <2>1. ASSUME NEW v \in Vms PROVE Cardinality(vm[v].armed) <= 1
    <3>1. CASE vm[v].armed = {}
      BY <3>1, FS_EmptySet
    <3>2. CASE vm[v].armed # {}
      <4>1. PICK a : vm[v].armed = {a}
        BY <3>2 DEF VmInv, ArmedOnce
      <4> QED
        BY <4>1, FS_Singleton
    <3> QED
      BY <3>1, <3>2
  <2>2. ASSUME NEW a \in Attempts, NEW b \in Attempts,
               {pc[a], pc[b]} \subseteq WarmPcs \ {"warm", "claimWarm"}, vmOf[a] = vmOf[b]
        PROVE  a = b
    BY <2>2 DEF VmInv, WarmOwned, WarmWorkPcs, WarmPcs
  <2> QED
    BY <2>1, <2>2 DEF WarmVmServesOneLaunch
<1> QED
  BY <1>1, LeaseInvariant, VmInvariant, PTL

(***************************************************************************)
(* A compensating terminate only ever hits a VM that no other launch has   *)
(* armed: until it has ended, the VM an attempt works on is its own.       *)
(***************************************************************************)
THEOREM CompensationsSpareOthers == Spec => CompensationSparesOthers
<1> DEFINE Own == \A a \in Attempts :
                    pc[a] \in {"warmFail", "compensate"} /\ Alive(vmOf[a])
                      => vm[vmOf[a]].armed \subseteq {a}
<1>1. LeaseInv /\ VmInv => Own
  BY VmTypes DEF LeaseInv, ClaimInv, VmInv, WarmOwned, ColdOwned, ArmedOnce, WarmWorkPcs, ColdWorkPcs
<1>2. Own => [\A a \in Attempts :
                /\ pc[a] \in {"warmFail", "compensate"}
                /\ Alive(vmOf[a]) /\ ~Alive(vmOf[a])'
                /\ pc[a] # pc'[a] /\ pc'[a] # "dead"
                => vm[vmOf[a]].armed \subseteq {a}]_vars
  OBVIOUS
<1> QED
  BY <1>1, <1>2, LeaseInvariant, VmInvariant, PTL DEF CompensationSparesOthers

(***************************************************************************)
(* A pooled VM has a whole job duration left when it is handed one: the    *)
(* grace in warmVmCanServeJob covers the age of the clock it is judged by. *)
(***************************************************************************)
THEOREM WarmVmsOutliveJobs == Spec => WarmVmOutlivesJob
<1> DEFINE Serves == \A v \in Pool :
                       vm'[v].armed # vm[v].armed => vm[v].born + PoolVmCap - now >= MaxJob
<1>1. ASSUME LeaseInv, VmInv, NEW a \in Attempts, StepOf(a) PROVE Serves
  <2> SUFFICES ASSUME NEW v \in Pool, vm'[v].armed # vm[v].armed
               PROVE  vm[v].born + PoolVmCap - now >= MaxJob
    OBVIOUS
  <2>1. /\ TypeOK /\ Timed /\ Stamped /\ PoolVms /\ WarmOwned /\ ColdOwned /\ CandidatesHeld
        /\ v \in Vms
    BY <1>1, VmTypes DEF LeaseInv, ClaimInv, VmInv
  <2>2. Arms(a) /\ v = vmOf[a]
    <3>1. CASE Wins(a)
      BY <2>1, <3>1, VmTypes DEF Wins, MicroVms
    <3>2. CASE Resumes(a) \/ Kills(a)
      BY <2>1, <3>2, VmTypes DEF Resumes, Kills, Terminated, MicroVms
    <3>3. CASE Runs(a)
      BY <2>1, <3>3, VmTypes DEF Runs, PoolVms
    <3>4. CASE Arms(a)
      BY <2>1, <3>4, VmTypes DEF Arms, Arm
    <3> QED
      BY <1>1, <2>1, <3>1, <3>2, <3>3, <3>4, StepKinds DEF Quiet, Bids, Commits, Aims, Unmaps
  <2>3. pc[a] = "warmPush"
    BY <2>1, <2>2 DEF Arms, ColdOwned, ColdWorkPcs
  <2>4. PoolVmCap - (local[a].stamp - vm[v].born) >= MaxJob + Grace
    BY <2>1, <2>2, <2>3 DEF WarmOwned, WarmWorkPcs, VmCanServe
  <2>5. local[a].start <= local[a].stamp /\ now <= local[a].start + LambdaTimeout
    BY <2>1, <2>3, PcSets, WorkIsHeld DEF Timed, Stamped, Live, WarmWorkPcs
  <2>6. /\ local[a].start \in Nat /\ local[a].stamp \in Nat /\ vm[v].born \in Nat /\ now \in Nat
        /\ LambdaTimeout \in Nat /\ PoolVmCap \in Nat /\ MaxJob \in Nat /\ Grace \in Nat
        /\ LambdaTimeout <= Grace
    BY <2>1, VmTypes, ConstantTypes, TimesAssumption, TtlAssumption DEF Locals, MicroVms
  <2> QED
    BY <2>4, <2>5, <2>6
<1>2. ASSUME LeaseInv, VmInv, Next PROVE Serves \/ UNCHANGED vars
  <2>1. ASSUME NEW v \in Vms, Boot(v) \/ LifetimeEnds(v) PROVE Serves
    <3>1. TypeOK
      BY <1>2 DEF LeaseInv, ClaimInv
    <3>2. \A w \in Pool : vm'[w].armed = vm[w].armed
      BY <2>1, <3>1, VmTypes DEF Boot, LifetimeEnds, Terminated, MicroVms
    <3> QED
      BY <3>2
  <2>2. ASSUME UNCHANGED vm PROVE Serves
    BY <2>2
  <2> QED
    BY <1>1, <1>2, <2>1, <2>2
       DEF Next, StepOf, RunnerFinishes, ExpireWarmClaim, ExpireClaim, Tick, worldVars
<1>3. LeaseInv /\ VmInv /\ [Next]_vars => [Serves]_vars
  BY <1>2
<1> QED
  BY <1>3, LeaseInvariant, VmInvariant, PTL DEF Spec, WarmVmOutlivesJob

-----------------------------------------------------------------------------
(* The cold path's configurations, when its launch gives the claim back.   *)

UnarmedPcs == {"idle", "jit", "run"} \cup ClaimPcs \cup WarmPcs

\* How far the configuration of attempt a can have come in VM v.
ArmedAsFarAs(a, v) ==
  /\ pc[a] \in UnarmedPcs => a \notin vm[v].armed
  /\ pc[a] \in ColdWorkPcs /\ a \in vm[v].armed => v = vmOf[a]
  /\ pc[a] = "release" /\ a \in vm[v].armed => ~Alive(v)

\* The VMs of the pool are left out: a fall-back may leave one armed.
ColdArms == \A a \in Attempts : \A v \in Vms \ Pool : ArmedAsFarAs(a, v)

\* A launch comes to its release unarmed, or from a terminate that answered.
LEMMA ReleaseFlow ==
  ASSUME TypeOK, NEW a \in Attempts, StepOf(a)
  PROVE  /\ pc'[a] \in UnarmedPcs => pc[a] \in UnarmedPcs
         /\ pc'[a] = "release" =>
              pc[a] \in {"jit", "run"} \/ (pc[a] = "compensate" /\ Terminated(vmOf[a]))
<1>1. pc \in [Attempts -> Pcs]
  BY DEF TypeOK, Pcs
<1> USE <1>1 DEF Go, GoWith, Skip, UnarmedPcs, WarmPcs, ClaimPcs
<1>2. CASE DeliverLaunch(a) \/ CheckCapacity(a) \/ FailUnclaimed(a) \/ PutClaim(a)
  BY <1>2 DEF DeliverLaunch, CheckCapacity, FailUnclaimed, PutClaim
<1>3. CASE InspectClaim(a) \/ TakeOver(a) \/ Release(a) \/ ListPool(a)
  BY <1>3 DEF InspectClaim, TakeOver, Release, ListPool
<1>4. CASE ClaimWarmVm(a)
  BY <1>4 DEF ClaimWarmVm
<1>5. CASE Resume(a) \/ WarmWaitFails(a) \/ WarmFallBack(a) \/ RunMicrovm(a) \/ Compensate(a)
  BY <1>5 DEF Resume, WarmWaitFails, WarmFallBack, RunMicrovm, Compensate
<1>6. CASE WarmJit(a) \/ ColdJit(a) \/ WarmPush(a) \/ ColdPush(a)
  BY <1>6 DEF WarmJit, ColdJit, WarmPush, ColdPush, GenerateJitConfig, PushJitConfig
<1>7. CASE WarmCommit(a) \/ ColdCommit(a)
  BY <1>7 DEF WarmCommit, ColdCommit, CommitLaunch
<1>8. CASE DeliverTerminate(a) \/ KillVm(a) \/ Unmap(a) \/ Crash(a)
  BY <1>8 DEF DeliverTerminate, KillVm, Unmap, Crash
<1> QED
  BY <1>2, <1>3, <1>4, <1>5, <1>6, <1>7, <1>8 DEF StepOf, LaunchStep, TerminateStep

\* A step of a puts no configuration but a's own in a VM, and that where it works.
LEMMA ArmedBy ==
  ASSUME LeaseInv, VmInv, NEW a \in Attempts, StepOf(a), NEW v \in Vms, NEW b \in vm'[v].armed
  PROVE  /\ b \in vm[v].armed \/ (b = a /\ v = vmOf[a] /\ pc[a] \in {"push", "warmPush"})
         /\ b \in vm[v].armed => (Alive(v)' => Alive(v))
<1>1. TypeOK /\ ArmedOnce
  BY DEF LeaseInv, ClaimInv, VmInv
<1>2. b \in vm[v].armed => (Alive(v)' => Alive(v))
  BY <1>1, VmsKept DEF ArmedOnce
<1>3. CASE UNCHANGED vm
  BY <1>3 DEF Alive
<1>4. CASE Wins(a)
  <2>1. PICK w \in local[a].cands :
          vm' = [vm EXCEPT ![w].owner = a, ![w].since = local[a].stamp]
    BY <1>4 DEF Wins
  <2> QED
    BY <1>1, <1>2, <2>1, VmTypes DEF MicroVms
<1>5. CASE Resumes(a) \/ Kills(a)
  BY <1>1, <1>2, <1>5, VmTypes DEF Resumes, Kills, Terminated, MicroVms
<1>6. CASE Arms(a)
  BY <1>1, <1>2, <1>6, VmTypes DEF Arms, Arm, MicroVms
<1>7. CASE Runs(a)
  <2>1. PICK w \in Vms :
          vm' = [vm EXCEPT ![w] = [state |-> "pending", born |-> now, since |-> now,
                                   owner |-> a, armed |-> {}]]
    BY <1>7 DEF Runs
  <2> QED
    BY <1>1, <1>2, <2>1, VmTypes DEF MicroVms
<1> QED
  BY <1>1, <1>2, <1>3, <1>4, <1>5, <1>6, <1>7, StepKinds DEF Quiet, Bids, Commits, Aims, Unmaps

LEMMA ColdArmsAttempt ==
  ASSUME LeaseInv, VmInv, ColdArms, NEW a \in Attempts, StepOf(a)
  PROVE  ColdArms'
<1>1. TypeOK /\ WarmOwned
  BY DEF LeaseInv, ClaimInv, VmInv
<1> SUFFICES ASSUME NEW b \in Attempts, NEW v \in Vms \ Pool, b \in vm'[v].armed
             PROVE  /\ pc'[b] \notin UnarmedPcs
                    /\ pc'[b] \in ColdWorkPcs => v = vmOf'[b]
                    /\ pc'[b] = "release" => ~Alive(v)'
  BY DEF ColdArms, ArmedAsFarAs
<1>2. /\ b \in vm[v].armed \/ (b = a /\ v = vmOf[a] /\ pc[a] \in {"push", "warmPush"})
      /\ b \in vm[v].armed => (Alive(v)' => Alive(v))
  BY ArmedBy
<1>3. b \in vm[v].armed => ArmedAsFarAs(b, v)
  BY DEF ColdArms
<1>4. CASE b # a
  <2>1. pc'[b] = pc[b] /\ vmOf'[b] = vmOf[b]
    BY <1>1, <1>4, MovedByStep, WorkMoves DEF Moved
  <2> QED
    BY <1>2, <1>3, <1>4, <2>1 DEF ArmedAsFarAs
<1>5. CASE b = a /\ b \in vm[v].armed
  <2>1. pc[a] \notin UnarmedPcs
    BY <1>3, <1>5 DEF ArmedAsFarAs
  <2>2. pc'[a] \notin UnarmedPcs
    BY <1>1, <2>1, ReleaseFlow
  <2>3. pc'[a] \in ColdWorkPcs => v = vmOf'[a]
    <3>1. ~Runs(a)
      BY <2>1 DEF Runs, UnarmedPcs
    <3> QED
      BY <1>1, <1>3, <1>5, <3>1, WorkMoves DEF ArmedAsFarAs
  <2>4. ASSUME pc'[a] = "release" PROVE ~Alive(v)'
    <3>1. pc[a] = "compensate" /\ Terminated(vmOf[a])
      BY <1>1, <2>1, <2>4, ReleaseFlow DEF UnarmedPcs
    <3>2. v = vmOf[a]
      BY <1>3, <1>5, <3>1 DEF ArmedAsFarAs, ColdWorkPcs
    <3> QED
      BY <1>1, <3>1, <3>2, VmTypes DEF Terminated, Alive, MicroVms
  <2> QED
    BY <1>5, <2>2, <2>3, <2>4
<1>6. CASE b = a /\ b \notin vm[v].armed
  <2>1. pc[a] = "push" /\ v = vmOf[a]
    BY <1>1, <1>2, <1>6 DEF WarmOwned, WarmWorkPcs
  <2>2. pc'[a] \notin UnarmedPcs /\ pc'[a] # "release"
    BY <1>1, <2>1, ReleaseFlow DEF UnarmedPcs, ClaimPcs, WarmPcs
  <2>3. pc'[a] \in ColdWorkPcs => vmOf'[a] = vmOf[a]
    BY <1>1, <2>1, WorkMoves DEF Runs
  <2> QED
    BY <1>6, <2>1, <2>2, <2>3
<1> QED
  BY <1>4, <1>5, <1>6

LEMMA ColdArmsStep == LeaseInv /\ VmInv /\ ColdArms /\ [Next]_vars => ColdArms'
<1> SUFFICES ASSUME LeaseInv, VmInv, ColdArms, [Next]_vars PROVE ColdArms'
  OBVIOUS
<1>1. ASSUME NEW a \in Attempts, StepOf(a) PROVE ColdArms'
  BY <1>1, ColdArmsAttempt
<1>2. ASSUME NEW w \in Vms, Boot(w) \/ LifetimeEnds(w) PROVE ColdArms'
  <2>1. UNCHANGED <<pc, vmOf>>
    BY <1>2 DEF Boot, LifetimeEnds, attemptVars
  <2>2. TypeOK
    BY DEF LeaseInv, ClaimInv
  <2>3. \A v \in Vms : vm'[v].armed = vm[v].armed /\ (Alive(v)' => Alive(v))
    BY <1>2, <2>2, VmTypes DEF Boot, LifetimeEnds, Terminated, Alive, MicroVms
  <2> QED
    BY <2>1, <2>3 DEF ColdArms, ArmedAsFarAs
<1>3. ASSUME UNCHANGED <<vm, pc, vmOf>> PROVE ColdArms'
  BY <1>3 DEF ColdArms, ArmedAsFarAs, Alive
<1> QED
  BY <1>1, <1>2, <1>3
     DEF Next, StepOf, RunnerFinishes, ExpireWarmClaim, ExpireClaim, Tick, attemptVars, worldVars, vars

(***************************************************************************)
(* With or without a warm pool, a launch that gives its claim back has left*)
(* no VM of the cold path alive that took its configuration: the claim is  *)
(* released only after a terminate that answered (compensateAfterRun-      *)
(* Microvm), or before anything was pushed.                                *)
(***************************************************************************)
THEOREM ReleasesLeaveNoColdVm ==
  Spec => [](\A a \in Attempts : \A v \in Vms \ Pool :
               pc[a] = "release" /\ a \in vm[v].armed => ~Alive(v))
<1>1. Init => ColdArms
  BY DEF Init, ColdArms, ArmedAsFarAs, ColdWorkPcs
<1>2. LeaseInv /\ VmInv /\ ColdArms /\ [Next]_vars => ColdArms'
  BY ColdArmsStep
<1>3. ColdArms => \A a \in Attempts : \A v \in Vms \ Pool :
                    pc[a] = "release" /\ a \in vm[v].armed => ~Alive(v)
  BY DEF ColdArms, ArmedAsFarAs
<1> QED
  BY <1>1, <1>2, <1>3, LeaseInvariant, VmInvariant, PTL DEF Spec

(***************************************************************************)
(* Where there is no pool to fall back from, a released claim leaves no    *)
(* armed VM at all.  With one it may: WarmFallBack goes on to the cold path*)
(* under the same claim although a push it took for failed had arrived.    *)
(***************************************************************************)
THEOREM ReleasesLeaveNoArmedVm == Pool = {} => (Spec => ReleaseLeavesNoArmedVm)
<1> SUFFICES ASSUME Pool = {} PROVE Spec => ReleaseLeavesNoArmedVm
  OBVIOUS
<1> DEFINE Spent == \A a \in Attempts : \A v \in Vms \ Pool :
                      pc[a] = "release" /\ a \in vm[v].armed => ~Alive(v)
<1>1. Spent => [\A a \in Attempts :
                  pc[a] = "release" /\ OwnsClaim(a) /\ ~OwnsClaim(a)'
                  => \A v \in Vms : a \in vm[v].armed => ~Alive(v)]_vars
  OBVIOUS
<1> HIDE DEF Spent
<1>2. Spec => []Spent
  BY ReleasesLeaveNoColdVm DEF Spent
<1> QED
  BY <1>1, <1>2, PTL DEF ReleaseLeavesNoArmedVm

=============================================================================
