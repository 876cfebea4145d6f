--------------------------- MODULE Launcher_proofs ---------------------------
(***************************************************************************)
(* Launcher for every value of its constants: its type invariant, that a   *)
(* live launch never loses its claim, and that it implements LaunchLease.  *)
(***************************************************************************)
EXTENDS Launcher, TLAPS

Pcs == {"idle"} \cup LivePcs \cup FinalPcs
Locals == [start : Nat, stamp : Nat, seen : Attempts \cup {Nobody},
           cands : SUBSET Vms, pushed : BOOLEAN]
Claims == [holder : Attempts \cup {Nobody}, vm : Vms \cup {NoVm}, at : Nat, expiresAt : Nat]
MicroVms == [state : {"none", "suspended", "pending", "running", "terminated"},
             born : Nat, since : Nat, owner : Attempts \cup {Nobody}, armed : SUBSET Attempts]

\* What SetsAssumption and TimesAssumption say of each constant alone.
LEMMA ConstantTypes ==
  /\ MaxNow \in Nat /\ MaxFaults \in Nat /\ LambdaTimeout \in Nat /\ StaleLease \in Nat
  /\ WarmClaimTtl \in Nat /\ MaxJob \in Nat /\ Grace \in Nat /\ TtlGrace \in Nat
  /\ Nobody \notin Attempts /\ NoVm \notin Vms
  BY SetsAssumption, TimesAssumption

\* The shapes the small constructors build.
LEMMA ConstructorTypes ==
  ASSUME TypeOK, NEW a \in Attempts
  PROVE  /\ NoLocals \in Locals /\ FreeClaim \in Claims /\ PendingClaim(a) \in Claims
         /\ local[a] \in Locals
  BY ConstantTypes DEF TypeOK, NoLocals, FreeClaim, PendingClaim, Locals, Claims, ClaimTtl

\* Moving on keeps program counters and locals well typed.
LEMMA GoWithTypes ==
  ASSUME TypeOK, NEW a \in Attempts, NEW p \in Pcs, NEW l \in Locals, GoWith(a, p, l)
  PROVE  pc' \in [Attempts -> Pcs] /\ local' \in [Attempts -> Locals]
<1>1. NoLocals \in Locals
  BY ConstructorTypes
<1>2. pc \in [Attempts -> Pcs] /\ local \in [Attempts -> Locals]
  BY DEF TypeOK, Pcs, Locals
<1> QED
  BY <1>1, <1>2 DEF GoWith

LEMMA InitTypeOK == Init => TypeOK
<1> SUFFICES ASSUME Init PROVE TypeOK
  OBVIOUS
<1>1. Pool \subseteq Vms
  BY SetsAssumption
<1>2. NoLocals \in Locals /\ FreeClaim \in Claims
  BY ConstantTypes DEF NoLocals, FreeClaim, Locals, Claims
<1>3. vm \in [Vms -> MicroVms]
  BY <1>1 DEF Init, MicroVms
<1> QED
  BY <1>2, <1>3, ConstantTypes DEF Init, TypeOK, Locals, Claims, MicroVms

\* Every place an action can move to.
LEMMA PcNames ==
  /\ FinalPcs \subseteq Pcs /\ LivePcs \subseteq Pcs
  /\ HoldPcs \subseteq LivePcs /\ ClaimPcs \subseteq LivePcs
  /\ {"capacity", "acquire", "inspect", "takeover"} \subseteq Pcs
  /\ {"warm", "claimWarm", "resume", "warmJit", "warmPush", "warmCommit", "warmFail"} \subseteq Pcs
  /\ {"jit", "run", "push", "commit", "compensate", "release", "kill", "unmap"} \subseteq Pcs
  /\ {"dropped", "skipped", "duplicate", "launched", "failed", "unknown", "terminated", "dead"}
       \subseteq Pcs
  BY DEF Pcs, LivePcs, HoldPcs, ClaimPcs, WarmPcs, ColdPcs, TerminatePcs, FinalPcs

\* What the actions write into an attempt's locals.
LEMMA LocalUpdates ==
  ASSUME TypeOK, NEW a \in Attempts
  PROVE  /\ local[a] \in Locals
         /\ [local[a] EXCEPT !.start = now] \in Locals
         /\ [local[a] EXCEPT !.stamp = now] \in Locals
         /\ [local[a] EXCEPT !.pushed = TRUE] \in Locals
         /\ \A S \in SUBSET Vms : [local[a] EXCEPT !.cands = S] \in Locals
         /\ \A b \in Attempts \cup {Nobody} :
              /\ [local[a] EXCEPT !.seen = b] \in Locals
              /\ [local[a] EXCEPT !.start = now, !.seen = b] \in Locals
<1>1. local[a] \in Locals /\ now \in Nat
  BY ConstantTypes DEF TypeOK, Locals
<1>2. \A S \in SUBSET Vms : [local[a] EXCEPT !.cands = S] \in Locals
  BY <1>1 DEF Locals
<1>3. \A b \in Attempts \cup {Nobody} :
        /\ [local[a] EXCEPT !.seen = b] \in Locals
        /\ [local[a] EXCEPT !.start = now, !.seen = b] \in Locals
  BY <1>1 DEF Locals
<1>4. /\ [local[a] EXCEPT !.start = now] \in Locals
      /\ [local[a] EXCEPT !.stamp = now] \in Locals
      /\ [local[a] EXCEPT !.pushed = TRUE] \in Locals
  BY <1>1 DEF Locals
<1> QED
  BY <1>1, <1>2, <1>3, <1>4

Moves(a) == \E p \in Pcs, l \in Locals : GoWith(a, p, l)

LEMMA MovesTypes ==
  ASSUME TypeOK, NEW a \in Attempts, Moves(a)
  PROVE  pc' \in [Attempts -> Pcs] /\ local' \in [Attempts -> Locals]
  BY GoWithTypes DEF Moves

LEMMA FaultTypes ==
  ASSUME TypeOK, NoFault \/ Fault
  PROVE  faults' \in 0..MaxFaults
  BY ConstantTypes DEF TypeOK, NoFault, Fault

LEMMA TypeMoves ==
  ASSUME TypeOK, NEW a \in Attempts, LaunchStep(a) \/ TerminateStep(a) \/ Crash(a)
  PROVE  Moves(a) /\ faults' \in 0..MaxFaults /\ now' = now /\ jobOf' = jobOf
<1> USE LocalUpdates, PcNames, FaultTypes
<1>1. CASE DeliverLaunch(a)
  BY <1>1 DEF DeliverLaunch, Go, Moves, TypeOK
<1>2. CASE CheckCapacity(a)
  BY <1>2 DEF CheckCapacity, Go, Moves, TypeOK
<1>3. CASE FailUnclaimed(a)
  BY <1>3 DEF FailUnclaimed, Go, Moves, TypeOK
<1>4. CASE PutClaim(a)
  BY <1>4 DEF PutClaim, Go, Moves, TypeOK
<1>5. CASE InspectClaim(a)
  BY <1>5 DEF InspectClaim, Go, Moves, TypeOK
<1>6. CASE TakeOver(a)
  BY <1>6 DEF TakeOver, Go, Moves, TypeOK
<1>7. CASE Release(a)
  BY <1>7 DEF Release, Go, Moves, TypeOK
<1>8. CASE ListPool(a)
  BY <1>8 DEF ListPool, Go, Moves, TypeOK
<1>9. CASE ClaimWarmVm(a)
  BY <1>9 DEF ClaimWarmVm, Go, Moves, TypeOK, Skip
<1>10. CASE Resume(a)
  BY <1>10 DEF Resume, Go, Moves, TypeOK
<1>11. CASE WarmJit(a)
  BY <1>11 DEF WarmJit, Go, Moves, TypeOK, GenerateJitConfig
<1>12. CASE WarmWaitFails(a)
  BY <1>12 DEF WarmWaitFails, Go, Moves, TypeOK
<1>13. CASE WarmPush(a)
  BY <1>13 DEF WarmPush, Go, Moves, TypeOK, PushJitConfig
<1>14. CASE WarmCommit(a)
  BY <1>14 DEF WarmCommit, Go, Moves, TypeOK, CommitLaunch
<1>15. CASE WarmFallBack(a)
  BY <1>15 DEF WarmFallBack, Go, Moves, TypeOK
<1>16. CASE ColdJit(a)
  BY <1>16 DEF ColdJit, Go, Moves, TypeOK, GenerateJitConfig
<1>17. CASE RunMicrovm(a)
  BY <1>17 DEF RunMicrovm, Go, Moves, TypeOK
<1>18. CASE ColdPush(a)
  BY <1>18 DEF ColdPush, Go, Moves, TypeOK, PushJitConfig
<1>19. CASE ColdCommit(a)
  BY <1>19 DEF ColdCommit, Go, Moves, TypeOK, CommitLaunch
<1>20. CASE Compensate(a)
  BY <1>20 DEF Compensate, Go, Moves, TypeOK
<1>21. CASE DeliverTerminate(a)
  BY <1>21 DEF DeliverTerminate, Go, Moves, TypeOK
<1>22. CASE KillVm(a)
  BY <1>22 DEF KillVm, Go, Moves, TypeOK
<1>23. CASE Unmap(a)
  BY <1>23 DEF Unmap, Go, Moves, TypeOK
<1>24. CASE Crash(a)
  BY <1>24 DEF Crash, Go, Moves, TypeOK
<1> QED
  BY <1>1, <1>2, <1>3, <1>4, <1>5, <1>6, <1>7, <1>8, <1>9, <1>10, <1>11, <1>12, <1>13, <1>14, <1>15, <1>16, <1>17, <1>18, <1>19, <1>20, <1>21, <1>22, <1>23, <1>24 DEF LaunchStep, TerminateStep


\* The rows of the runner table keep their shape.
LEMMA TypeTables ==
  ASSUME TypeOK, NEW a \in Attempts, LaunchStep(a) \/ TerminateStep(a) \/ Crash(a)
  PROVE  /\ claim' \in [Jobs -> Claims]
         /\ mapping' \in [Attempts -> Vms \cup {NoVm}]
         /\ warmClaim' \in [Vms -> Nat]
         /\ vmOf' \in [Attempts -> Vms \cup {NoVm}]
<1> DEFINE Goal == /\ claim' \in [Jobs -> Claims]
                   /\ mapping' \in [Attempts -> Vms \cup {NoVm}]
                   /\ warmClaim' \in [Vms -> Nat]
                   /\ vmOf' \in [Attempts -> Vms \cup {NoVm}]
<1>1. /\ claim \in [Jobs -> Claims] /\ mapping \in [Attempts -> Vms \cup {NoVm}]
      /\ warmClaim \in [Vms -> Nat] /\ vmOf \in [Attempts -> Vms \cup {NoVm}]
      /\ local \in [Attempts -> Locals] /\ jobOf[a] \in Jobs /\ vmOf[a] \in Vms \cup {NoVm}
      /\ finished \subseteq Attempts
  BY DEF TypeOK, Claims, Locals
<1>2. CASE UNCHANGED <<claim, mapping, warmClaim, vmOf>>
  BY <1>1, <1>2
<1>3. CASE PutClaim(a) \/ TakeOver(a) \/ Release(a)
  BY <1>1, <1>3, ConstructorTypes DEF PutClaim, TakeOver, Release, WriteClaim
<1>4. ASSUME NEW e, CommitLaunch(a, e) PROVE Goal
  BY <1>1, <1>4 DEF CommitLaunch, CommitWrites, Claims
<1>5. CASE ClaimWarmVm(a)
  <2>1. local[a].cands \subseteq Vms /\ local[a].stamp + WarmClaimTtl \in Nat
    BY <1>1, ConstantTypes DEF Locals
  <2>2. UNCHANGED <<claim, mapping>>
    BY <1>5 DEF ClaimWarmVm
  <2>3. CASE UNCHANGED <<warmClaim, vmOf>>
    BY <1>2, <2>2, <2>3
  <2>4. ASSUME NEW v \in Vms,
               warmClaim' = [warmClaim EXCEPT ![v] = local[a].stamp + WarmClaimTtl],
               vmOf' = [vmOf EXCEPT ![a] = v] \/ vmOf' = vmOf
        PROVE  Goal
    BY <1>1, <2>1, <2>2, <2>4
  <2> QED
    BY <1>5, <2>1, <2>3, <2>4 DEF ClaimWarmVm
<1>6. CASE RunMicrovm(a)
  BY <1>1, <1>6 DEF RunMicrovm, tableVars
<1>7. CASE DeliverTerminate(a)
  BY <1>1, <1>7 DEF DeliverTerminate, tableVars
<1>8. CASE Unmap(a)
  BY <1>1, <1>8, ConstantTypes DEF Unmap, Locals
<1>9. CASE WarmCommit(a) \/ ColdCommit(a)
  BY <1>4, <1>9 DEF WarmCommit, ColdCommit
<1>10. CASE WarmPush(a) \/ ColdPush(a) \/ WarmJit(a) \/ ColdJit(a)
  BY <1>2, <1>10 DEF WarmPush, ColdPush, WarmJit, ColdJit, PushJitConfig, GenerateJitConfig, tableVars
<1>11. CASE DeliverLaunch(a) \/ CheckCapacity(a) \/ FailUnclaimed(a) \/ InspectClaim(a)
  BY <1>2, <1>11 DEF DeliverLaunch, CheckCapacity, FailUnclaimed, InspectClaim, tableVars
<1>12. CASE ListPool(a) \/ Resume(a) \/ WarmWaitFails(a) \/ WarmFallBack(a)
  BY <1>2, <1>12 DEF ListPool, Resume, WarmWaitFails, WarmFallBack, tableVars
<1>13. CASE Compensate(a) \/ KillVm(a) \/ Crash(a)
  BY <1>2, <1>13 DEF Compensate, KillVm, Crash, tableVars
<1> QED
  BY <1>3, <1>5, <1>6, <1>7, <1>8, <1>9, <1>10, <1>11, <1>12, <1>13 DEF LaunchStep, TerminateStep

\* The platform's VMs and GitHub's runners keep theirs.
LEMMA TypeWorld ==
  ASSUME TypeOK, NEW a \in Attempts, LaunchStep(a) \/ TerminateStep(a) \/ Crash(a)
  PROVE  vm' \in [Vms -> MicroVms] /\ registered' \subseteq Attempts /\ finished' \subseteq Attempts
<1> DEFINE Goal == vm' \in [Vms -> MicroVms] /\ registered' \subseteq Attempts /\ finished' \subseteq Attempts
<1>1. /\ vm \in [Vms -> MicroVms] /\ registered \subseteq Attempts /\ finished \subseteq Attempts
      /\ vmOf[a] \in Vms \cup {NoVm} /\ local[a] \in Locals /\ now \in Nat
  BY ConstantTypes DEF TypeOK, MicroVms, Locals
<1>2. CASE UNCHANGED <<vm, registered, finished>>
  BY <1>1, <1>2
<1>3. ASSUME NEW v, Terminated(v) PROVE vm' \in [Vms -> MicroVms]
  BY <1>1, <1>3 DEF Terminated, MicroVms
<1>4. ASSUME NEW n, NEW e, PushJitConfig(a, n, e) PROVE Goal
  <2>1. CASE Arm(a)
    <3>1. CASE vmOf[a] \in Vms
      <4>1. [vm[vmOf[a]] EXCEPT !.armed = @ \cup {a}] \in MicroVms
        BY <1>1, <3>1 DEF MicroVms
      <4> QED
        BY <1>1, <1>4, <2>1, <4>1 DEF PushJitConfig, Arm
    <3>2. CASE vmOf[a] \notin Vms
      BY <1>1, <1>4, <2>1, <3>2 DEF PushJitConfig, Arm
    <3> QED
      BY <3>1, <3>2
  <2> QED
    BY <1>1, <1>4, <2>1 DEF PushJitConfig
<1>5. ASSUME NEW n, NEW e, GenerateJitConfig(a, n, e) PROVE Goal
  BY <1>1, <1>5 DEF GenerateJitConfig
<1>6. CASE ClaimWarmVm(a)
  <2>1. local[a].cands \subseteq Vms /\ local[a].stamp \in Nat
    BY <1>1 DEF Locals
  <2>2. UNCHANGED <<registered, finished>>
    BY <1>6 DEF ClaimWarmVm
  <2>3. CASE UNCHANGED vm
    BY <1>2, <2>2, <2>3
  <2>4. ASSUME NEW v \in Vms,
               vm' = [vm EXCEPT ![v].owner = a, ![v].since = local[a].stamp]
        PROVE  Goal
    <3>1. [vm[v] EXCEPT !.owner = a, !.since = local[a].stamp] \in MicroVms
      BY <1>1, <2>1 DEF MicroVms
    <3> QED
      BY <1>1, <2>2, <2>4, <3>1
  <2> QED
    BY <1>6, <2>1, <2>3, <2>4 DEF ClaimWarmVm
<1>7. CASE Resume(a)
  BY <1>1, <1>7 DEF Resume, MicroVms
<1>8. CASE RunMicrovm(a)
  BY <1>1, <1>8 DEF RunMicrovm, MicroVms
<1>9. CASE WarmFallBack(a) \/ Compensate(a) \/ KillVm(a)
  BY <1>1, <1>3, <1>9 DEF WarmFallBack, Compensate, KillVm
<1>10. CASE WarmPush(a) \/ ColdPush(a) \/ WarmJit(a) \/ ColdJit(a)
  BY <1>4, <1>5, <1>10 DEF WarmPush, ColdPush, WarmJit, ColdJit
<1>11. CASE DeliverLaunch(a) \/ CheckCapacity(a) \/ FailUnclaimed(a) \/ InspectClaim(a)
  BY <1>2, <1>11 DEF DeliverLaunch, CheckCapacity, FailUnclaimed, InspectClaim, worldVars
<1>12. CASE PutClaim(a) \/ TakeOver(a) \/ Release(a) \/ ListPool(a) \/ WarmWaitFails(a)
  BY <1>2, <1>12 DEF PutClaim, TakeOver, Release, ListPool, WarmWaitFails, worldVars
<1>13. CASE WarmCommit(a) \/ ColdCommit(a) \/ DeliverTerminate(a) \/ Unmap(a) \/ Crash(a)
  BY <1>2, <1>13 DEF WarmCommit, ColdCommit, CommitLaunch, DeliverTerminate, Unmap, Crash, worldVars
<1> QED
  BY <1>6, <1>7, <1>8, <1>9, <1>10, <1>11, <1>12, <1>13 DEF LaunchStep, TerminateStep


LEMMA TypeStep == TypeOK /\ [Next]_vars => TypeOK'
<1> SUFFICES ASSUME TypeOK, [Next]_vars PROVE TypeOK'
  OBVIOUS
<1>1. ASSUME NEW a \in Attempts, LaunchStep(a) \/ TerminateStep(a) \/ Crash(a)
      PROVE  TypeOK'
  <2>1. now' = now /\ jobOf' = jobOf /\ faults' \in 0..MaxFaults
        /\ pc' \in [Attempts -> Pcs] /\ local' \in [Attempts -> Locals]
    BY <1>1, TypeMoves, MovesTypes
  <2>2. /\ claim' \in [Jobs -> Claims] /\ mapping' \in [Attempts -> Vms \cup {NoVm}]
        /\ warmClaim' \in [Vms -> Nat] /\ vmOf' \in [Attempts -> Vms \cup {NoVm}]
    BY <1>1, TypeTables
  <2>3. vm' \in [Vms -> MicroVms] /\ registered' \subseteq Attempts /\ finished' \subseteq Attempts
    BY <1>1, TypeWorld
  <2>4. now \in 0..MaxNow /\ jobOf \in [Attempts -> Jobs]
    BY DEF TypeOK
  <2> QED
    BY <2>1, <2>2, <2>3, <2>4 DEF TypeOK, Pcs, Locals, Claims, MicroVms
<1>2. ASSUME NEW v \in Vms, Boot(v) \/ LifetimeEnds(v) \/ RunnerFinishes(v) \/ ExpireWarmClaim(v)
      PROVE  TypeOK'
  <2>1. vm \in [Vms -> MicroVms] /\ warmClaim \in [Vms -> Nat]
    BY DEF TypeOK, MicroVms
  <2>2. [vm[v] EXCEPT !.state = "running"] \in MicroVms
        /\ [vm[v] EXCEPT !.state = "terminated"] \in MicroVms
    BY <2>1 DEF MicroVms
  <2>3. vm' \in [Vms -> MicroVms] /\ warmClaim' \in [Vms -> Nat]
    BY <1>2, <2>1, <2>2
       DEF Boot, LifetimeEnds, RunnerFinishes, ExpireWarmClaim, Terminated, worldVars, tableVars
  <2>4. registered' \subseteq Attempts /\ finished' \subseteq Attempts
    BY <1>2, <2>1
       DEF Boot, LifetimeEnds, RunnerFinishes, ExpireWarmClaim, worldVars, TypeOK, MicroVms
  <2>5. UNCHANGED <<now, claim, mapping, faults, attemptVars>>
    BY <1>2 DEF Boot, LifetimeEnds, RunnerFinishes, ExpireWarmClaim, tableVars
  <2> QED
    BY <2>3, <2>4, <2>5 DEF TypeOK, MicroVms, attemptVars
<1>3. ASSUME NEW j \in Jobs, ExpireClaim(j) PROVE TypeOK'
  <2>1. FreeClaim \in Claims /\ claim \in [Jobs -> Claims]
    BY ConstantTypes DEF FreeClaim, Claims, TypeOK
  <2>2. claim' \in [Jobs -> Claims]
    BY <1>3, <2>1 DEF ExpireClaim
  <2> QED
    BY <1>3, <2>2 DEF ExpireClaim, TypeOK, Claims, attemptVars, worldVars
<1>4. CASE Tick
  BY <1>4, ConstantTypes DEF Tick, TypeOK, tableVars, worldVars, attemptVars
<1>5. CASE UNCHANGED vars
  BY <1>5 DEF TypeOK, vars, tableVars, worldVars, attemptVars
<1> QED
  BY <1>1, <1>2, <1>3, <1>4, <1>5 DEF Next

(***************************************************************************)
(* Every variable keeps the shape the code gives it, for any number of     *)
(* jobs, attempts and VMs and any timeouts.                                *)
(***************************************************************************)
THEOREM TypeCorrect == Spec => []TypeOK
  BY InitTypeOK, TypeStep, PTL DEF Spec

-----------------------------------------------------------------------------
(***************************************************************************)
(* The claim.  HolderKeepsClaim is not inductive: that a takeover spares a *)
(* live holder rests on the clock (an attempt lives LambdaTimeout at most, *)
(* a claim is as young as its holder), that expiry spares it on the row's  *)
(* expiresAt, and between InspectClaim and TakeOver on the holder that was *)
(* read being gone for good.                                               *)
(***************************************************************************)
StampedPcs == {"acquire", "inspect", "takeover"} \cup HoldPcs

Timed ==
  \A a \in Attempts :
    Live(a) => local[a].start <= now /\ now <= local[a].start + LambdaTimeout

Stamped ==
  \A a \in Attempts :
    pc[a] \in StampedPcs => local[a].start <= local[a].stamp /\ local[a].stamp <= now

Held ==
  \A a \in Attempts :
    Holding(a) => OwnsClaim(a) /\ claim[jobOf[a]].expiresAt = local[a].stamp + ClaimTtl

Owned ==
  \A j \in Jobs, b \in Attempts :
    claim[j].holder = b => pc[b] # "idle" /\ (Live(b) => local[b].start <= claim[j].at)

SeenIsGone ==
  \A a \in Attempts :
    pc[a] = "takeover" /\ local[a].seen \in Attempts => pc[local[a].seen] \in FinalPcs

ClaimInv == TypeOK /\ Timed /\ Stamped /\ Held /\ Owned /\ SeenIsGone

(***************************************************************************)
(* How one step moves an attempt's program counter, start and stamp.       *)
(***************************************************************************)
StepOf(a) == LaunchStep(a) \/ TerminateStep(a) \/ Crash(a)

StartOk(a) ==
  Live(a)' => local'[a].start = IF Live(a) THEN local[a].start ELSE now

StampOk(a) ==
  pc'[a] \in StampedPcs =>
    /\ Live(a)
    /\ local'[a].stamp = IF pc[a] \in StampedPcs THEN local[a].stamp ELSE now

PcOk(a) ==
  /\ pc[a] \notin FinalPcs /\ pc'[a] # "idle"
  /\ Holding(a)' => Holding(a) \/ pc[a] \in {"acquire", "takeover"}
  /\ pc'[a] = "takeover" => InspectClaim(a)

Moved(a) ==
  /\ PcOk(a) /\ StartOk(a) /\ StampOk(a)
  /\ \A b \in Attempts \ {a} : pc'[b] = pc[b] /\ local'[b] = local[b]

LEMMA MovedByStep ==
  ASSUME TypeOK, NEW a \in Attempts, StepOf(a)
  PROVE  Moved(a)
<1>1. pc \in [Attempts -> Pcs] /\ local \in [Attempts -> Locals] /\ now \in Nat
  BY ConstantTypes DEF TypeOK, Pcs, Locals
<1>2. \A b \in Attempts \ {a} : pc'[b] = pc[b] /\ local'[b] = local[b]
  BY <1>1, TypeMoves DEF StepOf, Moves, GoWith
<1> USE <1>1 DEF Go, GoWith, PcOk, StartOk, StampOk, Live, Holding, StampedPcs, LivePcs, HoldPcs,
             ClaimPcs, WarmPcs, ColdPcs, TerminatePcs, FinalPcs, Locals
<1>3. ASSUME DeliverLaunch(a) PROVE PcOk(a) /\ StartOk(a) /\ StampOk(a)
  BY <1>3 DEF DeliverLaunch
<1>4. ASSUME CheckCapacity(a) PROVE PcOk(a) /\ StartOk(a) /\ StampOk(a)
  BY <1>4 DEF CheckCapacity
<1>5. ASSUME FailUnclaimed(a) PROVE PcOk(a) /\ StartOk(a) /\ StampOk(a)
  BY <1>5 DEF FailUnclaimed
<1>6. ASSUME PutClaim(a) PROVE PcOk(a) /\ StartOk(a) /\ StampOk(a)
  BY <1>6 DEF PutClaim
<1>7. ASSUME InspectClaim(a) PROVE PcOk(a) /\ StartOk(a) /\ StampOk(a)
  BY <1>7 DEF InspectClaim
<1>8. ASSUME TakeOver(a) PROVE PcOk(a) /\ StartOk(a) /\ StampOk(a)
  BY <1>8 DEF TakeOver
<1>9. ASSUME Release(a) PROVE PcOk(a) /\ StartOk(a) /\ StampOk(a)
  BY <1>9 DEF Release
<1>10. ASSUME ListPool(a) PROVE PcOk(a) /\ StartOk(a) /\ StampOk(a)
  BY <1>10 DEF ListPool
<1>11. ASSUME ClaimWarmVm(a) PROVE PcOk(a) /\ StartOk(a) /\ StampOk(a)
  <2>1. CASE Go(a, "jit") \/ Go(a, "resume")
    BY <1>11, <2>1 DEF ClaimWarmVm
  <2>2. ASSUME NEW v, Skip(a, v)
        PROVE  /\ pc' = [pc EXCEPT ![a] = "claimWarm"]
               /\ local'[a].start = local[a].start /\ local'[a].stamp = local[a].stamp
    BY <2>2 DEF Skip
  <2>3. ASSUME NEW v, Skip(a, v) PROVE PcOk(a) /\ StartOk(a) /\ StampOk(a)
    BY <1>11, <2>2, <2>3 DEF ClaimWarmVm
  <2> QED
    BY <1>11, <2>1, <2>3 DEF ClaimWarmVm
<1>12. ASSUME Resume(a) PROVE PcOk(a) /\ StartOk(a) /\ StampOk(a)
  BY <1>12 DEF Resume
<1>13. ASSUME WarmJit(a) PROVE PcOk(a) /\ StartOk(a) /\ StampOk(a)
  BY <1>13 DEF WarmJit, GenerateJitConfig
<1>14. ASSUME WarmWaitFails(a) PROVE PcOk(a) /\ StartOk(a) /\ StampOk(a)
  BY <1>14 DEF WarmWaitFails
<1>15. ASSUME WarmPush(a) PROVE PcOk(a) /\ StartOk(a) /\ StampOk(a)
  BY <1>15 DEF WarmPush, PushJitConfig
<1>16. ASSUME WarmCommit(a) PROVE PcOk(a) /\ StartOk(a) /\ StampOk(a)
  BY <1>16 DEF WarmCommit, CommitLaunch
<1>17. ASSUME WarmFallBack(a) PROVE PcOk(a) /\ StartOk(a) /\ StampOk(a)
  BY <1>17 DEF WarmFallBack
<1>18. ASSUME ColdJit(a) PROVE PcOk(a) /\ StartOk(a) /\ StampOk(a)
  BY <1>18 DEF ColdJit, GenerateJitConfig
<1>19. ASSUME RunMicrovm(a) PROVE PcOk(a) /\ StartOk(a) /\ StampOk(a)
  BY <1>19 DEF RunMicrovm
<1>20. ASSUME ColdPush(a) PROVE PcOk(a) /\ StartOk(a) /\ StampOk(a)
  BY <1>20 DEF ColdPush, PushJitConfig
<1>21. ASSUME ColdCommit(a) PROVE PcOk(a) /\ StartOk(a) /\ StampOk(a)
  BY <1>21 DEF ColdCommit, CommitLaunch
<1>22. ASSUME Compensate(a) PROVE PcOk(a) /\ StartOk(a) /\ StampOk(a)
  BY <1>22 DEF Compensate
<1>23. ASSUME DeliverTerminate(a) PROVE PcOk(a) /\ StartOk(a) /\ StampOk(a)
  <2>1. CASE Go(a, "unknown")
    BY <1>23, <2>1 DEF DeliverTerminate
  <2>2. ASSUME NEW r,
               GoWith(a, "kill", [local[a] EXCEPT !.start = now, !.seen = r])
        PROVE  PcOk(a) /\ StartOk(a) /\ StampOk(a)
    <3>1. pc'[a] = "kill" /\ local'[a].start = now
      BY <2>2
    <3> QED
      BY <1>23, <3>1 DEF DeliverTerminate
  <2> QED
    BY <1>23, <2>1, <2>2 DEF DeliverTerminate
<1>24. ASSUME KillVm(a) PROVE PcOk(a) /\ StartOk(a) /\ StampOk(a)
  BY <1>24 DEF KillVm
<1>25. ASSUME Unmap(a) PROVE PcOk(a) /\ StartOk(a) /\ StampOk(a)
  BY <1>25 DEF Unmap
<1>26. ASSUME Crash(a) PROVE PcOk(a) /\ StartOk(a) /\ StampOk(a)
  BY <1>26 DEF Crash
<1> QED
  BY <1>2, <1>3, <1>4, <1>5, <1>6, <1>7, <1>8, <1>9, <1>10, <1>11, <1>12, <1>13, <1>14, <1>15, <1>16, <1>17, <1>18, <1>19, <1>20, <1>21, <1>22, <1>23, <1>24, <1>25, <1>26
     DEF Moved, StepOf, LaunchStep, TerminateStep

-----------------------------------------------------------------------------
(* What one step of an attempt does to the claims.                         *)

Takes(a) ==
  /\ pc[a] \in {"acquire", "takeover"}
  /\ pc[a] = "acquire" => ClaimAbsent(a)
  /\ pc[a] = "takeover" => claim[jobOf[a]].holder = local[a].seen
  /\ WriteClaim(a)

GivesUp(a) ==
  /\ pc[a] = "release" /\ OwnsClaim(a) /\ pc'[a] = "failed"
  /\ claim' = [claim EXCEPT ![jobOf[a]] = FreeClaim]

Seals(a) ==
  /\ pc[a] \in {"commit", "warmCommit"} /\ OwnsClaim(a)
  /\ claim' = [claim EXCEPT ![jobOf[a]].vm = vmOf[a]]

LEMMA ClaimEffects ==
  ASSUME TypeOK, NEW a \in Attempts, StepOf(a)
  PROVE  /\ UNCHANGED claim \/ Takes(a) \/ GivesUp(a) \/ Seals(a)
         /\ Holding(a)' /\ ~Holding(a) => Takes(a)
<1> DEFINE Effect == /\ UNCHANGED claim \/ Takes(a) \/ GivesUp(a) \/ Seals(a)
                     /\ Holding(a)' /\ ~Holding(a) => Takes(a)
<1>1. Moved(a) /\ pc \in [Attempts -> Pcs]
  BY MovedByStep DEF TypeOK, Pcs
<1>2. CASE PutClaim(a)
  BY <1>1, <1>2 DEF PutClaim, Takes, Go, GoWith, Holding, HoldPcs, WarmPcs, ColdPcs
<1>3. CASE TakeOver(a)
  BY <1>1, <1>3 DEF TakeOver, Takes, Go, GoWith, Holding, HoldPcs, WarmPcs, ColdPcs
<1>4. CASE Release(a)
  BY <1>1, <1>4 DEF Release, GivesUp, Go, GoWith, Holding, HoldPcs, WarmPcs, ColdPcs
<1>5. CASE WarmCommit(a) \/ ColdCommit(a)
  BY <1>5 DEF WarmCommit, ColdCommit, CommitLaunch, CommitWrites, Seals, Holding, HoldPcs,
              WarmPcs, ColdPcs
<1>6. CASE UNCHANGED claim /\ pc[a] \notin {"acquire", "takeover"}
  BY <1>1, <1>6 DEF Moved, PcOk
<1>7. CASE DeliverLaunch(a) \/ CheckCapacity(a) \/ InspectClaim(a) \/ DeliverTerminate(a)
           \/ KillVm(a) \/ Unmap(a)
  BY <1>6, <1>7 DEF DeliverLaunch, CheckCapacity, InspectClaim, DeliverTerminate, KillVm, Unmap,
                    tableVars
<1>8. CASE FailUnclaimed(a) \/ Crash(a)
  <2>1. UNCHANGED claim /\ pc'[a] \in {"failed", "dead"}
    BY <1>1, <1>8 DEF FailUnclaimed, Crash, Go, GoWith, tableVars
  <2> QED
    BY <2>1 DEF Holding, HoldPcs, WarmPcs, ColdPcs
<1>9. CASE ListPool(a) \/ ClaimWarmVm(a) \/ Resume(a) \/ WarmWaitFails(a) \/ WarmFallBack(a)
  BY <1>6, <1>9 DEF ListPool, ClaimWarmVm, Resume, WarmWaitFails, WarmFallBack, tableVars
<1>10. CASE WarmJit(a) \/ WarmPush(a) \/ ColdJit(a) \/ ColdPush(a) \/ RunMicrovm(a) \/ Compensate(a)
  BY <1>6, <1>10 DEF WarmJit, WarmPush, ColdJit, ColdPush, RunMicrovm, Compensate,
                     GenerateJitConfig, PushJitConfig, tableVars
<1> QED
  BY <1>2, <1>3, <1>4, <1>5, <1>7, <1>8, <1>9, <1>10 DEF StepOf, LaunchStep, TerminateStep

-----------------------------------------------------------------------------
(* The inductive step, one conjunct of ClaimInv at a time.                 *)

LEMMA PcSets ==
  /\ HoldPcs \subseteq StampedPcs /\ StampedPcs \subseteq LivePcs
  /\ LivePcs \cap FinalPcs = {} /\ "idle" \notin LivePcs \cup FinalPcs
  /\ {"acquire", "inspect", "takeover"} \cap HoldPcs = {}
  /\ {"failed", "dead"} \subseteq FinalPcs
  BY DEF StampedPcs, LivePcs, HoldPcs, ClaimPcs, WarmPcs, ColdPcs, TerminatePcs, FinalPcs

LEMMA AttemptStep ==
  ASSUME ClaimInv, NEW a \in Attempts, StepOf(a)
  PROVE  Timed' /\ Stamped' /\ Held' /\ Owned' /\ SeenIsGone'
<1>1. TypeOK /\ TypeOK' /\ Timed /\ Stamped /\ Held /\ Owned /\ SeenIsGone
  BY TypeStep DEF ClaimInv, StepOf, Next
<1>2. Moved(a) /\ now' = now /\ jobOf' = jobOf
  BY <1>1, MovedByStep, TypeMoves DEF StepOf
<1>3. /\ UNCHANGED claim \/ Takes(a) \/ GivesUp(a) \/ Seals(a)
      /\ Holding(a)' /\ ~Holding(a) => Takes(a)
  BY <1>1, ClaimEffects
<1>4. /\ now \in Nat /\ LambdaTimeout \in Nat /\ StaleLease \in Nat /\ ClaimTtl \in Nat
      /\ LambdaTimeout < StaleLease /\ LambdaTimeout < ClaimTtl
      /\ Nobody \notin Attempts
      /\ jobOf \in [Attempts -> Jobs] /\ claim \in [Jobs -> Claims] /\ claim' \in [Jobs -> Claims]
      /\ pc \in [Attempts -> Pcs] /\ local \in [Attempts -> Locals] /\ local' \in [Attempts -> Locals]
  BY <1>1, ConstantTypes, TimesAssumption, TtlAssumption DEF TypeOK, Claims, Pcs, Locals, ClaimTtl
<1>5. Timed'
  <2> SUFFICES ASSUME NEW b \in Attempts, Live(b)'
               PROVE  local'[b].start <= now' /\ now' <= local'[b].start + LambdaTimeout
    BY DEF Timed
  <2>1. CASE b = a
    BY <1>1, <1>2, <1>4, <2>1 DEF Moved, StartOk, Timed, Locals
  <2>2. CASE b # a
    BY <1>1, <1>2, <2>2 DEF Moved, Timed, Live
  <2> QED
    BY <2>1, <2>2
<1>6. Stamped'
  <2> SUFFICES ASSUME NEW b \in Attempts, pc'[b] \in StampedPcs
               PROVE  local'[b].start <= local'[b].stamp /\ local'[b].stamp <= now'
    BY DEF Stamped
  <2>1. CASE b = a
    <3>1. Live(a) /\ Live(a)'
      BY <1>2, <2>1, PcSets DEF Moved, StampOk, Live
    <3> QED
      BY <1>1, <1>2, <1>4, <2>1, <3>1 DEF Moved, StartOk, StampOk, Stamped, Timed, Locals
  <2>2. CASE b # a
    BY <1>1, <1>2, <2>2 DEF Moved, Stamped
  <2> QED
    BY <2>1, <2>2
<1>7. Held'
  <2> SUFFICES ASSUME NEW b \in Attempts, Holding(b)'
               PROVE  OwnsClaim(b)' /\ claim'[jobOf[b]].expiresAt = local'[b].stamp + ClaimTtl
    BY <1>2 DEF Held
  <2>1. CASE b = a /\ ~Holding(a)
    <3>1. Takes(a) /\ pc[a] \in StampedPcs /\ pc'[a] \in StampedPcs
      BY <1>3, <2>1, PcSets DEF Takes, StampedPcs, Holding
    <3>2. claim'[jobOf[a]] = PendingClaim(a) /\ local'[a].stamp = local[a].stamp
      BY <1>2, <1>4, <3>1 DEF Takes, WriteClaim, Moved, StampOk
    <3> QED
      BY <1>2, <2>1, <3>2 DEF PendingClaim, OwnsClaim
  <2>2. CASE Holding(b) /\ (b = a => Holding(a))
    <3>1. OwnsClaim(b) /\ claim[jobOf[b]].expiresAt = local[b].stamp + ClaimTtl
      BY <1>1, <2>2 DEF Held
    <3>2. local'[b].stamp = local[b].stamp
      BY <1>2, <2>2, PcSets DEF Moved, StampOk, Holding
    <3>3. CASE UNCHANGED claim
      BY <1>2, <3>1, <3>2, <3>3 DEF OwnsClaim
    <3>4. CASE Takes(a)
      <4>1. jobOf[a] # jobOf[b]
        <5>1. CASE pc[a] = "acquire"
          BY <1>4, <3>1, <3>4, <5>1 DEF Takes, ClaimAbsent, FreeClaim, OwnsClaim
        <5>2. CASE pc[a] = "takeover"
          BY <1>1, <2>2, <3>1, <3>4, <5>2, PcSets
             DEF Takes, OwnsClaim, SeenIsGone, Holding, StampedPcs
        <5> QED
          BY <3>4, <5>1, <5>2 DEF Takes
      <4> QED
        BY <1>2, <1>4, <3>1, <3>2, <3>4, <4>1 DEF Takes, WriteClaim, OwnsClaim
    <3>5. CASE GivesUp(a)
      <4>1. b # a
        BY <3>5, PcSets DEF GivesUp, Holding, StampedPcs
      <4>2. jobOf[a] # jobOf[b]
        BY <3>1, <3>5, <4>1 DEF GivesUp, OwnsClaim
      <4> QED
        BY <1>2, <1>4, <3>1, <3>2, <3>5, <4>2 DEF GivesUp, OwnsClaim
    <3>6. CASE Seals(a)
      BY <1>2, <1>4, <3>1, <3>2, <3>6 DEF Seals, OwnsClaim, Claims
    <3> QED
      BY <1>3, <3>3, <3>4, <3>5, <3>6
  <2> QED
    BY <1>2, <2>1, <2>2 DEF Moved, Holding
<1>8. Owned'
  <2> SUFFICES ASSUME NEW j \in Jobs, NEW b \in Attempts, claim'[j].holder = b
               PROVE  pc'[b] # "idle" /\ (Live(b)' => local'[b].start <= claim'[j].at)
    BY DEF Owned
  <2>1. CASE claim[j].holder = b /\ claim'[j].at = claim[j].at
    <3>1. pc[b] # "idle" /\ (Live(b) => local[b].start <= claim[j].at)
      BY <1>1, <2>1 DEF Owned
    <3>2. CASE b = a
      <4>1. Live(a)' => Live(a)
        BY <1>2, <1>4, <3>1, <3>2 DEF Moved, PcOk, Live, Pcs
      <4> QED
        BY <1>2, <2>1, <3>1, <3>2, <4>1 DEF Moved, PcOk, StartOk
    <3>3. CASE b # a
      BY <1>2, <2>1, <3>1, <3>3 DEF Moved, Live
    <3> QED
      BY <3>2, <3>3
  <2>2. CASE Takes(a) /\ j = jobOf[a]
    <3>1. b = a /\ claim'[j].at = local[a].stamp
      BY <1>4, <2>2 DEF Takes, WriteClaim, PendingClaim
    <3>2. Live(a) /\ local[a].start <= local[a].stamp
      BY <1>1, <2>2, PcSets DEF Takes, Stamped, StampedPcs, Live
    <3> QED
      BY <1>2, <3>1, <3>2 DEF Moved, PcOk, StartOk
  <2>3. CASE UNCHANGED claim \/ (Takes(a) /\ j # jobOf[a])
    BY <1>4, <2>1, <2>3 DEF Takes, WriteClaim
  <2>4. CASE GivesUp(a) \/ Seals(a)
    BY <1>4, <2>1, <2>4 DEF GivesUp, Seals, FreeClaim, Claims
  <2> QED
    BY <1>3, <2>2, <2>3, <2>4
<1>9. SeenIsGone'
  <2> SUFFICES ASSUME NEW c \in Attempts, pc'[c] = "takeover", local'[c].seen \in Attempts
               PROVE  pc'[local'[c].seen] \in FinalPcs
    BY DEF SeenIsGone
  <2>1. ASSUME NEW b \in Attempts, pc[b] \in FinalPcs PROVE pc'[b] \in FinalPcs
    BY <1>2, <2>1 DEF Moved, PcOk
  <2>2. CASE c # a
    BY <1>1, <1>2, <2>1, <2>2 DEF Moved, SeenIsGone
  <2>3. CASE c = a
    <3>1. InspectClaim(a) /\ pc[a] = "inspect"
      BY <1>2, <2>3 DEF Moved, PcOk, InspectClaim
    <3>2. LeaseIsStale(a) /\ local'[a].seen = claim[jobOf[a]].holder
      BY <1>4, <2>3, <3>1 DEF InspectClaim, Go, GoWith, FinalPcs, Locals, Claims
    <3> DEFINE b == claim[jobOf[a]].holder
    <3>3. b \in Attempts /\ jobOf[a] \in Jobs
      BY <1>4, <2>3, <3>2
    <3>4. pc[b] # "idle" /\ (Live(b) => local[b].start <= claim[jobOf[a]].at)
      BY <1>1, <3>3 DEF Owned
    <3>5. local[a].stamp <= now
      BY <1>1, <3>1 DEF Stamped, StampedPcs
    <3>6. ~Live(b)
      BY <1>1, <1>4, <3>2, <3>3, <3>4, <3>5 DEF Timed, LeaseIsStale, Locals, Claims
    <3>7. pc[b] \in FinalPcs
      BY <1>4, <3>3, <3>4, <3>6 DEF Live, Pcs
    <3> QED
      BY <2>1, <2>3, <3>2, <3>3, <3>7
  <2> QED
    BY <2>2, <2>3
<1> QED
  BY <1>5, <1>6, <1>7, <1>8, <1>9

LEMMA ClaimInvInit == Init => ClaimInv
<1> SUFFICES ASSUME Init PROVE ClaimInv
  OBVIOUS
<1>1. \A a \in Attempts : pc[a] = "idle"
  BY DEF Init
<1>2. \A j \in Jobs : claim[j].holder = Nobody
  BY DEF Init, FreeClaim
<1>3. Nobody \notin Attempts /\ "idle" \notin LivePcs /\ "idle" \notin StampedPcs /\ "idle" \notin HoldPcs
  BY ConstantTypes, PcSets
<1> QED
  BY <1>1, <1>2, <1>3, InitTypeOK DEF ClaimInv, Timed, Stamped, Held, Owned, SeenIsGone, Live, Holding

LEMMA ClaimInvStep == ClaimInv /\ [Next]_vars => ClaimInv'
<1> SUFFICES ASSUME ClaimInv, [Next]_vars PROVE ClaimInv'
  OBVIOUS
<1>1. TypeOK /\ TypeOK' /\ Timed /\ Stamped /\ Held /\ Owned /\ SeenIsGone
  BY TypeStep DEF ClaimInv
<1>2. ASSUME NEW a \in Attempts, StepOf(a) PROVE ClaimInv'
  BY <1>1, <1>2, AttemptStep DEF ClaimInv
<1>3. CASE UNCHANGED <<now, claim, attemptVars>>
  BY <1>1, <1>3 DEF ClaimInv, Timed, Stamped, Held, Owned, SeenIsGone, Live, Holding, OwnsClaim,
                    attemptVars
<1>4. CASE \E v \in Vms : Boot(v) \/ LifetimeEnds(v) \/ RunnerFinishes(v) \/ ExpireWarmClaim(v)
  BY <1>3, <1>4 DEF Boot, LifetimeEnds, RunnerFinishes, ExpireWarmClaim, tableVars
<1>5. ASSUME NEW j \in Jobs, ExpireClaim(j) PROVE ClaimInv'
  <2>1. UNCHANGED <<now, attemptVars>> /\ claim' = [claim EXCEPT ![j] = FreeClaim]
    BY <1>5 DEF ExpireClaim
  <2>2. now \in Nat /\ LambdaTimeout \in Nat /\ ClaimTtl \in Nat /\ LambdaTimeout < ClaimTtl
        /\ local \in [Attempts -> Locals] /\ claim \in [Jobs -> Claims] /\ Nobody \notin Attempts
    BY <1>1, ConstantTypes, TtlAssumption DEF TypeOK, Locals, Claims, ClaimTtl
  <2>3. ASSUME NEW a \in Attempts, Holding(a) PROVE jobOf[a] # j
    <3>1. claim[jobOf[a]].expiresAt = local[a].stamp + ClaimTtl
      BY <1>1, <2>3 DEF Held
    <3>2. local[a].start <= local[a].stamp /\ now <= local[a].start + LambdaTimeout
      BY <1>1, <2>3, PcSets DEF Stamped, Timed, Live, Holding
    <3> QED
      BY <1>5, <2>2, <3>1, <3>2 DEF ExpireClaim, Locals
  <2>4. Held'
    BY <1>1, <2>1, <2>2, <2>3 DEF Held, Holding, OwnsClaim, attemptVars
  <2>5. Owned'
    BY <1>1, <2>1, <2>2 DEF Owned, Live, FreeClaim, attemptVars
  <2> QED
    BY <1>1, <2>1, <2>4, <2>5 DEF ClaimInv, Timed, Stamped, SeenIsGone, Live, attemptVars
<1>6. CASE Tick
  <2>1. UNCHANGED <<claim, attemptVars>> /\ now' = now + 1
        /\ \A a \in Attempts : Live(a) => now < local[a].start + LambdaTimeout
    BY <1>6 DEF Tick, tableVars
  <2>2. now \in Nat /\ LambdaTimeout \in Nat /\ local \in [Attempts -> Locals]
    BY <1>1, ConstantTypes DEF TypeOK, Locals
  <2>3. Timed'
    BY <1>1, <2>1, <2>2 DEF Timed, Live, Locals, attemptVars
  <2>4. Stamped'
    BY <1>1, <2>1, <2>2 DEF Stamped, Locals, attemptVars
  <2> QED
    BY <1>1, <2>1, <2>3, <2>4 DEF ClaimInv, Held, Owned, SeenIsGone, Live, Holding, OwnsClaim,
                                  attemptVars
<1>7. CASE UNCHANGED vars
  BY <1>3, <1>7 DEF vars, tableVars
<1> QED
  BY <1>2, <1>4, <1>5, <1>6, <1>7 DEF Next, StepOf

THEOREM ClaimInvariant == Spec => []ClaimInv
  BY ClaimInvInit, ClaimInvStep, PTL DEF Spec

(***************************************************************************)
(* A live launch keeps its claim (acquireLaunchClaim, STALE_LEASE_SECONDS),*)
(* whatever the number of attempts, faults and VMs, provided an invocation *)
(* is shorter than the lease and than a claim's time to live.              *)
(***************************************************************************)
THEOREM ClaimsAreKept == Spec => []HolderKeepsClaim
<1>1. ClaimInv => HolderKeepsClaim
  BY DEF ClaimInv, Held, HolderKeepsClaim
<1> QED
  BY <1>1, ClaimInvariant, PTL

(***************************************************************************)
(* So two live launches never work for one job: the row has one token.     *)
(***************************************************************************)
THEOREM OneHolder == Spec => []OneHolderPerJob
<1>1. HolderKeepsClaim => OneHolderPerJob
  BY DEF HolderKeepsClaim, OneHolderPerJob, OwnsClaim
<1> QED
  BY <1>1, ClaimsAreKept, PTL

-----------------------------------------------------------------------------
(***************************************************************************)
(* The refinement: read through LeaseOf, every step of the launcher is a   *)
(* step of LaunchLease or none.                                            *)
(***************************************************************************)

(***************************************************************************)
(* ClaimInv says that a live holder keeps its claim.  The lease asks for   *)
(* two things more: a committed claim names an attempt, and a claim that   *)
(* is about to be taken over has not been committed since it was read.     *)
(***************************************************************************)
CommittedIsOwned == \A j \in Jobs : Committed(j) => claim[j].holder \in Attempts

SeenIsPending ==
  \A a \in Attempts :
    pc[a] = "takeover" /\ claim[jobOf[a]].holder = local[a].seen => ~Committed(jobOf[a])

LeaseInv == ClaimInv /\ CommittedIsOwned /\ SeenIsPending

\* The facts about types that the steps below share.
LEMMA LeaseTypes ==
  ASSUME TypeOK
  PROVE  /\ jobOf \in [Attempts -> Jobs] /\ claim \in [Jobs -> Claims]
         /\ pc \in [Attempts -> Pcs] /\ local \in [Attempts -> Locals]
         /\ NoVm \notin Vms /\ Nobody \notin Attempts
  BY ConstantTypes DEF TypeOK, Claims, Pcs, Locals

LEMMA LeaseInvInit == Init => LeaseInv
<1> SUFFICES ASSUME Init PROVE LeaseInv
  OBVIOUS
<1>1. ClaimInv
  BY ClaimInvInit
<1>2. \A j \in Jobs : ~Committed(j)
  BY DEF Init, FreeClaim, Committed
<1>3. \A a \in Attempts : pc[a] = "idle"
  BY DEF Init
<1> QED
  BY <1>1, <1>2, <1>3 DEF LeaseInv, CommittedIsOwned, SeenIsPending

-----------------------------------------------------------------------------
(* What a step of attempt a does to its job's claim.                       *)

\* A claim is taken when nobody holds or has launched its job.
LEMMA TakesFree ==
  ASSUME LeaseInv, NEW a \in Attempts, Takes(a)
  PROVE  ~Committed(jobOf[a]) /\ HolderOf(jobOf[a]) = {}
<1>1. TypeOK /\ Held /\ SeenIsGone /\ SeenIsPending
  BY DEF LeaseInv, ClaimInv
<1>2. ~Committed(jobOf[a])
  BY <1>1, LeaseTypes DEF Takes, ClaimAbsent, FreeClaim, Committed, SeenIsPending
<1>3. ASSUME NEW b \in Attempts, Holding(b), jobOf[b] = jobOf[a] PROVE FALSE
  <2>1. claim[jobOf[a]].holder = b
    BY <1>1, <1>3 DEF Held, OwnsClaim
  <2>2. CASE pc[a] = "acquire"
    BY <1>1, <2>1, <2>2, LeaseTypes DEF Takes, ClaimAbsent, FreeClaim
  <2>3. CASE pc[a] = "takeover"
    BY <1>1, <1>3, <2>1, <2>3, PcSets DEF Takes, SeenIsGone, Holding
  <2> QED
    BY <2>2, <2>3 DEF Takes
<1> QED
  BY <1>2, <1>3 DEF HolderOf

\* The claims of other jobs stay as they are, and so do their holders.
LEMMA OthersKept ==
  ASSUME LeaseInv, NEW a \in Attempts, StepOf(a), NEW j \in Jobs, j # jobOf[a]
  PROVE  claim'[j] = claim[j] /\ HolderOf(j)' = HolderOf(j)
<1>1. TypeOK
  BY DEF LeaseInv, ClaimInv
<1>2. Moved(a) /\ jobOf' = jobOf
  BY <1>1, MovedByStep, TypeMoves DEF StepOf
<1>3. UNCHANGED claim \/ Takes(a) \/ GivesUp(a) \/ Seals(a)
  BY <1>1, ClaimEffects
<1>4. claim'[j] = claim[j]
  BY <1>1, <1>3, LeaseTypes DEF Takes, WriteClaim, GivesUp, Seals
<1>5. HolderOf(j)' = HolderOf(j)
  BY <1>2 DEF HolderOf, Moved, Holding
<1> QED
  BY <1>4, <1>5

LEMMA LeaseInvStep == LeaseInv /\ [Next]_vars => LeaseInv'
<1> SUFFICES ASSUME LeaseInv, [Next]_vars PROVE LeaseInv'
  OBVIOUS
<1>1. /\ ClaimInv /\ ClaimInv' /\ TypeOK /\ TypeOK'
      /\ SeenIsGone /\ CommittedIsOwned /\ SeenIsPending
  BY ClaimInvStep DEF LeaseInv, ClaimInv
<1>2. ASSUME NEW a \in Attempts, StepOf(a) PROVE CommittedIsOwned' /\ SeenIsPending'
  <2>1. Moved(a) /\ jobOf' = jobOf
    BY <1>1, <1>2, MovedByStep, TypeMoves DEF StepOf
  <2>2. UNCHANGED claim \/ Takes(a) \/ GivesUp(a) \/ Seals(a)
    BY <1>1, <1>2, ClaimEffects
  <2>3. ASSUME NEW j \in Jobs, Committed(j)' PROVE claim'[j].holder \in Attempts
    <3>1. CASE claim'[j] = claim[j]
      BY <1>1, <2>3, <3>1 DEF CommittedIsOwned, Committed
    <3>2. CASE j = jobOf[a] /\ (Takes(a) \/ GivesUp(a))
      BY <1>1, <2>3, <3>2, LeaseTypes
         DEF Takes, GivesUp, WriteClaim, PendingClaim, FreeClaim, Committed
    <3>3. CASE j = jobOf[a] /\ Seals(a)
      BY <1>1, <3>3, LeaseTypes DEF Seals, OwnsClaim, Claims
    <3> QED
      BY <1>1, <1>2, <2>2, <3>1, <3>2, <3>3, OthersKept DEF LeaseInv
  <2>4. ASSUME NEW b \in Attempts, pc'[b] = "takeover",
               claim'[jobOf[b]].holder = local'[b].seen
        PROVE  ~Committed(jobOf[b])'
    <3>1. CASE b = a
      <4>1. InspectClaim(a)
        BY <2>1, <2>4, <3>1 DEF Moved, PcOk
      <4>2. UNCHANGED claim /\ ~Committed(jobOf[a])
        BY <1>1, <2>4, <3>1, <4>1, LeaseTypes
           DEF InspectClaim, Go, GoWith, tableVars, FinalPcs
      <4> QED
        BY <2>1, <3>1, <4>2 DEF Committed
    <3>2. CASE b # a
      <4>1. pc[b] = "takeover" /\ local'[b].seen = local[b].seen
        BY <2>1, <2>4, <3>2 DEF Moved
      <4>2. CASE claim'[jobOf[b]] = claim[jobOf[b]]
        BY <1>1, <2>1, <2>4, <4>1, <4>2 DEF SeenIsPending, Committed
      <4>3. CASE jobOf[b] = jobOf[a] /\ (Takes(a) \/ GivesUp(a))
        BY <1>1, <2>1, <4>3, LeaseTypes
           DEF Takes, GivesUp, WriteClaim, PendingClaim, FreeClaim, Committed
      <4>4. CASE jobOf[b] = jobOf[a] /\ Seals(a)
        <5>1. claim'[jobOf[b]].holder = a
          BY <1>1, <4>4, LeaseTypes DEF Seals, OwnsClaim, Claims
        <5>2. pc[a] \in FinalPcs
          BY <1>1, <2>4, <4>1, <5>1 DEF SeenIsGone
        <5> QED
          BY <4>4, <5>2 DEF Seals, FinalPcs
      <4>5. jobOf[b] \in Jobs
        BY <1>1, LeaseTypes
      <4> QED
        BY <1>2, <2>2, <4>2, <4>3, <4>4, <4>5, OthersKept DEF LeaseInv
    <3> QED
      BY <3>1, <3>2
  <2> QED
    BY <2>1, <2>3, <2>4 DEF CommittedIsOwned, SeenIsPending
<1>3. ASSUME UNCHANGED <<claim, attemptVars>> PROVE CommittedIsOwned' /\ SeenIsPending'
  BY <1>1, <1>3 DEF CommittedIsOwned, SeenIsPending, Committed, attemptVars
<1>4. CASE \E v \in Vms : Boot(v) \/ LifetimeEnds(v) \/ RunnerFinishes(v) \/ ExpireWarmClaim(v)
  BY <1>1, <1>3, <1>4 DEF Boot, LifetimeEnds, RunnerFinishes, ExpireWarmClaim, tableVars, LeaseInv
<1>5. ASSUME NEW j \in Jobs, ExpireClaim(j) PROVE CommittedIsOwned' /\ SeenIsPending'
  <2>1. UNCHANGED attemptVars /\ claim' = [claim EXCEPT ![j] = FreeClaim] /\ FreeClaim.vm = NoVm
    BY <1>5 DEF ExpireClaim, FreeClaim
  <2>2. \A i \in Jobs : Committed(i)' => Committed(i) /\ claim'[i] = claim[i]
    BY <1>1, <2>1, LeaseTypes DEF Committed
  <2> QED
    BY <1>1, <2>1, <2>2, LeaseTypes DEF CommittedIsOwned, SeenIsPending, attemptVars
<1>6. CASE Tick
  BY <1>1, <1>3, <1>6 DEF Tick, tableVars, LeaseInv
<1>7. CASE UNCHANGED vars
  BY <1>1, <1>3, <1>7 DEF vars, tableVars, LeaseInv
<1> QED
  BY <1>1, <1>2, <1>3, <1>4, <1>5, <1>6, <1>7 DEF Next, StepOf, LeaseInv

-----------------------------------------------------------------------------
(* The refinement.                                                         *)

\* A lease reads as held by its one holder, and else as its row says.
LEMMA Readings ==
  ASSUME NEW a, NEW row
  PROVE  /\ ReadLease({a}, row) = Lease!Held(a)
         /\ ReadLease({}, row) = IF row.vm # NoVm THEN Lease!Launched(row.holder) ELSE Lease!Free
<1>1. (CHOOSE b \in {a} : TRUE) = a
  OBVIOUS
<1> QED
  BY <1>1 DEF ReadLease, Lease!Held, Lease!Launched, Lease!Free

LEMMA LeaseInit == Init => Lease!Init
<1> SUFFICES ASSUME Init PROVE \A j \in Jobs : LeaseOf(j) = Lease!Free
  BY DEF Lease!Init
<1> TAKE j \in Jobs
<1>1. HolderOf(j) = {}
  BY PcSets DEF Init, HolderOf, Holding, LivePcs
<1>2. ~Committed(j)
  BY DEF Init, FreeClaim, Committed
<1> QED
  BY <1>1, <1>2, Readings DEF LeaseOf, Committed

(***************************************************************************)
(* A step of attempt a, on the lease of its own job: nothing, or it takes  *)
(* a free lease, or ends its own in a launch or without one.               *)
(***************************************************************************)
LeaseMove(j, a) ==
  \/ LeaseOf(j)' = LeaseOf(j)
  \/ LeaseOf(j) = Lease!Free /\ LeaseOf(j)' = Lease!Held(a)
  \/ LeaseOf(j) = Lease!Held(a) /\ LeaseOf(j)' \in {Lease!Free, Lease!Launched(a)}
  \/ LeaseOf(j) = Lease!Launched(a) /\ LeaseOf(j)' = Lease!Free

LEMMA AttemptMovesLease ==
  ASSUME LeaseInv, LeaseInv', NEW a \in Attempts, StepOf(a), NEW j \in Jobs, j = jobOf[a]
  PROVE  LeaseMove(j, a)
<1>1. TypeOK /\ TypeOK' /\ Held /\ Held'
  BY DEF LeaseInv, ClaimInv
<1>2. Moved(a) /\ jobOf' = jobOf
  BY <1>1, MovedByStep, TypeMoves DEF StepOf
<1>3. /\ UNCHANGED claim \/ Takes(a) \/ GivesUp(a) \/ Seals(a)
      /\ Holding(a)' /\ ~Holding(a) => Takes(a)
  BY <1>1, ClaimEffects
<1>4. HolderOf(j)' \ {a} = HolderOf(j) \ {a}
  BY <1>2 DEF HolderOf, Moved, Holding
<1>5. /\ a \in HolderOf(j) <=> Holding(a)
      /\ a \in HolderOf(j)' <=> Holding(a)'
  BY <1>2 DEF HolderOf
<1>6. /\ Holding(a) => HolderOf(j) = {a} /\ claim[j].holder = a
      /\ Holding(a)' => HolderOf(j)' = {a}
  BY <1>1, <1>2, <1>5 DEF Held, OwnsClaim, HolderOf
<1>7. /\ Holding(a) => LeaseOf(j) = Lease!Held(a)
      /\ Holding(a)' => LeaseOf(j)' = Lease!Held(a)
  BY <1>6, Readings DEF LeaseOf
<1>8. CASE Holding(a) /\ Holding(a)'
  BY <1>7, <1>8 DEF LeaseMove
<1>9. CASE Holding(a) /\ ~Holding(a)'
  <2>1. HolderOf(j)' = {}
    BY <1>4, <1>5, <1>6, <1>9
  <2>2. claim'[j].vm # NoVm => claim'[j].holder = a
    BY <1>1, <1>3, <1>6, <1>9, PcSets, LeaseTypes
       DEF Takes, GivesUp, FreeClaim, Seals, Claims, Holding
  <2> QED
    BY <1>7, <1>9, <2>1, <2>2, Readings DEF LeaseMove, LeaseOf
<1>10. CASE ~Holding(a) /\ Takes(a)
  <2>1. ~Committed(j) /\ HolderOf(j) = {}
    BY <1>10, TakesFree
  <2>2. LeaseOf(j) = Lease!Free
    BY <2>1, Readings DEF LeaseOf, Committed
  <2>3. CASE Holding(a)'
    BY <1>7, <2>2, <2>3 DEF LeaseMove
  <2>4. CASE ~Holding(a)'
    <3>1. HolderOf(j)' = {}
      BY <1>4, <1>5, <2>1, <2>4
    <3>2. claim'[j].vm = NoVm
      BY <1>1, <1>10, LeaseTypes DEF Takes, WriteClaim, PendingClaim
    <3> QED
      BY <2>2, <3>1, <3>2, Readings DEF LeaseMove, LeaseOf
  <2> QED
    BY <2>3, <2>4
<1>11. CASE ~Holding(a) /\ ~Holding(a)' /\ UNCHANGED claim
  <2>1. HolderOf(j)' = HolderOf(j)
    BY <1>4, <1>5, <1>11 DEF HolderOf
  <2> QED
    BY <1>11, <2>1 DEF LeaseMove, LeaseOf
<1> QED
  BY <1>3, <1>8, <1>9, <1>10, <1>11
     DEF GivesUp, Seals, Holding, HoldPcs, WarmPcs, ColdPcs

\* A move of one job's lease, the others kept, is a step of LaunchLease.
LEMMA MoveIsStep ==
  ASSUME NEW j \in Jobs, NEW a \in Attempts, LeaseMove(j, a),
         \A i \in Jobs \ {j} : LeaseOf(i)' = LeaseOf(i)
  PROVE  Lease!Next \/ UNCHANGED [i \in Jobs |-> LeaseOf(i)]
<1> DEFINE L == [i \in Jobs |-> LeaseOf(i)]
<1>1. CASE LeaseOf(j)' = LeaseOf(j)
  BY <1>1
<1>2. ASSUME NEW x, LeaseOf(j)' = x
      PROVE  [i \in Jobs |-> LeaseOf(i)'] = [L EXCEPT ![j] = x]
  BY <1>2
<1>3. CASE LeaseOf(j) = Lease!Free /\ LeaseOf(j)' = Lease!Held(a)
  <2>1. Lease!Acquire(j, a)
    BY <1>2, <1>3 DEF Lease!Acquire
  <2> QED
    BY <2>1 DEF Lease!Next
<1>4. CASE LeaseOf(j) = Lease!Held(a) /\ LeaseOf(j)' = Lease!Free
  <2>1. Lease!Abandon(j, a)
    BY <1>2, <1>4 DEF Lease!Abandon
  <2> QED
    BY <2>1 DEF Lease!Next
<1>5. CASE LeaseOf(j) = Lease!Held(a) /\ LeaseOf(j)' = Lease!Launched(a)
  <2>1. Lease!Launch(j, a)
    BY <1>2, <1>5 DEF Lease!Launch
  <2> QED
    BY <2>1 DEF Lease!Next
<1>6. CASE LeaseOf(j) = Lease!Launched(a) /\ LeaseOf(j)' = Lease!Free
  <2>1. Lease!Forget(j, a)
    BY <1>2, <1>6 DEF Lease!Forget
  <2> QED
    BY <2>1 DEF Lease!Next
<1> QED
  BY <1>1, <1>3, <1>4, <1>5, <1>6 DEF LeaseMove

LEMMA LeaseStep ==
  LeaseInv /\ LeaseInv' /\ [Next]_vars => Lease!Next \/ UNCHANGED [j \in Jobs |-> LeaseOf(j)]
<1> SUFFICES ASSUME LeaseInv, LeaseInv', [Next]_vars
             PROVE  Lease!Next \/ UNCHANGED [j \in Jobs |-> LeaseOf(j)]
  OBVIOUS
<1>1. TypeOK /\ CommittedIsOwned
  BY DEF LeaseInv, ClaimInv
<1>2. ASSUME NEW a \in Attempts, StepOf(a)
      PROVE  Lease!Next \/ UNCHANGED [j \in Jobs |-> LeaseOf(j)]
  <2>1. jobOf[a] \in Jobs
    BY <1>1, LeaseTypes
  <2>2. \A i \in Jobs \ {jobOf[a]} : LeaseOf(i)' = LeaseOf(i)
    BY <1>2, OthersKept DEF LeaseOf
  <2> QED
    BY <1>2, <2>1, <2>2, AttemptMovesLease, MoveIsStep
<1>3. CASE UNCHANGED <<claim, attemptVars>>
  <2>1. \A j \in Jobs : LeaseOf(j)' = LeaseOf(j)
    BY <1>3 DEF LeaseOf, HolderOf, Holding, attemptVars
  <2> QED
    BY <2>1
<1>4. CASE \E v \in Vms : Boot(v) \/ LifetimeEnds(v) \/ RunnerFinishes(v) \/ ExpireWarmClaim(v)
  BY <1>3, <1>4 DEF Boot, LifetimeEnds, RunnerFinishes, ExpireWarmClaim, tableVars
<1>5. ASSUME NEW j \in Jobs, ExpireClaim(j)
      PROVE  Lease!Next \/ UNCHANGED [i \in Jobs |-> LeaseOf(i)]
  <2>1. UNCHANGED attemptVars /\ claim' = [claim EXCEPT ![j] = FreeClaim]
    BY <1>5 DEF ExpireClaim
  <2>2. \A i \in Jobs : HolderOf(i)' = HolderOf(i)
    BY <2>1 DEF HolderOf, Holding, attemptVars
  <2>3. \A i \in Jobs \ {j} : LeaseOf(i)' = LeaseOf(i)
    BY <1>1, <2>1, <2>2, LeaseTypes DEF LeaseOf
  <2>4. CASE \E a \in Attempts : Holding(a) /\ jobOf[a] = j
    <3>1. PICK a \in Attempts : Holding(a) /\ jobOf[a] = j
      BY <2>4
    <3>2. Held' /\ Holding(a)' /\ jobOf'[a] = j
      BY <2>1, <3>1 DEF LeaseInv, ClaimInv, Holding, attemptVars
    <3>3. claim'[j].holder = a
      BY <3>2 DEF Held, OwnsClaim
    <3>4. claim'[j].holder = Nobody
      BY <1>1, <2>1, LeaseTypes DEF FreeClaim, Claims
    <3> QED
      BY <1>1, <3>3, <3>4, LeaseTypes
  <2>5. CASE HolderOf(j) = {}
    <3>1. LeaseOf(j)' = Lease!Free
      <4>1. claim'[j] = FreeClaim /\ FreeClaim.vm = NoVm
        BY <1>1, <2>1, LeaseTypes DEF FreeClaim
      <4>2. HolderOf(j)' = {}
        BY <2>2, <2>5
      <4>3. ReadLease({}, FreeClaim) = Lease!Free
        BY <4>1, Readings
      <4> QED
        BY <4>1, <4>2, <4>3 DEF LeaseOf
    <3>2. CASE Committed(j)
      <4>1. claim[j].holder \in Attempts
        BY <1>1, <3>2 DEF CommittedIsOwned
      <4>2. LeaseMove(j, claim[j].holder)
        BY <2>5, <3>1, <3>2, Readings DEF LeaseMove, LeaseOf, Committed
      <4> QED
        BY <2>3, <4>1, <4>2, MoveIsStep
    <3>3. CASE ~Committed(j)
      <4>1. LeaseOf(j)' = LeaseOf(j)
        BY <2>5, <3>1, <3>3, Readings DEF LeaseOf, Committed
      <4> QED
        BY <2>3, <4>1
    <3> QED
      BY <3>2, <3>3
  <2> QED
    BY <2>4, <2>5 DEF HolderOf
<1>6. CASE Tick
  BY <1>3, <1>6 DEF Tick, tableVars
<1>7. CASE UNCHANGED vars
  BY <1>3, <1>7 DEF vars, tableVars
<1> QED
  BY <1>2, <1>3, <1>4, <1>5, <1>6, <1>7 DEF Next, StepOf

\* The strengthened claim invariant: what a taker has read is still pending.
THEOREM LeaseInvariant == Spec => []LeaseInv
  BY LeaseInvInit, LeaseInvStep, PTL DEF Spec

(***************************************************************************)
(* acquireLaunchClaim, releaseLaunchClaim and commitLaunch with their      *)
(* tokens, clocks, lost answers and crashes implement the abstract lease:  *)
(* a job passes between attempts only when nobody holds it, and a launched *)
(* job is not launched again before its row expires.                       *)
(***************************************************************************)
THEOREM LauncherImplementsLease == Spec => ImplementsLease
<1>1. Init => Lease!Init
  BY LeaseInit
<1>2. LeaseInv /\ LeaseInv' /\ [Next]_vars => [Lease!Next]_([j \in Jobs |-> LeaseOf(j)])
  BY LeaseStep
<1> QED
  BY <1>1, <1>2, LeaseInvariant, PTL DEF Spec, ImplementsLease, Lease!Spec

=============================================================================
