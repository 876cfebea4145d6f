----------------------------- MODULE Agent_proofs -----------------------------
(***************************************************************************)
(* Agent for any number of launches and any timing constants: its type     *)
(* invariant, that no daemon is frozen, that one runner starts, fit unless *)
(* the check for Docker failed, and that the wait for it is bounded.       *)
(***************************************************************************)
EXTENDS Agent, TLAPS

Waits == [pc : {"none", "decide", "poll", "probe", "sleep", "done", "refused"},
          deadline : Nat, timer : Nat]
Runners == [started : Nat, alive : BOOLEAN]
Pushes == {"none", "sent", "acked", "failed"}

LEMMA ConstantTypes ==
  /\ None \notin Launches /\ ReadyTimeout \in Nat /\ ProbeTimeout \in Nat /\ PollInterval \in Nat
  /\ MaxSuspended \in Nat /\ MaxFaults \in Nat
  BY AgentAssumption

-----------------------------------------------------------------------------
(* Types.                                                                  *)

LEMMA InitTypeOK == Init => TypeOK
  BY ConstantTypes DEF Init, TypeOK, Asleep

LEMMA FaultTypes ==
  ASSUME TypeOK, NoFault \/ Fault
  PROVE  faults' \in 0..MaxFaults
  BY ConstantTypes DEF TypeOK, NoFault, Fault

LEMMA StartTypes ==
  ASSUME TypeOK, StartRunner
  PROVE  runner' \in Runners
  BY DEF TypeOK, StartRunner, Runners

LEMMA NextTypeOK ==
  ASSUME TypeOK, [Next]_vars
  PROVE  TypeOK'
<1> USE DEF TypeOK
<1>0. Asleep \in Waits
  BY DEF Asleep, Waits
<1>1. CASE Ready
  BY <1>1 DEF Ready
<1>2. CASE Boot
  BY <1>2 DEF Boot
<1>3. CASE RunHook
  BY <1>3 DEF RunHook
<1>4. CASE RunHookGarbled
  BY <1>4, FaultTypes DEF RunHookGarbled
<1>5. CASE Suspend
  BY <1>5 DEF Suspend
<1>6. CASE Resume
  BY <1>6 DEF Resume
<1>7. CASE VmEnds
  BY <1>7, <1>0 DEF VmEnds, Waits
<1>8. ASSUME NEW a \in Launches, Push(a) PROVE TypeOK'
  BY <1>8 DEF Push
<1>9. ASSUME NEW a \in Launches, PushFails(a) PROVE TypeOK'
  BY <1>9, FaultTypes DEF PushFails
<1>10. ASSUME NEW a \in Launches, Compensate(a) PROVE TypeOK'
  BY <1>10, <1>0 DEF Compensate, Waits
<1>11. ASSUME NEW a \in Launches, Run(a) PROVE TypeOK'
  BY <1>11 DEF Run, Answered
<1>12. CASE Decide
  <2>1. wait' \in Waits
    BY <1>12, ConstantTypes DEF Decide, ImageHasDockerd, Waits
  <2>2. runner' \in Runners
    BY <1>12, StartTypes DEF Decide, ImageHasDockerd, Runners
  <2>3. faults' \in 0..MaxFaults
    BY <1>12, FaultTypes DEF Decide, ImageHasDockerd
  <2> QED
    BY <1>12, <2>1, <2>2, <2>3 DEF Decide, ImageHasDockerd, Waits, Runners
<1>13. CASE Poll
  <2> DEFINE kill == IF now + ProbeTimeout < wait.deadline THEN now + ProbeTimeout ELSE wait.deadline
  <2>1. kill \in Nat
    BY ConstantTypes
  <2>2. wait' = [wait EXCEPT !.pc = "probe", !.timer = kill]
    BY <1>13 DEF Poll
  <2> HIDE DEF kill
  <2> QED
    BY <1>13, <2>1, <2>2 DEF Poll
<1>14. CASE GiveUp
  BY <1>14 DEF GiveUp
<1>15. CASE ProbeSucceeds
  BY <1>15, StartTypes DEF ProbeSucceeds, Runners
<1>16. CASE ProbeFails
  <2> DEFINE wake == now + PollInterval
  <2>1. wake \in Nat
    BY ConstantTypes
  <2>2. wait' = [wait EXCEPT !.pc = "sleep", !.timer = wake]
    BY <1>16 DEF ProbeFails
  <2> HIDE DEF wake
  <2> QED
    BY <1>16, <2>1, <2>2 DEF ProbeFails
<1>17. CASE Wake
  BY <1>17 DEF Wake
<1>18. CASE DaemonsRun
  BY <1>18 DEF DaemonsRun
<1>19. CASE RunnerExits
  BY <1>19 DEF RunnerExits
<1>20. CASE PassTime
  BY <1>20 DEF PassTime
<1>21. CASE UNCHANGED vars
  BY <1>21 DEF vars
<1> QED
  BY <1>1, <1>2, <1>3, <1>4, <1>5, <1>6, <1>7, <1>8, <1>9, <1>10, <1>11, <1>12, <1>13, <1>14,
     <1>15, <1>16, <1>17, <1>18, <1>19, <1>20, <1>21 DEF Next, AgentStep

\* Every variable of the agent's VM has its type.
THEOREM TypeCorrect == Spec => []TypeOK
  BY InitTypeOK, NextTypeOK, PTL DEF Spec

-----------------------------------------------------------------------------
(* What a VM has before its first configuration, and the state of the one  *)
(* that was accepted.                                                      *)

\* A VM to which nothing was pushed has nothing running.
Untouched == (\A a \in Launches : push[a] = "none") => daemons = "none" /\ accepted = None

\* Nothing is pushed to a VM before it runs, or while the pool holds it.
PushedOnlyRunning ==
  vm \in {"building", "snapshot", "booting", "suspended"} => \A a \in Launches : push[a] = "none"

ArrivingWasPushed == \A a \in arriving : push[a] # "none"

\* The agent decides about an accepted configuration, and before a runner starts.
Deciding ==
  /\ accepted = None => wait.pc = "none" /\ runner.started = 0
  /\ wait.pc \in {"decide", "poll", "probe", "sleep"} => runner.started = 0

\* The deadline and the timers of the wait.
Timed ==
  /\ wait.pc = "poll" => now <= wait.deadline + PollInterval
  /\ wait.pc = "probe" => now <= wait.timer /\ wait.timer <= wait.deadline
  /\ wait.pc = "sleep" => now <= wait.timer /\ wait.timer <= wait.deadline + PollInterval

AgentInv == TypeOK /\ Untouched /\ PushedOnlyRunning /\ ArrivingWasPushed /\ Deciding /\ Timed

LEMMA InitAgentInv == Init => AgentInv
<1> SUFFICES ASSUME Init PROVE AgentInv
  OBVIOUS
<1>1. TypeOK
  BY InitTypeOK
<1> QED
  BY <1>1 DEF Init, AgentInv, Untouched, PushedOnlyRunning, ArrivingWasPushed, Deciding, Timed, Asleep

\* The daemons start, and a configuration is accepted, only after a push.
LEMMA NextUntouched ==
  ASSUME AgentInv, [Next]_vars
  PROVE  Untouched' /\ PushedOnlyRunning' /\ ArrivingWasPushed'
<1> USE DEF AgentInv, TypeOK, Untouched, PushedOnlyRunning, ArrivingWasPushed
<1>1. CASE Ready \/ Boot \/ RunHook \/ RunHookGarbled \/ Suspend \/ Resume
  BY <1>1 DEF Ready, Boot, RunHook, RunHookGarbled, Suspend, Resume
<1>2. CASE VmEnds
  BY <1>2 DEF VmEnds
<1>3. ASSUME NEW a \in Launches, Push(a) PROVE Untouched' /\ PushedOnlyRunning' /\ ArrivingWasPushed'
  BY <1>3 DEF Push
<1>4. ASSUME NEW a \in Launches, PushFails(a) PROVE Untouched' /\ PushedOnlyRunning' /\ ArrivingWasPushed'
  BY <1>4 DEF PushFails
<1>5. ASSUME NEW a \in Launches, Compensate(a) PROVE Untouched' /\ PushedOnlyRunning' /\ ArrivingWasPushed'
  BY <1>5 DEF Compensate
<1>6. ASSUME NEW a \in Launches, Run(a) PROVE Untouched' /\ PushedOnlyRunning' /\ ArrivingWasPushed'
  BY <1>6 DEF Run, Answered
<1>7. CASE AgentStep
  BY <1>7 DEF Deciding, AgentStep, Decide, ImageHasDockerd, Poll, GiveUp, ProbeSucceeds, ProbeFails,
            Wake
<1>8. CASE DaemonsRun \/ RunnerExits \/ PassTime
  BY <1>8 DEF DaemonsRun, RunnerExits, PassTime
<1>9. CASE UNCHANGED vars
  BY <1>9 DEF vars
<1> QED
  BY <1>1, <1>2, <1>3, <1>4, <1>5, <1>6, <1>7, <1>8, <1>9 DEF Next

\* Only the first configuration sets off a decision, and only a decision a runner.
LEMMA NextDeciding ==
  ASSUME AgentInv, [Next]_vars
  PROVE  Deciding'
<1> USE DEF AgentInv, TypeOK, Deciding
<1>1. CASE Ready \/ Boot \/ RunHook \/ RunHookGarbled \/ Suspend \/ Resume
  BY <1>1 DEF Ready, Boot, RunHook, RunHookGarbled, Suspend, Resume
<1>2. CASE VmEnds
  BY <1>2 DEF VmEnds, Asleep
<1>3. ASSUME NEW a \in Launches, Push(a) \/ PushFails(a) PROVE Deciding'
  BY <1>3 DEF Push, PushFails
<1>4. ASSUME NEW a \in Launches, Compensate(a) PROVE Deciding'
  BY <1>4 DEF Compensate, Asleep
<1>5. ASSUME NEW a \in Launches, Run(a) PROVE Deciding'
  BY <1>5, ConstantTypes DEF Run
<1>6. CASE Decide
  BY <1>6 DEF Decide, ImageHasDockerd, StartRunner
<1>7. CASE Poll \/ GiveUp \/ ProbeFails \/ Wake
  BY <1>7 DEF Poll, GiveUp, ProbeFails, Wake
<1>8. CASE ProbeSucceeds
  BY <1>8 DEF ProbeSucceeds, StartRunner
<1>9. CASE DaemonsRun \/ RunnerExits \/ PassTime
  BY <1>9 DEF DaemonsRun, RunnerExits, PassTime
<1>10. CASE UNCHANGED vars
  BY <1>10 DEF vars
<1> QED
  BY <1>1, <1>2, <1>3, <1>4, <1>5, <1>6, <1>7, <1>8, <1>9, <1>10 DEF Next, AgentStep

\* No timer outlasts the deadline by more than one interval.
LEMMA NextTimed ==
  ASSUME AgentInv, [Next]_vars
  PROVE  Timed'
<1> USE ConstantTypes DEF AgentInv, TypeOK, Timed
<1>1. CASE Ready \/ Boot \/ RunHook \/ RunHookGarbled \/ Suspend \/ Resume
  BY <1>1 DEF Ready, Boot, RunHook, RunHookGarbled, Suspend, Resume
<1>2. CASE VmEnds
  BY <1>2 DEF VmEnds, Asleep
<1>3. ASSUME NEW a \in Launches, Push(a) \/ PushFails(a) PROVE Timed'
  BY <1>3 DEF Push, PushFails
<1>4. ASSUME NEW a \in Launches, Compensate(a) PROVE Timed'
  BY <1>4 DEF Compensate, Asleep
<1>5. ASSUME NEW a \in Launches, Run(a) PROVE Timed'
  BY <1>5 DEF Run
<1>6. CASE Decide
  BY <1>6 DEF Decide, ImageHasDockerd
<1>7. CASE Poll
  BY <1>7 DEF Poll
<1>8. CASE ProbeFails
  BY <1>8 DEF ProbeFails
<1>9. CASE Wake
  BY <1>9 DEF Wake
<1>10. CASE GiveUp \/ ProbeSucceeds
  BY <1>10 DEF GiveUp, ProbeSucceeds
<1>11. CASE DaemonsRun \/ RunnerExits
  BY <1>11 DEF DaemonsRun, RunnerExits
<1>12. CASE PassTime
  BY <1>12 DEF PassTime, PushedOnlyRunning, Untouched, Deciding
<1>13. CASE UNCHANGED vars
  BY <1>13 DEF vars
<1> QED
  BY <1>1, <1>2, <1>3, <1>4, <1>5, <1>6, <1>7, <1>8, <1>9, <1>10, <1>11, <1>12, <1>13
  DEF Next, AgentStep

LEMMA AgentInvariant == Spec => []AgentInv
<1>1. AgentInv /\ [Next]_vars => AgentInv'
  <2> SUFFICES ASSUME AgentInv, [Next]_vars PROVE AgentInv'
    OBVIOUS
  <2>1. TypeOK'
    BY NextTypeOK DEF AgentInv
  <2> QED
    BY <2>1, NextUntouched, NextDeciding, NextTimed DEF AgentInv
<1> QED
  BY InitAgentInv, <1>1, PTL DEF Spec

-----------------------------------------------------------------------------
(* The promises.                                                           *)

\* No snapshot and no suspension carries a daemon (#55).
THEOREM DaemonsAreNotFrozen == Spec => []NoDaemonIsFrozen
<1>1. AgentInv => NoDaemonIsFrozen
  BY DEF AgentInv, PushedOnlyRunning, Untouched, NoDaemonIsFrozen
<1> QED
  BY AgentInvariant, <1>1, PTL

\* Whatever is pushed and however often, one runner starts, and where there is
\* Docker with the daemon up, unless the check for it could not be run.
THEOREM OneFitRunner == Spec => RunnerStartsOnceAndFit
<1> DEFINE Fit == hasDockerd => daemons = "ready" \/ (wait.pc = "decide" /\ Fault)
<1>1. AgentInv /\ [Next]_vars =>
        [runner'.started # runner.started => runner.started = 0 /\ Fit]_vars
  <2> SUFFICES ASSUME AgentInv, Next, runner'.started # runner.started
               PROVE  runner.started = 0 /\ Fit
    OBVIOUS
  <2> USE DEF AgentInv, TypeOK, Deciding
  <2>1. CASE Decide
    BY <2>1 DEF Decide, ImageHasDockerd
  <2>2. CASE ProbeSucceeds
    BY <2>2 DEF ProbeSucceeds
  <2>3. CASE Ready \/ Boot \/ RunHook \/ RunHookGarbled \/ Suspend \/ Resume \/ VmEnds
    BY <2>3 DEF Ready, Boot, RunHook, RunHookGarbled, Suspend, Resume, VmEnds
  <2>4. ASSUME NEW a \in Launches, Push(a) \/ PushFails(a) \/ Compensate(a) \/ Run(a)
        PROVE  runner.started = 0 /\ Fit
    BY <2>4 DEF Push, PushFails, Compensate, Run
  <2>5. CASE Poll \/ GiveUp \/ ProbeFails \/ Wake
    BY <2>5 DEF Poll, GiveUp, ProbeFails, Wake
  <2>6. CASE DaemonsRun \/ RunnerExits \/ PassTime
    BY <2>6 DEF DaemonsRun, RunnerExits, PassTime
  <2> QED
    BY <2>1, <2>2, <2>3, <2>4, <2>5, <2>6 DEF Next, AgentStep
<1> QED
  BY AgentInvariant, <1>1, PTL DEF Spec, RunnerStartsOnceAndFit

\* The wait is over an interval after its deadline at the latest.
THEOREM BoundedWait == Spec => []WaitIsBounded
<1>1. AgentInv => WaitIsBounded
  BY ConstantTypes DEF AgentInv, TypeOK, Timed, WaitIsBounded
<1> QED
  BY AgentInvariant, <1>1, PTL

=============================================================================
