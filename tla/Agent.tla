--------------------------------- MODULE Agent ---------------------------------
(***************************************************************************)
(* The in-VM agent (image/assets/agent.mjs) of one MicroVM, from the build *)
(* of its image over the snapshot every VM starts from to the runner: the  *)
(* platform's hooks, the configurations launches push (launcher.ts), and   *)
(* the bounded wait for the Docker daemon.                                 *)
(***************************************************************************)
EXTENDS Integers, FiniteSets

CONSTANTS
  Launches,      \* the launches that push a configuration to the VM
  None,
  ReadyTimeout,  \* DOCKER_READY_TIMEOUT_MS
  ProbeTimeout,  \* DOCKER_PROBE_TIMEOUT_MS
  PollInterval,  \* DOCKER_POLL_INTERVAL_MS
  MaxSuspended,  \* bound: how long the VM stays suspended
  MaxFaults      \* bound: lost requests and answers, failing calls

ASSUME AgentAssumption ==
  /\ None \notin Launches
  /\ ReadyTimeout \in Nat /\ ProbeTimeout \in Nat \ {0} /\ PollInterval \in Nat \ {0}
  /\ MaxSuspended \in Nat /\ MaxFaults \in Nat

VARIABLES
  vm,          \* building, snapshot, booting, running, suspended, ended
  hasDockerd,  \* whether the image ships a Docker daemon
  daemons,     \* containerd and dockerd: none, starting, ready, stuck
  accepted,    \* the configuration accepted, by its launch (runnerStarted)
  wait,        \* where decideAndStartRunner is, its deadline, and the timer it is under
  runner,      \* the runners started, and whether one runs
  push,        \* the push of each launch
  arriving,    \* pushes on their way to the agent
  now,
  faults

vars == <<vm, hasDockerd, daemons, accepted, wait, runner, push, arriving, now, faults>>

NoFault == UNCHANGED faults
Fault == faults < MaxFaults /\ faults' = faults + 1

Asleep == [pc |-> "none", deadline |-> 0, timer |-> 0]

Init ==
  /\ vm = "building" /\ hasDockerd \in BOOLEAN
  /\ daemons = "none" /\ accepted = None /\ wait = Asleep
  /\ runner = [started |-> 0, alive |-> FALSE]
  /\ push = [a \in Launches |-> "none"] /\ arriving = {}
  /\ now = 0 /\ faults = 0

-----------------------------------------------------------------------------
(* The platform's hooks.                                                   *)

\* Mutant: the daemon is given a head start.
ReadyStartsDaemons ==
  /\ vm = "building" /\ vm' = "snapshot"
  /\ daemons' = IF hasDockerd THEN "starting" ELSE "none"
  /\ UNCHANGED <<hasDockerd, accepted, wait, runner, push, arriving, now, faults>>

\* /ready starts nothing; the snapshot is taken once it has answered.
Ready ==
  /\ vm = "building" /\ vm' = "snapshot"
  /\ UNCHANGED <<hasDockerd, daemons, accepted, wait, runner, push, arriving, now, faults>>

\* A VM starts from the snapshot, and /run is called without a configuration.
Boot ==
  /\ vm = "snapshot" /\ vm' = "booting"
  /\ UNCHANGED <<hasDockerd, daemons, accepted, wait, runner, push, arriving, now, faults>>

\* Answered 200, without which the platform ends the VM; so is every later call.
RunHook ==
  /\ vm = "booting" /\ vm' = "running"
  /\ UNCHANGED <<hasDockerd, daemons, accepted, wait, runner, push, arriving, now, faults>>

\* The body cannot be parsed: 500, and the platform ends the VM.
RunHookGarbled ==
  /\ vm = "booting" /\ Fault /\ vm' = "ended"
  /\ UNCHANGED <<hasDockerd, daemons, accepted, wait, runner, push, arriving, now>>

\* A pooled VM is suspended and resumed before any launch has claimed it.
Suspend ==
  /\ vm = "running" /\ \A a \in Launches : push[a] = "none"
  /\ vm' = "suspended"
  /\ UNCHANGED <<hasDockerd, daemons, accepted, wait, runner, push, arriving, now, faults>>

Resume ==
  /\ vm = "suspended" /\ vm' = "running"
  /\ UNCHANGED <<hasDockerd, daemons, accepted, wait, runner, push, arriving, now, faults>>

VmEnds ==
  /\ vm \in {"running", "suspended"} /\ vm' = "ended"
  /\ daemons' = "none" /\ arriving' = {} /\ wait' = Asleep
  /\ runner' = [runner EXCEPT !.alive = FALSE]
  /\ UNCHANGED <<hasDockerd, accepted, push, now, faults>>

-----------------------------------------------------------------------------
(* A launch pushes its configuration (pushJitConfig), and ends the VM when *)
(* the push seems to have failed.                                          *)

Push(a) ==
  /\ vm = "running" /\ push[a] = "none"
  /\ push' = [push EXCEPT ![a] = "sent"] /\ arriving' = arriving \cup {a}
  /\ UNCHANGED <<vm, hasDockerd, daemons, accepted, wait, runner, now, faults>>

\* Timed out, lost, or its answer lost: the request may still arrive.
PushFails(a) ==
  /\ push[a] = "sent" /\ Fault
  /\ push' = [push EXCEPT ![a] = "failed"]
  /\ arriving' \in {arriving, arriving \ {a}}
  /\ UNCHANGED <<vm, hasDockerd, daemons, accepted, wait, runner, now>>

Compensate(a) ==
  /\ push[a] = "failed" /\ vm # "ended"
  /\ vm' = "ended" /\ daemons' = "none" /\ arriving' = {} /\ wait' = Asleep
  /\ runner' = [runner EXCEPT !.alive = FALSE]
  /\ UNCHANGED <<hasDockerd, accepted, push, now, faults>>

Answered(a) == push' = [push EXCEPT ![a] = IF @ = "sent" THEN "acked" ELSE @]

\* Mutant: every configuration that arrives is accepted.
RunEvery(a) ==
  /\ vm = "running" /\ a \in arriving /\ arriving' = arriving \ {a}
  /\ accepted' = a /\ wait' = [wait EXCEPT !.pc = "decide"]
  /\ Answered(a)
  /\ UNCHANGED <<vm, hasDockerd, daemons, runner, now, faults>>

\* The first configuration is accepted, the answer precedes all it sets off,
\* and any other is only acknowledged.
Run(a) ==
  /\ vm = "running" /\ a \in arriving /\ arriving' = arriving \ {a}
  /\ IF accepted # None THEN UNCHANGED <<accepted, wait>>
     ELSE accepted' = a /\ wait' = [wait EXCEPT !.pc = "decide"]
  /\ Answered(a)
  /\ UNCHANGED <<vm, hasDockerd, daemons, runner, now, faults>>

-----------------------------------------------------------------------------
(* decideAndStartRunner and waitForDockerReady.                            *)

StartRunner == runner' = [started |-> runner.started + 1, alive |-> TRUE]

\* What the check for Docker answers: one that cannot be run reads as no Docker.
ImageHasDockerd(found) == \/ found = hasDockerd /\ NoFault
                          \/ ~found /\ Fault

\* With Docker, containerd and dockerd start together, at most once.
Decide ==
  /\ vm = "running" /\ wait.pc = "decide"
  /\ \/ /\ ImageHasDockerd(TRUE)
        /\ wait' = [pc |-> "poll", deadline |-> now + ReadyTimeout, timer |-> now]
        /\ daemons' = IF daemons = "none" THEN "starting" ELSE daemons
        /\ UNCHANGED runner
     \/ /\ ImageHasDockerd(FALSE)
        /\ wait' = [wait EXCEPT !.pc = "done"] /\ StartRunner /\ UNCHANGED daemons
  /\ UNCHANGED <<vm, hasDockerd, accepted, push, arriving, now>>

\* A probe begins, which is killed after ProbeTimeout or at the deadline.
Poll ==
  /\ vm = "running" /\ wait.pc = "poll" /\ now < wait.deadline
  /\ wait' = [wait EXCEPT !.pc = "probe",
                          !.timer = IF now + ProbeTimeout < wait.deadline THEN now + ProbeTimeout
                                    ELSE wait.deadline]
  /\ UNCHANGED <<vm, hasDockerd, daemons, accepted, runner, push, arriving, now, faults>>

\* Mutant: a runner is better than none.
StartAnyway ==
  /\ vm = "running" /\ wait.pc = "poll" /\ now >= wait.deadline
  /\ wait' = [wait EXCEPT !.pc = "done"] /\ StartRunner
  /\ UNCHANGED <<vm, hasDockerd, daemons, accepted, push, arriving, now, faults>>

\* The job is not taken, and nothing is tried again.
GiveUp ==
  /\ vm = "running" /\ wait.pc = "poll" /\ now >= wait.deadline
  /\ wait' = [wait EXCEPT !.pc = "refused"]
  /\ UNCHANGED <<vm, hasDockerd, daemons, accepted, runner, push, arriving, now, faults>>

ProbeSucceeds ==
  /\ vm = "running" /\ wait.pc = "probe" /\ daemons = "ready"
  /\ wait' = [wait EXCEPT !.pc = "done"] /\ StartRunner
  /\ UNCHANGED <<vm, hasDockerd, daemons, accepted, push, arriving, now, faults>>

\* Mutant: a probe that hangs is left to it.
ProbeHangs ==
  /\ vm = "running" /\ wait.pc = "probe" /\ daemons = "starting"
  /\ wait' = [wait EXCEPT !.pc = "sleep", !.timer = now + PollInterval]
  /\ UNCHANGED <<vm, hasDockerd, daemons, accepted, runner, push, arriving, now, faults>>

\* Refused by a daemon that is starting, or killed when its time is up.
ProbeFails ==
  /\ vm = "running" /\ wait.pc = "probe" /\ (daemons = "starting" \/ now >= wait.timer)
  /\ wait' = [wait EXCEPT !.pc = "sleep", !.timer = now + PollInterval]
  /\ UNCHANGED <<vm, hasDockerd, daemons, accepted, runner, push, arriving, now, faults>>

Wake ==
  /\ vm = "running" /\ wait.pc = "sleep" /\ now >= wait.timer
  /\ wait' = [wait EXCEPT !.pc = "poll"]
  /\ UNCHANGED <<vm, hasDockerd, daemons, accepted, runner, push, arriving, now, faults>>

\* The daemons come up, or hold the socket and never answer.
DaemonsRun ==
  /\ vm = "running" /\ daemons = "starting" /\ daemons' \in {"ready", "stuck"}
  /\ UNCHANGED <<vm, hasDockerd, accepted, wait, runner, push, arriving, now, faults>>

RunnerExits ==
  /\ runner.alive /\ runner' = [runner EXCEPT !.alive = FALSE]
  /\ UNCHANGED <<vm, hasDockerd, daemons, accepted, wait, push, arriving, now, faults>>

\* Time that the wait does not measure is left out.
PassTime ==
  /\ \/ vm = "running" /\ wait.pc \in {"probe", "sleep"} /\ now < wait.timer
     \/ vm = "suspended" /\ now < MaxSuspended
  /\ now' = now + 1
  /\ UNCHANGED <<vm, hasDockerd, daemons, accepted, wait, runner, push, arriving, faults>>

-----------------------------------------------------------------------------
AgentStep == Decide \/ Poll \/ GiveUp \/ ProbeSucceeds \/ ProbeFails \/ Wake

Next ==
  \/ Ready \/ Boot \/ RunHook \/ RunHookGarbled \/ Suspend \/ Resume \/ VmEnds
  \/ \E a \in Launches : Push(a) \/ PushFails(a) \/ Compensate(a) \/ Run(a)
  \/ AgentStep \/ DaemonsRun \/ RunnerExits \/ PassTime

Spec == Init /\ [][Next]_vars

\* The agent's timers fire; nothing is assumed of the daemons.
FairSpec == Spec /\ WF_vars(AgentStep) /\ WF_vars(PassTime)

-----------------------------------------------------------------------------
(* Properties.                                                             *)

TypeOK ==
  /\ vm \in {"building", "snapshot", "booting", "running", "suspended", "ended"}
  /\ hasDockerd \in BOOLEAN /\ daemons \in {"none", "starting", "ready", "stuck"}
  /\ accepted \in Launches \cup {None}
  /\ wait \in [pc : {"none", "decide", "poll", "probe", "sleep", "done", "refused"},
               deadline : Nat, timer : Nat]
  /\ runner \in [started : Nat, alive : BOOLEAN]
  /\ push \in [Launches -> {"none", "sent", "acked", "failed"}]
  /\ arriving \subseteq Launches /\ now \in Nat /\ faults \in 0..MaxFaults

\* No daemon is carried across the image's snapshot or a warm VM's suspension
\* half-started (#55).
NoDaemonIsFrozen == vm \in {"snapshot", "suspended"} => daemons = "none"

\* A VM starts one runner in its life, and on an image with Docker only while
\* the daemon answers, whatever is pushed to it and how often; but for one case:
\* the check for Docker itself could not be run.
RunnerStartsOnceAndFit ==
  [][runner'.started # runner.started =>
       /\ runner.started = 0
       /\ hasDockerd => daemons = "ready" \/ (wait.pc = "decide" /\ Fault)]_vars

\* A transient failure to run the check is never mistaken for "no dockerd"
\* (agent.mjs, imageHasDockerd). It is: AgentCheck.cfg.
FailedCheckIsNotMistaken ==
  [][runner'.started # runner.started => (hasDockerd => daemons = "ready")]_vars

\* A configuration that was accepted leads to a runner or is refused within the
\* bound: a daemon that holds the socket without answering blocks neither.
AcceptedConfigIsDecided ==
  accepted # None ~> runner.started > 0 \/ wait.pc = "refused" \/ vm = "ended"

\* The wait ends by its deadline, but for a last interval.
WaitIsBounded == wait.pc \in {"poll", "probe", "sleep"} => now <= wait.deadline + PollInterval

=============================================================================
