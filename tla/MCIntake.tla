------------------------------- MODULE MCIntake -------------------------------
(* Instances of Intake for TLC. *)
EXTENDS Intake

CONSTANTS j1, j2, j3, small, large, linux, acme, Acme, beta, api

Cased == [n \in {acme, Acme, beta, api} |-> IF n = Acme THEN acme ELSE n]
Sizes == [l \in {small, large, linux} |-> CASE l = small -> 1 [] l = large -> 4 [] OTHER -> 0]

\* The first's runner serves any job, the others' only those that ask for the small class.
Requests == [j \in Jobs |-> IF j = j1 THEN {small, large, linux} ELSE {small}]
\* GitHub's spelling of the owner, not the configuration's.
Repository == [j \in Jobs |-> [owner |-> acme, name |-> api]]

Small == AddRunnerClass(<<>>, small)
SmallAndLarge == AddRunnerClass(Small, large)
Large == AddRunnerClass(<<>>, large)

Orgs(orgs) == [kind |-> "orgs", orgs |-> orgs]

\* The last class is taken out, then an organization.
Narrowing == <<Config(Orgs(<<beta, Acme>>), SmallAndLarge), Config(Orgs(<<beta, Acme>>), Small),
               Config(Orgs(<<beta>>), Small)>>

\* An organization is added.
Widening == <<Config(Orgs(<<beta>>), Small), Config(Orgs(<<beta, Acme>>), Small)>>

\* A class is put in front of another.
Inserting == <<Config(Orgs(<<beta, Acme>>), Large), Config(Orgs(<<beta, Acme>>), SmallAndLarge)>>

\* Classes are declared smallest first.
ASSUME AscendingAssumption == \A c \in Range(Narrowing) \cup Range(Widening) \cup Range(Inserting) : Ascending(c.classes)

Waiting(state) == [state |-> state, runner |-> None]

\* A configuration is deployed, and no delivery is on its way.
AtRest(i) ==
  /\ deployed = i /\ image = ImagesOf(Configs[i]) /\ env = [f \in Handlers |-> Configs[i]]
  /\ deliveries = {}

\* Two jobs are to come, and a third has been cancelled.
TwoToCome ==
  /\ AtRest(1)
  /\ job = [j \in Jobs |-> Waiting(IF j = j3 THEN "done" ELSE "none")]
  /\ launch = [j \in Jobs |-> [pc |-> "idle", config |-> Configs[1]]]
  /\ runner = [j \in Jobs |-> None]
  /\ accepted = {j3} /\ queue = {} /\ faults = 0

\* One job runs, two wait at capacity, and no call fails from here on.
TwoAtCapacity ==
  /\ AtRest(2)
  /\ job = [j \in Jobs |-> IF j = j1 THEN [state |-> "running", runner |-> j1] ELSE Waiting("queued")]
  /\ launch = [j \in Jobs |-> IF j = j1 THEN [pc |-> "done", config |-> Configs[2]]
                              ELSE [pc |-> "idle", config |-> Configs[1]]]
  /\ runner = [j \in Jobs |-> IF j # j1 THEN None ELSE
                 [labels |-> JobLabels[j1], target |-> OrgTarget(Acme),
                  class |-> small, config |-> Configs[2], state |-> "busy"]]
  /\ accepted = Jobs /\ queue = {Launch(j2), Launch(j3)} /\ faults = MaxFaults

\* Init leads to both states.
CapSpec == (TwoToCome \/ TwoAtCapacity) /\ [][Next]_vars /\ Fairness

=============================================================================
