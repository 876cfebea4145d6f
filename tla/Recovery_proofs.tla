---------------------------- MODULE Recovery_proofs ----------------------------
(***************************************************************************)
(* Stuck-launch recovery for every value of the constants: the shape of    *)
(* its state, with the bound on relaunches, and that no queued job is lost *)
(* to it but by the three failures QueuedJobIsTracked names.               *)
(***************************************************************************)
EXTENDS Recovery, FiniteSetTheorems, TLAPS

-----------------------------------------------------------------------------
(* Types.                                                                  *)

Claims == [state : {"none", "pending", "committed"}, vm : Vms \cup {NoVm},
           relaunch : 0..MaxRelaunches, age : 0..ClaimLife]
VmStates == [state : {"running", "ended"}, runner : {"absent", "idle", "busy", "gone"},
             job : Jobs \cup {0}]
Rows == [job : Jobs \cup {0}, struck : BOOLEAN]

\* A row that is there is of a job.
RowsOf(r) == r \in [Vms -> Rows] /\ \A v \in Vms : r[v] # NoRow => r[v].job \in Jobs

\* What an item in hand is about, and what has been decided of it.
ItemWork ==
  /\ \/ item = NoItem
     \/ item.rule = "claim" /\ item.step \in {"probeJob", "delete", "send", "restore", "release"}
     \/ item.rule = "row" /\ item.step \in {"terminate", "probeJob", "delete", "send", "restore"}
     \/ item.rule = "letter" /\ item.step \in {"send", "discard"}
  /\ item = Item(item.rule, item.step, item.job, item.vm, item.letter)
  /\ item.vm \in Vms \cup {NoVm}
  /\ item.rule \in {"claim", "row"} =>
       /\ sweep = "table" /\ item.job \in Jobs /\ item.letter = NoMessage
       /\ item.rule = "row" => item.vm \in Vms
       /\ item.step # "terminate" => Committed(Scanned)
       /\ item.step \in {"delete", "send", "restore"} => Scanned.relaunch < MaxRelaunches
       /\ At("row", "probeJob") => Scanned.relaunch < MaxRelaunches
  /\ item.rule = "letter" => sweep = "letters" /\ item.letter \in Messages /\ item.job = item.letter.job

\* What the sweep has read, and has still to handle.
SweepWork ==
  /\ snap \in [running : SUBSET Vms, claim : [Jobs -> Claims], row : [Vms -> Rows]]
  /\ todo = [claims |-> todo.claims, rows |-> todo.rows, letters |-> todo.letters]
  /\ RowsOf(row) /\ RowsOf(snap.row)
  /\ \A v \in todo.rows : snap.row[v] # NoRow
  /\ \A j \in todo.claims : Committed(snap.claim[j])
  /\ sweep = "off" => todo = NoTodo
  /\ sweep \in {"off", "scan"} => item = NoItem
  /\ sweep # "table" => todo.claims = {} /\ todo.rows = {}
  /\ sweep # "letters" => todo.letters = EmptyBag

\* The queues are bags, and a letter in hand or still to come lies on the dead-letter queue.
Copies(e, B) == IF e \in DOMAIN B THEN B[e] ELSE 0
InHand(e) == IF item.rule = "letter" /\ item.letter = e THEN 1 ELSE 0
BagsHeld ==
  /\ IsABag(queue) /\ IsABag(dlq) /\ IsABag(todo.letters)
  /\ \A e \in Messages : Copies(e, todo.letters) + InHand(e) <= Copies(e, dlq)

WorkInv == TypeOK /\ ItemWork /\ SweepWork /\ BagsHeld

-----------------------------------------------------------------------------
(* Bags.                                                                   *)

LEMMA BagFacts ==
  ASSUME NEW B, IsABag(B), NEW m
  PROVE  /\ IsABag(B (+) One(m)) /\ IsABag(B (-) One(m))
         /\ BagToSet(B (+) One(m)) = BagToSet(B) \cup {m}
         /\ BagToSet(B) \ {m} \subseteq BagToSet(B (-) One(m))
         /\ BagToSet(B (-) One(m)) \subseteq BagToSet(B)
         /\ \A e : Copies(e, B (+) One(m)) = Copies(e, B) + (IF e = m THEN 1 ELSE 0)
         /\ \A e : e # m => Copies(e, B (-) One(m)) = Copies(e, B)
         /\ m \in BagToSet(B) => Copies(m, B (-) One(m)) = Copies(m, B) - 1
<1> DEFINE P == B (+) One(m)
           N == B (-) One(m)
<1>1. One(m) = [e \in {m} |-> 1]
  BY DEF One, SetToBag
<1>2. DOMAIN One(m) = {m} /\ One(m)[m] = 1
  BY <1>1
<1>3. P = [e \in DOMAIN B \cup {m} |-> (IF e \in DOMAIN B THEN B[e] ELSE 0) + (IF e = m THEN 1 ELSE 0)]
  BY <1>2 DEF (+)
<1>4. N = [e \in {d \in DOMAIN B : (IF d = m THEN B[d] - 1 ELSE B[d]) > 0} |->
             IF e = m THEN B[e] - 1 ELSE B[e]]
  BY <1>2 DEF (-)
<1>5. \A e \in DOMAIN B : B[e] \in Nat /\ B[e] > 0
  BY DEF IsABag
<1> HIDE DEF P, N
<1>6. DOMAIN P = DOMAIN B \cup {m}
  BY <1>3
<1>7. \A e \in DOMAIN P : P[e] \in Nat /\ P[e] > 0
  BY <1>3, <1>5
<1>8. IsABag(P)
  BY <1>3, <1>6, <1>7 DEF IsABag
<1>9. DOMAIN N = {d \in DOMAIN B : (IF d = m THEN B[d] - 1 ELSE B[d]) > 0}
  BY <1>4
<1>10. \A e \in DOMAIN N : N[e] \in Nat /\ N[e] > 0
  BY <1>4, <1>5, <1>9
<1>11. IsABag(N)
  BY <1>4, <1>9, <1>10 DEF IsABag
<1>12. DOMAIN B \ {m} \subseteq DOMAIN N /\ DOMAIN N \subseteq DOMAIN B
  BY <1>5, <1>9
<1>13. \A e : Copies(e, P) = Copies(e, B) + (IF e = m THEN 1 ELSE 0)
  BY <1>3, <1>5, <1>6 DEF Copies
<1>14. \A e : e # m => Copies(e, N) = Copies(e, B)
  BY <1>4, <1>5, <1>9 DEF Copies
<1>15. m \in DOMAIN B => Copies(m, N) = Copies(m, B) - 1
  BY <1>4, <1>5, <1>9 DEF Copies
<1> QED
  BY <1>6, <1>8, <1>11, <1>12, <1>13, <1>14, <1>15 DEF P, N, BagToSet

LEMMA CopiesFacts ==
  ASSUME NEW B, IsABag(B)
  PROVE  \A e : Copies(e, B) \in Nat /\ (e \in BagToSet(B) <=> Copies(e, B) > 0)
  BY DEF IsABag, Copies, BagToSet

LEMMA EmptyBagFacts == IsABag(EmptyBag) /\ BagToSet(EmptyBag) = {} /\ \A e : Copies(e, EmptyBag) = 0
<1>1. EmptyBag = [e \in {} |-> 1] /\ DOMAIN EmptyBag = {}
  BY DEF EmptyBag, SetToBag
<1> QED
  BY <1>1 DEF IsABag, BagToSet, Copies

LEMMA PullFacts ==
  ASSUME IsABag(dlq), NEW b \in Pulls
  PROVE  IsABag(b) /\ BagToSet(b) \subseteq BagToSet(dlq) /\ \A e : Copies(e, b) <= Copies(e, dlq)
<1>1. PICK D \in SUBSET BagToSet(dlq) : b \in [D -> 1..DlqCap]
  BY DEF Pulls
<1>2. b \sqsubseteq dlq
  BY DEF Pulls
<1>3. DOMAIN b = D /\ \A e \in D : b[e] \in Nat /\ b[e] > 0 /\ b[e] <= dlq[e]
  BY <1>1, <1>2 DEF \sqsubseteq, LimitsAssumption
<1>4. IsABag(b)
  BY <1>1, <1>3 DEF IsABag
<1>5. \A e : Copies(e, b) <= Copies(e, dlq)
  BY <1>1, <1>3 DEF Copies, BagToSet, IsABag
<1> QED
  BY <1>1, <1>3, <1>4, <1>5 DEF BagToSet

-----------------------------------------------------------------------------
LEMMA ConstantTypes ==
  /\ Jobs \subseteq Nat /\ 0 \notin Jobs /\ IsFiniteSet(Jobs) /\ NoVm \notin Vms
  /\ ClaimCap \in Nat /\ DlqCap \in Nat /\ ClaimLife \in Nat /\ ClaimLife > 0
  /\ MaxRelaunches \in Nat /\ MaxFaults \in Nat
  BY JobsAssumption, LimitsAssumption

\* TypeOK, part by part.
LEMMA TypeParts ==
  TypeOK <=>
    /\ github \in [Jobs -> {"none", "queued", "in_progress", "served", "cancelled"}]
    /\ BagToSet(queue) \subseteq Messages /\ BagToSet(dlq) \subseteq Messages
    /\ BagToSet(todo.letters) \subseteq Messages
    /\ claim \in [Jobs -> Claims] /\ vm \in [Vms -> VmStates] /\ row \in [Vms -> Rows]
    /\ launch \in [Vms -> Messages \cup {NoMessage}]
    /\ exhausted \subseteq Jobs /\ sweep \in {"off", "scan", "table", "letters"}
    /\ todo.claims \subseteq Jobs /\ todo.rows \subseteq Vms
    /\ item.rule \in {"none", "claim", "row", "letter"} /\ item.vm \in Vms \cup {NoVm}
    /\ faults \in 0..MaxFaults /\ lost \subseteq Jobs
  BY DEF TypeOK, Claims, VmStates, Rows

LEMMA MessageFacts ==
  /\ NoMessage \notin Messages /\ NoMessage.job = 0
  /\ \A m \in Messages : m.job \in Jobs /\ m.relaunch \in 0..MaxRelaunches /\ m.job # 0
  /\ \A j \in Jobs, n \in 0..MaxRelaunches : Message(j, n) \in Messages /\ Message(j, n).job = j
  BY ConstantTypes DEF Messages, NoMessage, Message

LEMMA RecordFacts ==
  /\ FreeClaim \in Claims /\ ~Committed(FreeClaim) /\ FreeClaim.age = 0
  /\ NoRow \in Rows /\ NewVm \in VmStates /\ Ended \in VmStates
  /\ Ended.state = "ended"
  BY ConstantTypes DEF FreeClaim, Claims, Committed, NoRow, Rows, NewVm, Ended, VmStates

LEMMA ItemFields ==
  ASSUME NEW rule, NEW step, NEW j, NEW v, NEW m
  PROVE  /\ Item(rule, step, j, v, m).rule = rule /\ Item(rule, step, j, v, m).step = step
         /\ Item(rule, step, j, v, m).job = j /\ Item(rule, step, j, v, m).vm = v
         /\ Item(rule, step, j, v, m).letter = m
         /\ \A s : [Item(rule, step, j, v, m) EXCEPT !.step = s] = Item(rule, s, j, v, m)
  BY DEF Item

LEMMA NoItemFields ==
  /\ NoItem.rule = "none" /\ NoItem.step = "none" /\ NoItem.vm = NoVm /\ NoItem.job = 0
  /\ NoItem = Item(NoItem.rule, NoItem.step, NoItem.job, NoItem.vm, NoItem.letter)
  BY DEF NoItem, Item

LEMMA NoTodoFields ==
  /\ NoTodo.claims = {} /\ NoTodo.rows = {} /\ NoTodo.letters = EmptyBag
  /\ NoTodo = [claims |-> NoTodo.claims, rows |-> NoTodo.rows, letters |-> NoTodo.letters]
  BY DEF NoTodo

LEMMA NoSnapFields ==
  /\ NoSnap \in [running : SUBSET Vms, claim : [Jobs -> Claims], row : [Vms -> Rows]]
  /\ RowsOf(NoSnap.row) /\ NoSnap.claim = [j \in Jobs |-> FreeClaim]
<1>1. NoSnap.row = [v \in Vms |-> NoRow] /\ NoSnap.claim = [j \in Jobs |-> FreeClaim] /\ NoSnap.running = {}
  BY DEF NoSnap
<1>2. NoSnap.row \in [Vms -> Rows] /\ NoSnap.claim \in [Jobs -> Claims]
  BY <1>1, RecordFacts
<1> QED
  BY <1>1, <1>2 DEF RowsOf, NoSnap

LEMMA WorkInvInit == Init => WorkInv
<1> SUFFICES ASSUME Init PROVE WorkInv
  OBVIOUS
<1>1. TypeOK
  BY RecordFacts, EmptyBagFacts, NoTodoFields, NoItemFields, ConstantTypes, TypeParts DEF Init
<1>2. ItemWork
  BY NoItemFields DEF Init, ItemWork
<1>3. SweepWork
  <2>1. RowsOf(row)
    BY RecordFacts DEF Init, RowsOf
  <2> QED
    BY <2>1, NoSnapFields, NoTodoFields DEF Init, SweepWork
<1>4. BagsHeld
  BY EmptyBagFacts, NoTodoFields, NoItemFields DEF Init, BagsHeld, InHand
<1> QED
  BY <1>1, <1>2, <1>3, <1>4 DEF WorkInv

-----------------------------------------------------------------------------
(* Steps of the world, which leave the sweep alone.                        *)

LEMMA WorldKeeps ==
  ASSUME WorkInv, UNCHANGED sweepVars,
         github' \in [Jobs -> {"none", "queued", "in_progress", "served", "cancelled"}],
         IsABag(queue'), BagToSet(queue') \subseteq Messages,
         dlq' = dlq \/ \E m \in Messages : dlq' = dlq (+) One(m),
         claim' \in [Jobs -> Claims], vm' \in [Vms -> VmStates], RowsOf(row'),
         launch' \in [Vms -> Messages \cup {NoMessage}],
         UNCHANGED <<exhausted, lost>>, faults' \in 0..MaxFaults
  PROVE  WorkInv'
<1>1. UNCHANGED <<sweep, snap, todo, item>>
  BY DEF sweepVars
<1>2. /\ IsABag(dlq') /\ BagToSet(dlq') \subseteq Messages
      /\ \A e \in Messages : Copies(e, dlq) <= Copies(e, dlq')
  <2>1. IsABag(dlq) /\ BagToSet(dlq) \subseteq Messages
    BY TypeParts DEF WorkInv, BagsHeld
  <2>2. \A e : Copies(e, dlq) \in Nat
    BY <2>1, CopiesFacts
  <2>3. ASSUME NEW m \in Messages, dlq' = dlq (+) One(m)
        PROVE  /\ IsABag(dlq') /\ BagToSet(dlq') \subseteq Messages
               /\ \A e : Copies(e, dlq') = Copies(e, dlq) + (IF e = m THEN 1 ELSE 0)
    <3>1. /\ IsABag(dlq (+) One(m)) /\ BagToSet(dlq (+) One(m)) = BagToSet(dlq) \cup {m}
          /\ \A e : Copies(e, dlq (+) One(m)) = Copies(e, dlq) + (IF e = m THEN 1 ELSE 0)
      BY <2>1, BagFacts
    <3> QED
      BY <2>1, <2>3, <3>1
  <2> QED
    BY <2>1, <2>2, <2>3
<1>3. TypeOK'
  <2>1. /\ exhausted \subseteq Jobs /\ sweep \in {"off", "scan", "table", "letters"}
        /\ todo.claims \subseteq Jobs /\ todo.rows \subseteq Vms
        /\ BagToSet(todo.letters) \subseteq Messages
        /\ item.rule \in {"none", "claim", "row", "letter"} /\ item.vm \in Vms \cup {NoVm}
        /\ lost \subseteq Jobs
    BY TypeParts DEF WorkInv
  <2>2. row' \in [Vms -> Rows]
    BY DEF RowsOf
  <2> QED
    BY <1>1, <1>2, <2>1, <2>2 DEF TypeOK, Claims, VmStates, Rows
<1>4. ItemWork'
  BY <1>1 DEF WorkInv, ItemWork, At, Scanned
<1>5. SweepWork'
  BY <1>1 DEF WorkInv, SweepWork
<1>6. BagsHeld'
  <2>1. IsABag(queue') /\ IsABag(dlq') /\ IsABag(todo'.letters)
    BY <1>1, <1>2 DEF WorkInv, BagsHeld
  <2>2. ASSUME NEW e \in Messages
        PROVE  Copies(e, todo'.letters) + InHand(e)' <= Copies(e, dlq')
    <3>1. /\ Copies(e, todo.letters) \in Nat /\ Copies(e, dlq) \in Nat /\ Copies(e, dlq') \in Nat
          /\ InHand(e) \in Nat
      BY <2>1, CopiesFacts DEF WorkInv, BagsHeld, InHand
    <3>2. Copies(e, todo.letters) + InHand(e) <= Copies(e, dlq)
      BY DEF WorkInv, BagsHeld
    <3>3. todo'.letters = todo.letters /\ InHand(e)' = InHand(e)
      BY <1>1 DEF InHand
    <3> QED
      BY <1>2, <3>1, <3>2, <3>3
  <2> QED
    BY <2>1, <2>2 DEF BagsHeld, Copies
<1> QED
  BY <1>3, <1>4, <1>5, <1>6 DEF WorkInv

\* What the world's steps find.
LEMMA WorldFacts ==
  ASSUME WorkInv
  PROVE  /\ github \in [Jobs -> {"none", "queued", "in_progress", "served", "cancelled"}]
         /\ IsABag(queue) /\ BagToSet(queue) \subseteq Messages
         /\ IsABag(dlq) /\ BagToSet(dlq) \subseteq Messages
         /\ claim \in [Jobs -> Claims] /\ vm \in [Vms -> VmStates] /\ RowsOf(row)
         /\ launch \in [Vms -> Messages \cup {NoMessage}] /\ faults \in 0..MaxFaults
  BY TypeParts DEF WorkInv, BagsHeld, SweepWork

LEMMA FaultTyped ==
  ASSUME WorkInv, Fault \/ TwoFaults \/ NoFault
  PROVE  faults' \in 0..MaxFaults /\ faults <= faults'
  BY WorldFacts, ConstantTypes DEF Fault, TwoFaults, NoFault

\* A message that was on the queue, or in a launch, goes back to a queue.
LEMMA RedriveTyped ==
  ASSUME NEW m \in Messages, NEW q, IsABag(q), BagToSet(q) \subseteq Messages, Redrive(m, q)
  PROVE  /\ IsABag(queue') /\ BagToSet(queue') \subseteq Messages
         /\ dlq' = dlq \/ \E e \in Messages : dlq' = dlq (+) One(e)
  BY BagFacts DEF Redrive

LEMMA MessageStepsTyped ==
  ASSUME WorkInv, NEW j \in Jobs,
         Announce(j) \/ Cancel(j) \/ ExpireClaim(j) \/ Deliver(j)
  PROVE  WorkInv'
<1>1. CASE Announce(j)
  <2>1. UNCHANGED <<claim, vm, row, launch, dlq, exhausted, sweepVars, faults, lost>>
    BY <1>1 DEF Announce
  <2>2. github' \in [Jobs -> {"none", "queued", "in_progress", "served", "cancelled"}]
    BY <1>1, WorldFacts DEF Announce
  <2>3. Message(j, 0) \in Messages
    BY MessageFacts, ConstantTypes
  <2>4. IsABag(queue') /\ BagToSet(queue') \subseteq Messages
    BY <1>1, <2>3, WorldFacts, BagFacts DEF Announce
  <2> QED
    BY <2>1, <2>2, <2>4, WorldFacts, WorldKeeps
<1>2. CASE Cancel(j)
  <2>1. UNCHANGED <<queue, claim, vm, row, launch, dlq, exhausted, sweepVars, faults, lost>>
    BY <1>2 DEF Cancel
  <2>2. github' \in [Jobs -> {"none", "queued", "in_progress", "served", "cancelled"}]
    BY <1>2, WorldFacts DEF Cancel
  <2> QED
    BY <2>1, <2>2, WorldFacts, WorldKeeps
<1>3. CASE ExpireClaim(j)
  <2>1. UNCHANGED <<github, queue, vm, row, launch, dlq, exhausted, sweepVars, faults, lost>>
    BY <1>3 DEF ExpireClaim
  <2>2. claim' \in [Jobs -> Claims]
    BY <1>3, WorldFacts, RecordFacts DEF ExpireClaim
  <2> QED
    BY <2>1, <2>2, WorldFacts, WorldKeeps
<1>4. CASE DropMessage(j)
  <2>1. UNCHANGED <<github, claim, vm, row, launch, dlq, exhausted, sweepVars, faults, lost>>
    BY <1>4 DEF DropMessage
  <2>2. IsABag(queue') /\ BagToSet(queue') \subseteq Messages
    BY <1>4, WorldFacts, BagFacts DEF DropMessage
  <2> QED
    BY <2>1, <2>2, WorldFacts, WorldKeeps
<1>5. CASE Contend(j)
  <2>1. UNCHANGED <<github, claim, vm, row, launch, exhausted, sweepVars, lost>>
    BY <1>5 DEF Contend
  <2>2. PICK m \in BagToSet(queue) : Redrive(m, queue (-) One(m))
    BY <1>5 DEF Contend
  <2>3. /\ IsABag(queue (-) One(m)) /\ BagToSet(queue (-) One(m)) \subseteq Messages /\ m \in Messages
    BY WorldFacts, BagFacts
  <2>4. /\ IsABag(queue') /\ BagToSet(queue') \subseteq Messages
        /\ dlq' = dlq \/ \E e \in Messages : dlq' = dlq (+) One(e)
    BY <2>2, <2>3, RedriveTyped
  <2>5. faults' \in 0..MaxFaults
    BY <1>5, FaultTyped DEF Contend, StillWanted
  <2> QED
    BY <2>1, <2>4, <2>5, WorldFacts, WorldKeeps
<1>6. CASE Acquire(j)
  <2>1. UNCHANGED <<github, dlq, exhausted, sweepVars, lost>>
    BY <1>6 DEF Acquire
  <2>2. PICK m \in BagToSet(queue), v \in Vms :
          /\ queue' = queue (-) One(m)
          /\ claim' = [claim EXCEPT ![j] =
               [state |-> "pending", vm |-> v, relaunch |-> m.relaunch, age |-> 0]]
          /\ vm' = [vm EXCEPT ![v] = NewVm]
          /\ row' = [row EXCEPT ![v] = NoRow]
          /\ launch' = [launch EXCEPT ![v] = m]
    BY <1>6 DEF Acquire
  <2>3. m \in Messages /\ IsABag(queue') /\ BagToSet(queue') \subseteq Messages
    BY <2>2, WorldFacts, BagFacts
  <2>4. [state |-> "pending", vm |-> v, relaunch |-> m.relaunch, age |-> 0] \in Claims
    BY <2>3, MessageFacts, ConstantTypes DEF Claims
  <2>5. claim' \in [Jobs -> Claims] /\ vm' \in [Vms -> VmStates]
        /\ launch' \in [Vms -> Messages \cup {NoMessage}]
    BY <2>2, <2>3, <2>4, WorldFacts, RecordFacts
  <2>6. RowsOf(row')
    BY <2>2, WorldFacts, RecordFacts DEF RowsOf
  <2>7. faults' \in 0..MaxFaults
    BY <1>6, FaultTyped DEF Acquire, StillWanted
  <2> QED
    BY <2>1, <2>3, <2>5, <2>6, <2>7, WorldFacts, WorldKeeps
<1> QED
  BY <1>1, <1>2, <1>3, <1>4, <1>5, <1>6 DEF Deliver

LEMMA LaunchJobs ==
  ASSUME WorkInv, NEW v \in Vms, Launching(v)
  PROVE  launch[v] \in Messages /\ launch[v].job \in Jobs
  BY WorldFacts, MessageFacts DEF Launching

\* The two writes of a commit.
LEMMA MappedTyped ==
  ASSUME WorkInv, NEW v \in Vms, launch[v].job \in Jobs, Mapped(v)
  PROVE  RowsOf(row')
<1> DEFINE r == [NoRow EXCEPT !.job = launch[v].job]
<1>1. r \in Rows /\ r.job \in Jobs
  BY DEF NoRow, Rows
<1>2. row' = [row EXCEPT ![v] = r]
  BY DEF Mapped
<1> HIDE DEF r
<1> QED
  BY <1>1, <1>2, WorldFacts DEF RowsOf

LEMMA CommitTyped ==
  ASSUME WorkInv, NEW v \in Vms, launch[v].job \in Jobs, CommitWrites(v)
  PROVE  claim' \in [Jobs -> Claims]
  BY WorldFacts DEF CommitWrites, Claims

LEMMA VmStepsTyped ==
  ASSUME WorkInv, NEW v \in Vms,
         Commit(v) \/ FailLaunch(v) \/ Register(v) \/ TakeJob(v) \/ FinishJob(v) \/ VmEnds(v)
  PROVE  WorkInv'
<1>1. CASE Commit(v)
  <2>1. UNCHANGED <<github, queue, vm, dlq, exhausted, sweepVars, faults, lost>>
    BY <1>1 DEF Commit
  <2>2. launch[v].job \in Jobs
    BY <1>1, LaunchJobs DEF Commit
  <2>3. claim' \in [Jobs -> Claims] /\ RowsOf(row')
    BY <1>1, <2>2, CommitTyped, MappedTyped DEF Commit, CommitWrites
  <2>5. launch' \in [Vms -> Messages \cup {NoMessage}]
    BY <1>1, WorldFacts DEF Commit
  <2> QED
    BY <2>1, <2>3, <2>5, WorldFacts, WorldKeeps
<1>2. CASE FailLaunch(v)
  <2>1. UNCHANGED <<github, exhausted, sweepVars, lost>>
    BY <1>2 DEF FailLaunch
  <2>3. launch[v] \in Messages /\ launch[v].job \in Jobs
    BY <1>2, LaunchJobs DEF FailLaunch
  <2>2. claim' \in [Jobs -> Claims] /\ vm' \in [Vms -> VmStates] /\ RowsOf(row')
    <3>1. claim' \in [Jobs -> Claims]
      <4>1. claim' = claim \/ claim' = [claim EXCEPT ![launch[v].job] = FreeClaim] \/ CommitWrites(v)
        BY <1>2 DEF FailLaunch
      <4> QED
        BY <2>3, <4>1, CommitTyped, WorldFacts, RecordFacts DEF CommitWrites
    <3>2. vm' = vm \/ vm' = [vm EXCEPT ![v] = Ended]
      BY <1>2 DEF FailLaunch
    <3>3. row' = row \/ Mapped(v)
      BY <1>2 DEF FailLaunch, CommitWrites
    <3> QED
      BY <2>3, <3>1, <3>2, <3>3, MappedTyped, WorldFacts, RecordFacts
  <2>4. /\ IsABag(queue') /\ BagToSet(queue') \subseteq Messages
        /\ dlq' = dlq \/ \E e \in Messages : dlq' = dlq (+) One(e)
    BY <1>2, <2>3, WorldFacts, RedriveTyped DEF FailLaunch
  <2>5. launch' \in [Vms -> Messages \cup {NoMessage}] /\ faults' \in 0..MaxFaults
    BY <1>2, WorldFacts, FaultTyped DEF FailLaunch
  <2> QED
    BY <2>1, <2>2, <2>4, <2>5, WorldFacts, WorldKeeps
<1>3. CASE Register(v) \/ FinishJob(v) \/ VmEnds(v)
  <2>1. UNCHANGED <<queue, claim, row, launch, dlq, exhausted, sweepVars, faults, lost>>
    BY <1>3 DEF Register, FinishJob, VmEnds
  <2>2. vm' \in [Vms -> VmStates]
    <3>1. vm' = [vm EXCEPT ![v].runner = "idle"] \/ vm' = [vm EXCEPT ![v] = Ended]
      BY <1>3 DEF Register, FinishJob, VmEnds
    <3> QED
      BY <3>1, WorldFacts, RecordFacts DEF VmStates
  <2>3. github' \in [Jobs -> {"none", "queued", "in_progress", "served", "cancelled"}]
    BY <1>3, WorldFacts DEF Register, FinishJob, VmEnds
  <2> QED
    BY <2>1, <2>2, <2>3, WorldFacts, WorldKeeps
<1>4. CASE TakeJob(v)
  <2>1. UNCHANGED <<queue, claim, row, launch, dlq, exhausted, sweepVars, faults, lost>>
    BY <1>4 DEF TakeJob
  <2>2. PICK j \in Jobs : /\ github' = [github EXCEPT ![j] = "in_progress"]
                          /\ vm' = [vm EXCEPT ![v].runner = "busy", ![v].job = j]
    BY <1>4 DEF TakeJob
  <2>3. vm' \in [Vms -> VmStates]
    <3> DEFINE f == [vm EXCEPT ![v].runner = "busy"]
    <3>1. f \in [Vms -> VmStates]
      BY WorldFacts DEF VmStates
    <3>2. vm' = [f EXCEPT ![v].job = j]
      BY <2>2
    <3> HIDE DEF f
    <3> QED
      BY <3>1, <3>2 DEF VmStates
  <2>4. github' \in [Jobs -> {"none", "queued", "in_progress", "served", "cancelled"}]
    BY <2>2, WorldFacts
  <2> QED
    BY <2>1, <2>3, <2>4, WorldFacts, WorldKeeps
<1> QED
  BY <1>1, <1>2, <1>3, <1>4

-----------------------------------------------------------------------------
(* Steps of the sweep.                                                     *)

LEMMA SweepFacts ==
  ASSUME WorkInv
  PROVE  /\ sweep \in {"off", "scan", "table", "letters"}
         /\ snap.claim \in [Jobs -> Claims] /\ RowsOf(snap.row) /\ snap.running \subseteq Vms
         /\ todo.claims \subseteq Jobs /\ todo.rows \subseteq Vms
         /\ IsABag(todo.letters) /\ BagToSet(todo.letters) \subseteq Messages
         /\ exhausted \subseteq Jobs /\ lost \subseteq Jobs
         /\ item.rule \in {"none", "claim", "row", "letter"} /\ item.vm \in Vms \cup {NoVm}
  BY TypeParts DEF WorkInv, SweepWork, BagsHeld

\* What a step of the sweep must establish; it touches neither GitHub nor the launches.
LEMMA SweepKeeps ==
  ASSUME WorkInv, UNCHANGED <<github, launch>>,
         BagToSet(queue') \subseteq Messages, BagToSet(dlq') \subseteq Messages,
         BagToSet(todo'.letters) \subseteq Messages,
         claim' \in [Jobs -> Claims], vm' \in [Vms -> VmStates], row' \in [Vms -> Rows],
         exhausted' \subseteq Jobs, lost' \subseteq Jobs, faults' \in 0..MaxFaults,
         sweep' \in {"off", "scan", "table", "letters"}, todo'.claims \subseteq Jobs,
         todo'.rows \subseteq Vms, ItemWork', SweepWork', BagsHeld'
  PROVE  WorkInv'
<1>1. item'.rule \in {"none", "claim", "row", "letter"} /\ item'.vm \in Vms \cup {NoVm}
  BY NoItemFields DEF ItemWork
<1>2. TypeOK'
  BY <1>1, WorldFacts DEF TypeOK, Claims, VmStates, Rows
<1> QED
  BY <1>2 DEF WorkInv

\* A step of an item of the table: the sweep stays where it is.
LEMMA TableItemKeeps ==
  ASSUME WorkInv, UNCHANGED <<github, launch, dlq, sweep, snap, todo>>,
         item.rule \in {"claim", "row"},
         queue' = queue \/ \E m \in Messages : queue' = queue (+) One(m),
         claim' \in [Jobs -> Claims], vm' \in [Vms -> VmStates], RowsOf(row'),
         exhausted' \subseteq Jobs, lost' \subseteq Jobs, Fault \/ NoFault,
         \/ item' = NoItem
         \/ \E s \in {"probeJob", "delete", "send", "restore", "release"} :
              /\ Step(s) /\ Committed(Scanned)
              /\ s # "release" \/ item.rule = "claim"
              /\ s \in {"delete", "send", "restore"} => Scanned.relaunch < MaxRelaunches
              /\ s = "probeJob" /\ item.rule = "row" => Scanned.relaunch < MaxRelaunches
  PROVE  WorkInv'
<1>1. ItemWork /\ SweepWork /\ BagsHeld
  BY DEF WorkInv
<1>2. BagToSet(queue') \subseteq Messages /\ IsABag(queue')
  BY WorldFacts, BagFacts
<1>3. ItemWork'
  <2>1. CASE item' = NoItem
    BY <2>1, NoItemFields DEF ItemWork, At
  <2>2. ASSUME NEW s \in {"probeJob", "delete", "send", "restore", "release"},
               Step(s), Committed(Scanned),
               s # "release" \/ item.rule = "claim",
               s \in {"delete", "send", "restore"} => Scanned.relaunch < MaxRelaunches,
               s = "probeJob" /\ item.rule = "row" => Scanned.relaunch < MaxRelaunches
        PROVE  ItemWork'
    <3>1. item' = Item(item.rule, s, item.job, item.vm, item.letter)
      BY <1>1, <2>2, ItemFields DEF ItemWork, Step
    <3>2. /\ item'.rule = item.rule /\ item'.step = s /\ item'.job = item.job /\ item'.vm = item.vm
          /\ item'.letter = item.letter
      BY <3>1, ItemFields
    <3>3. Scanned' = Scanned
      BY <3>2 DEF Scanned
    <3> QED
      BY <1>1, <2>2, <3>1, <3>2, <3>3 DEF ItemWork, At, Committed
  <2> QED
    BY <2>1, <2>2
<1>4. SweepWork'
  BY <1>1, <1>3 DEF SweepWork, ItemWork
<1>5. BagsHeld'
  <2>1. \A e : InHand(e) = 0 /\ InHand(e)' = 0
    <3>1. item'.rule # "letter"
      <4>1. ASSUME NEW s, Step(s) PROVE item' = Item(item.rule, s, item.job, item.vm, item.letter)
        BY <1>1, <4>1, ItemFields DEF ItemWork, Step
      <4>2. ASSUME NEW s, Step(s) PROVE item'.rule = item.rule
        BY <4>1, <4>2, ItemFields
      <4> QED
        BY <4>2, NoItemFields
    <3> QED
      BY <3>1 DEF InHand
  <2> QED
    BY <1>1, <1>2, <2>1 DEF BagsHeld, Copies
<1>6. row' \in [Vms -> Rows] /\ faults' \in 0..MaxFaults
  BY FaultTyped DEF RowsOf
<1> QED
  BY <1>2, <1>3, <1>4, <1>5, <1>6, SweepFacts, WorldFacts, SweepKeeps

LEMMA TableItemsTyped ==
  ASSUME WorkInv,
         \/ ProbeClaimedJob \/ ReleaseClaim \/ DeleteClaim \/ SendRelaunch \/ RestoreClaim
         \/ Reap \/ ProbeReapedJob \/ ProbeJobFails
  PROVE  WorkInv'
<1> DEFINE kept == UNCHANGED <<github, launch, dlq, sweep, snap, todo>>
<1>1. /\ ItemWork /\ claim \in [Jobs -> Claims] /\ snap.claim \in [Jobs -> Claims]
      /\ vm \in [Vms -> VmStates] /\ RowsOf(row) /\ exhausted \subseteq Jobs /\ lost \subseteq Jobs
  BY WorldFacts, SweepFacts DEF WorkInv
<1>2. /\ kept /\ item.rule \in {"claim", "row"}
  BY <1>1, NoItemFields DEF ItemWork, ProbeClaimedJob, ReleaseClaim, DeleteClaim, SendRelaunch,
     RestoreClaim, Reap, ProbeReapedJob, ProbeJobFails, worldVars, At
<1>3. item.job \in Jobs /\ Scanned \in Claims /\ Scanned.relaunch \in 0..MaxRelaunches
  BY <1>1, <1>2 DEF ItemWork, Scanned, Claims
<1>4. CASE ProbeClaimedJob
  <2>1. UNCHANGED <<queue, claim, vm, row, exhausted, lost>> /\ NoFault /\ item.rule = "claim"
        /\ Committed(Scanned)
    BY <1>1, <1>4 DEF ProbeClaimedJob, worldVars, At, ItemWork
  <2>2. \/ item' = NoItem
        \/ Step("delete") /\ Scanned.relaunch < MaxRelaunches
        \/ Step("release")
    BY <1>3, <1>4, ConstantTypes DEF ProbeClaimedJob, AtBound, Done
  <2> QED
    BY <1>1, <1>2, <2>1, <2>2, TableItemKeeps
<1>5. CASE ReleaseClaim
  <2>1. UNCHANGED <<queue, vm, row>> /\ (Fault \/ NoFault) /\ item' = NoItem
    BY <1>5 DEF ReleaseClaim, Done
  <2>2. claim' \in [Jobs -> Claims] /\ exhausted' \subseteq Jobs /\ lost' \subseteq Jobs
    BY <1>1, <1>3, <1>5, RecordFacts DEF ReleaseClaim, ClaimDeleted, Stranded
  <2> QED
    BY <1>1, <1>2, <2>1, <2>2, TableItemKeeps
<1>6. CASE DeleteClaim
  <2>1. UNCHANGED <<queue, vm, row, exhausted>> /\ (Fault \/ NoFault)
    BY <1>6 DEF DeleteClaim
  <2>2. claim' \in [Jobs -> Claims] /\ lost' \subseteq Jobs
    BY <1>1, <1>3, <1>6, RecordFacts DEF DeleteClaim, ClaimDeleted, Stranded
  <2>3. Committed(Scanned) /\ Scanned.relaunch < MaxRelaunches
    BY <1>1, <1>2, <1>6 DEF DeleteClaim, ItemWork
  <2>4. item' = NoItem \/ Step("send")
    BY <1>6 DEF DeleteClaim, Done
  <2> QED
    BY <1>1, <1>2, <2>1, <2>2, <2>3, <2>4, TableItemKeeps
<1>7. CASE SendRelaunch
  <2>1. UNCHANGED <<claim, vm, row, lost, exhausted>> /\ (Fault \/ NoFault)
    BY <1>7 DEF SendRelaunch
  <2>2. Committed(Scanned) /\ Scanned.relaunch < MaxRelaunches
    BY <1>1, <1>2, <1>7 DEF SendRelaunch, ItemWork
  <2>3. Message(item.job, Relaunched(Scanned)) \in Messages
    <3>1. Relaunched(Scanned) \in 0..MaxRelaunches
      BY <1>3, <2>2, ConstantTypes DEF Relaunched
    <3> QED
      BY <1>3, <3>1, MessageFacts
  <2>4. queue' = queue \/ queue' = queue (+) One(Message(item.job, Relaunched(Scanned)))
    BY <1>7 DEF SendRelaunch
  <2>5. item' = NoItem \/ Step("restore")
    BY <1>7 DEF SendRelaunch, Done
  <2> QED
    BY <1>1, <1>2, <2>1, <2>2, <2>3, <2>4, <2>5, TableItemKeeps
<1>8. CASE RestoreClaim
  <2>1. UNCHANGED <<queue, vm, row, exhausted>> /\ (Fault \/ NoFault) /\ item' = NoItem
    BY <1>8 DEF RestoreClaim, Done, Answered
  <2>2. claim' \in [Jobs -> Claims] /\ lost' \subseteq Jobs
    BY <1>1, <1>3, <1>8 DEF RestoreClaim, Stranded
  <2> QED
    BY <1>1, <1>2, <2>1, <2>2, TableItemKeeps
<1>9. CASE Reap
  <2>1. UNCHANGED <<queue, claim, lost>> /\ (Fault \/ NoFault) /\ item.vm \in Vms /\ item.rule = "row"
    BY <1>1, <1>9 DEF Reap, At, ItemWork
  <2>2. vm' \in [Vms -> VmStates] /\ RowsOf(row') /\ exhausted' \subseteq Jobs
    <3>1. vm' = vm \/ vm' = [vm EXCEPT ![item.vm] = Ended]
      BY <1>9 DEF Reap, VmEnded
    <3>2. row' = row \/ row' = [row EXCEPT ![item.vm] = NoRow]
      BY <1>9 DEF Reap, RowDeleted
    <3>3. exhausted' = exhausted \/ exhausted' = exhausted \cup {item.job}
      BY <1>9 DEF Reap
    <3> QED
      BY <1>1, <1>3, <2>1, <3>1, <3>2, <3>3, RecordFacts DEF RowsOf
  <2>3. \/ item' = NoItem
        \/ Step("probeJob") /\ Committed(Scanned) /\ ~AtBound(Scanned)
    BY <1>9 DEF Reap, Done
  <2>4. ~AtBound(Scanned) => Scanned.relaunch < MaxRelaunches
    BY <1>3, ConstantTypes DEF AtBound
  <2> QED
    BY <1>1, <1>2, <2>1, <2>2, <2>3, <2>4, TableItemKeeps
<1>10. CASE ProbeReapedJob
  <2>1. UNCHANGED <<queue, claim, vm, row, exhausted, lost>> /\ NoFault
    BY <1>10 DEF ProbeReapedJob, worldVars
  <2>2. Committed(Scanned) /\ Scanned.relaunch < MaxRelaunches
    BY <1>1, <1>10 DEF ProbeReapedJob, ItemWork, At
  <2>3. item' = NoItem \/ Step("delete")
    BY <1>10 DEF ProbeReapedJob, Done
  <2> QED
    BY <1>1, <1>2, <2>1, <2>2, <2>3, TableItemKeeps
<1>11. CASE ProbeJobFails
  BY <1>1, <1>2, <1>11, TableItemKeeps DEF ProbeJobFails, worldVars, Done
<1> QED
  BY <1>4, <1>5, <1>6, <1>7, <1>8, <1>9, <1>10, <1>11

\* A step that takes nothing into hand and touches neither queue nor letter.
LEMMA LettersUntouched ==
  ASSUME BagsHeld, UNCHANGED <<queue, dlq>>, todo'.letters = todo.letters,
         item.rule # "letter", item'.rule # "letter"
  PROVE  BagsHeld'
<1>1. \A e : InHand(e) = 0 /\ InHand(e)' = 0
  BY DEF InHand
<1> QED
  BY <1>1 DEF BagsHeld, Copies

\* At the end of a sweep nothing is left to handle.
LEMMA SweepOverTyped ==
  ASSUME WorkInv, SweepOver, Fault \/ NoFault, lost' \subseteq Jobs
  PROVE  WorkInv'
<1>1. /\ sweep' = "off" /\ snap' = NoSnap /\ todo' = NoTodo /\ item' = NoItem
      /\ UNCHANGED <<github, queue, claim, vm, row, launch, dlq, exhausted>>
  BY DEF SweepOver, worldVars
<1>2. ItemWork'
  BY <1>1, NoItemFields DEF ItemWork, At
<1>3. SweepWork'
  BY <1>1, NoSnapFields, NoTodoFields, WorldFacts DEF SweepWork
<1>4. BagsHeld'
  <2>1. IsABag(queue) /\ IsABag(dlq)
    BY WorldFacts
  <2>2. \A e : InHand(e)' = 0
    BY <1>1, NoItemFields DEF InHand
  <2>3. IsABag(todo'.letters) /\ \A e : Copies(e, todo'.letters) = 0
    BY <1>1, NoTodoFields, EmptyBagFacts
  <2>4. \A e : Copies(e, dlq) \in Nat
    BY <2>1, CopiesFacts
  <2>5. \A e \in Messages : Copies(e, todo'.letters) + InHand(e)' <= Copies(e, dlq)
    BY <2>2, <2>3, <2>4
  <2> QED
    BY <1>1, <2>1, <2>3, <2>5 DEF BagsHeld, Copies
<1>5. /\ BagToSet(queue') \subseteq Messages /\ BagToSet(dlq') \subseteq Messages
      /\ BagToSet(todo'.letters) \subseteq Messages
      /\ claim' \in [Jobs -> Claims] /\ vm' \in [Vms -> VmStates] /\ row' \in [Vms -> Rows]
      /\ exhausted' \subseteq Jobs /\ todo'.claims \subseteq Jobs /\ todo'.rows \subseteq Vms
  BY <1>1, WorldFacts, SweepFacts, NoTodoFields, EmptyBagFacts DEF RowsOf
<1> QED
  BY <1>1, <1>2, <1>3, <1>4, <1>5, FaultTyped, SweepKeeps

LEMMA PhasesTyped ==
  ASSUME WorkInv, ListVms \/ ScanTable \/ TableDone \/ EndSweep \/ KillSweep
  PROVE  WorkInv'
<1>1. ItemWork /\ SweepWork /\ BagsHeld
  BY DEF WorkInv
<1>2. CASE ListVms
  <2>1. /\ UNCHANGED <<github, queue, vm, launch, dlq, exhausted, todo, item, faults, lost>>
        /\ sweep = "off" /\ sweep' = "scan"
    BY <1>2 DEF ListVms
  <2>2. claim' \in [Jobs -> Claims]
    <3>1. ASSUME NEW j \in Jobs
          PROVE  claim'[j] \in Claims
      <4>1. CASE claim'[j] = [claim[j] EXCEPT !.age = @ + 1] /\ claim[j].age < ClaimLife
        BY <4>1, WorldFacts, ConstantTypes DEF Claims
      <4>2. CASE claim'[j] = claim[j]
        BY <4>2, WorldFacts
      <4> QED
        BY <1>2, <4>1, <4>2 DEF ListVms
    <3>2. claim' = [j \in Jobs |-> claim'[j]]
      BY <1>2 DEF ListVms
    <3> QED
      BY <3>1, <3>2
  <2>3. RowsOf(row')
    BY <1>2, WorldFacts, RecordFacts DEF ListVms, RowsOf
  <2>4. snap' = [snap EXCEPT !.running = {v \in Vms : Running(v)}]
    BY <1>2 DEF ListVms
  <2>5. item = NoItem /\ item' = NoItem
    BY <1>1, <2>1 DEF SweepWork
  <2>6. ItemWork'
    BY <2>5, NoItemFields DEF ItemWork, At
  <2>7. SweepWork'
    <3> DEFINE R == {v \in Vms : Running(v)}
    <3>1. R \subseteq Vms
      OBVIOUS
    <3>2. snap' = [snap EXCEPT !.running = R]
      BY <2>4
    <3> HIDE DEF R
    <3>3. snap' \in [running : SUBSET Vms, claim : [Jobs -> Claims], row : [Vms -> Rows]]
          /\ snap'.row = snap.row
      BY <1>1, <3>1, <3>2 DEF SweepWork
    <3>4. todo' = NoTodo /\ RowsOf(snap'.row)
      BY <1>1, <2>1, <3>3 DEF SweepWork
    <3>5. /\ todo' = [claims |-> todo'.claims, rows |-> todo'.rows, letters |-> todo'.letters]
          /\ todo'.claims = {} /\ todo'.rows = {} /\ todo'.letters = EmptyBag
      BY <3>4, NoTodoFields
    <3> QED
      BY <2>1, <2>3, <2>5, <3>3, <3>4, <3>5 DEF SweepWork
  <2>8. BagsHeld'
    BY <1>1, <2>1, <2>5, NoItemFields, LettersUntouched
  <2>9. faults' \in 0..MaxFaults /\ row' \in [Vms -> Rows]
    BY <2>1, <2>3, WorldFacts DEF RowsOf
  <2> QED
    BY <2>1, <2>2, <2>6, <2>7, <2>8, <2>9, WorldFacts, SweepFacts, SweepKeeps
<1>3. CASE ScanTable
  <2> DEFINE C == {j \in Jobs : WithinCap(j)}
             R == {v \in snap.running : row[v] # NoRow}
  <2>1. /\ UNCHANGED <<github, queue, vm, claim, row, launch, dlq, exhausted, item, faults, lost>>
        /\ sweep = "scan" /\ sweep' = "table"
    BY <1>3 DEF ScanTable, worldVars
  <2>2. C \subseteq Jobs /\ R \subseteq Vms /\ (\A v \in R : row[v] # NoRow)
        /\ \A j \in C : Committed(claim[j])
    BY SweepFacts DEF WithinCap
  <2>3. /\ snap' = [running |-> snap.running, claim |-> claim, row |-> row]
        /\ todo' = [claims |-> C, rows |-> R, letters |-> todo.letters]
    BY <1>1, <1>3 DEF ScanTable, SweepWork
  <2> HIDE DEF C, R
  <2>4. item = NoItem /\ item' = NoItem
    BY <1>1, <2>1 DEF SweepWork
  <2>5. ItemWork'
    BY <2>4, NoItemFields DEF ItemWork, At
  <2>6. todo.letters = EmptyBag
    BY <1>1, <2>1 DEF SweepWork
  <2>7. /\ snap'.running = snap.running /\ snap'.claim = claim /\ snap'.row = row
        /\ todo'.claims = C /\ todo'.rows = R /\ todo'.letters = todo.letters
    BY <2>3
  <2>8. /\ snap' \in [running : SUBSET Vms, claim : [Jobs -> Claims], row : [Vms -> Rows]]
        /\ todo' = [claims |-> todo'.claims, rows |-> todo'.rows, letters |-> todo'.letters]
    BY <2>3, <2>7, WorldFacts, SweepFacts DEF RowsOf
  <2>9. SweepWork'
    BY <2>1, <2>2, <2>4, <2>6, <2>7, <2>8, WorldFacts DEF SweepWork
  <2>10. BagsHeld'
    BY <1>1, <2>1, <2>4, <2>7, NoItemFields, LettersUntouched
  <2>11. row' \in [Vms -> Rows]
    BY <2>1, WorldFacts DEF RowsOf
  <2> QED
    BY <2>1, <2>2, <2>5, <2>7, <2>9, <2>10, <2>11, WorldFacts, SweepFacts, SweepKeeps
<1>4. CASE TableDone
  <2>1. /\ UNCHANGED <<github, queue, vm, claim, row, launch, dlq, exhausted, item, faults, lost>>
        /\ sweep = "table" /\ sweep' = "letters" /\ todo.claims = {} /\ todo.rows = {}
        /\ item = NoItem /\ item' = NoItem /\ snap' = NoSnap
    BY <1>4 DEF TableDone, worldVars
  <2>2. PICK b \in Pulls : todo' = [todo EXCEPT !.letters = b]
    BY <1>4 DEF TableDone
  <2>3. todo' = [claims |-> {}, rows |-> {}, letters |-> b]
    BY <1>1, <2>1, <2>2 DEF SweepWork
  <2>4. /\ todo'.claims = {} /\ todo'.rows = {} /\ todo'.letters = b
        /\ todo' = [claims |-> todo'.claims, rows |-> todo'.rows, letters |-> todo'.letters]
    BY <2>3
  <2>5. IsABag(b) /\ BagToSet(b) \subseteq Messages /\ \A e : Copies(e, b) <= Copies(e, dlq)
    BY WorldFacts, PullFacts
  <2>6. ItemWork'
    BY <2>1, NoItemFields DEF ItemWork, At
  <2>7. SweepWork'
    BY <2>1, <2>4, NoSnapFields, WorldFacts DEF SweepWork
  <2>8. BagsHeld'
    <3>1. \A e : InHand(e)' = 0
      BY <2>1, NoItemFields DEF InHand
    <3>2. \A e : Copies(e, b) \in Nat /\ Copies(e, dlq) \in Nat
      BY <2>5, WorldFacts, CopiesFacts
    <3>3. \A e \in Messages : Copies(e, b) + InHand(e)' <= Copies(e, dlq)
      BY <2>5, <3>1, <3>2
    <3> QED
      BY <1>1, <2>1, <2>4, <2>5, <3>3 DEF BagsHeld, Copies
  <2>9. row' \in [Vms -> Rows]
    BY <2>1, WorldFacts DEF RowsOf
  <2> QED
    BY <2>1, <2>4, <2>5, <2>6, <2>7, <2>8, <2>9, WorldFacts, SweepFacts, SweepKeeps
<1>5. CASE EndSweep
  BY <1>5, SweepFacts, SweepOverTyped DEF EndSweep
<1>6. CASE KillSweep
  <2>1. Resending => item.job \in Jobs
    BY <1>1 DEF Resending, ItemWork
  <2>2. lost' \subseteq Jobs
    BY <1>6, <2>1, SweepFacts DEF KillSweep
  <2> QED
    BY <1>6, <2>2, SweepOverTyped DEF KillSweep
<1> QED
  BY <1>2, <1>3, <1>4, <1>5, <1>6

\* The next item of the table.
LEMMA TakeUpTyped ==
  ASSUME WorkInv, ProbeClaimVm \/ JudgeRow
  PROVE  WorkInv'
<1>1. ItemWork /\ SweepWork /\ BagsHeld
  BY DEF WorkInv
<1>2. CASE ProbeClaimVm
  <2>1. /\ UNCHANGED <<github, queue, claim, vm, row, launch, dlq, exhausted, sweep, snap, lost>>
        /\ sweep = "table" /\ item = NoItem /\ (Fault \/ NoFault)
    BY <1>2 DEF ProbeClaimVm, worldVars
  <2>2. PICK j \in todo.claims :
          /\ todo' = [todo EXCEPT !.claims = @ \ {j}]
          /\ item' = item \/ item' = Item("claim", "probeJob", j, snap.claim[j].vm, NoMessage)
    BY <1>2 DEF ProbeClaimVm
  <2>3. todo' = [claims |-> todo.claims \ {j}, rows |-> todo.rows, letters |-> todo.letters]
    BY <1>1, <2>2 DEF SweepWork
  <2>4. /\ todo'.claims = todo.claims \ {j} /\ todo'.rows = todo.rows /\ todo'.letters = todo.letters
        /\ todo' = [claims |-> todo'.claims, rows |-> todo'.rows, letters |-> todo'.letters]
    BY <2>3
  <2>5. j \in Jobs /\ Committed(snap.claim[j]) /\ snap.claim[j].vm \in Vms \cup {NoVm}
    BY <1>1, SweepFacts DEF SweepWork, Claims
  <2>6. ItemWork'
    <3>1. CASE item' = item
      BY <2>1, <3>1, NoItemFields DEF ItemWork, At
    <3>2. CASE item' = Item("claim", "probeJob", j, snap.claim[j].vm, NoMessage)
      <4>1. /\ item'.rule = "claim" /\ item'.step = "probeJob" /\ item'.job = j
            /\ item'.vm = snap.claim[j].vm /\ item'.letter = NoMessage
        BY <3>2, ItemFields
      <4>2. Scanned' = snap.claim[j]
        BY <2>1, <4>1 DEF Scanned
      <4> QED
        BY <2>1, <2>5, <3>2, <4>1, <4>2 DEF ItemWork, At, Committed
    <3> QED
      BY <2>2, <3>1, <3>2
  <2>7. SweepWork'
    BY <1>1, <2>1, <2>4 DEF SweepWork
  <2>8. item.rule # "letter" /\ item'.rule # "letter"
    BY <2>1, <2>2, NoItemFields, ItemFields
  <2>9. BagsHeld'
    BY <1>1, <2>1, <2>4, <2>8, LettersUntouched
  <2>10. row' \in [Vms -> Rows] /\ faults' \in 0..MaxFaults
    BY <2>1, WorldFacts, FaultTyped DEF RowsOf
  <2> QED
    BY <2>1, <2>4, <2>6, <2>7, <2>9, <2>10, WorldFacts, SweepFacts, SweepKeeps
<1>3. CASE JudgeRow
  <2>1. /\ UNCHANGED <<github, queue, claim, launch, dlq, exhausted, sweep, snap, lost>>
        /\ sweep = "table" /\ item = NoItem /\ (Fault \/ NoFault)
    BY <1>3 DEF JudgeRow, Answered
  <2>2. PICK v \in todo.rows :
          /\ todo' = [todo EXCEPT !.rows = @ \ {v}]
          /\ \/ UNCHANGED <<vm, row, item>>
             \/ (\E b \in BOOLEAN : Strike(v, b)) /\ UNCHANGED <<vm, item>>
             \/ /\ VmEnded(v) \/ Deregistered(v)
                /\ RowDeleted(v) \/ UNCHANGED row
                /\ UNCHANGED item
             \/ item' = Item("row", "terminate", snap.row[v].job, v, NoMessage) /\ UNCHANGED <<vm, row>>
    BY <1>3 DEF JudgeRow
  <2>3. todo' = [claims |-> todo.claims, rows |-> todo.rows \ {v}, letters |-> todo.letters]
    BY <1>1, <2>2 DEF SweepWork
  <2>4. /\ todo'.claims = todo.claims /\ todo'.rows = todo.rows \ {v} /\ todo'.letters = todo.letters
        /\ todo' = [claims |-> todo'.claims, rows |-> todo'.rows, letters |-> todo'.letters]
    BY <2>3
  <2>5. v \in Vms /\ snap.row[v].job \in Jobs
    BY <1>1, SweepFacts DEF SweepWork, RowsOf
  <2>6. vm' \in [Vms -> VmStates]
    <3>1. vm' = vm \/ VmEnded(v) \/ Deregistered(v)
      BY <2>2
    <3>2. CASE vm' = vm \/ VmEnded(v)
      BY <2>5, <3>2, WorldFacts, RecordFacts DEF VmEnded
    <3>3. CASE Deregistered(v)
      BY <2>5, <3>3, WorldFacts DEF Deregistered, VmStates
    <3> QED
      BY <3>1, <3>2, <3>3
  <2>7. RowsOf(row')
    <3>1. ASSUME NEW b \in BOOLEAN, Strike(v, b) PROVE RowsOf(row')
      <4>1. CASE row' = row
        BY <4>1, WorldFacts
      <4>2. CASE row[v] # NoRow /\ row' = [row EXCEPT ![v].struck = b]
        <5> DEFINE r == [row[v] EXCEPT !.struck = b]
        <5>1. r \in Rows /\ r.job \in Jobs
          BY <2>5, <4>2, WorldFacts DEF RowsOf, Rows
        <5>2. row' = [row EXCEPT ![v] = r]
          BY <4>2
        <5> HIDE DEF r
        <5> QED
          BY <2>5, <5>1, <5>2, WorldFacts DEF RowsOf
      <4> QED
        BY <3>1, <4>1, <4>2 DEF Strike
    <3>2. row' = row \/ row' = [row EXCEPT ![v] = NoRow] \/ \E b \in BOOLEAN : Strike(v, b)
      BY <2>2 DEF RowDeleted
    <3> QED
      BY <2>5, <3>1, <3>2, WorldFacts, RecordFacts DEF RowsOf
  <2>8. item' = item \/ item' = Item("row", "terminate", snap.row[v].job, v, NoMessage)
    BY <2>2
  <2>9. ItemWork'
    <3>1. CASE item' = item
      BY <2>1, <3>1, NoItemFields DEF ItemWork, At
    <3>2. CASE item' = Item("row", "terminate", snap.row[v].job, v, NoMessage)
      <4>1. /\ item'.rule = "row" /\ item'.step = "terminate" /\ item'.job = snap.row[v].job
            /\ item'.vm = v /\ item'.letter = NoMessage
        BY <3>2, ItemFields
      <4> QED
        BY <2>1, <2>5, <3>2, <4>1 DEF ItemWork, At
    <3> QED
      BY <2>8, <3>1, <3>2
  <2>10. SweepWork'
    BY <1>1, <2>1, <2>4, <2>7 DEF SweepWork
  <2>11. item.rule # "letter" /\ item'.rule # "letter"
    BY <2>1, <2>8, NoItemFields, ItemFields
  <2>12. BagsHeld'
    BY <1>1, <2>1, <2>4, <2>11, LettersUntouched
  <2>13. row' \in [Vms -> Rows] /\ faults' \in 0..MaxFaults
    BY <2>1, <2>7, FaultTyped DEF RowsOf
  <2> QED
    BY <2>1, <2>4, <2>6, <2>9, <2>10, <2>12, <2>13, WorldFacts, SweepFacts, SweepKeeps
<1> QED
  BY <1>2, <1>3

\* Dead letters.
LEMMA LettersTyped ==
  ASSUME WorkInv, ProbeLetter \/ SendLetter \/ DeleteLetter
  PROVE  WorkInv'
<1>1. ItemWork /\ SweepWork /\ BagsHeld
  BY DEF WorkInv
<1>2. /\ IsABag(queue) /\ IsABag(dlq) /\ IsABag(todo.letters)
      /\ BagToSet(queue) \subseteq Messages /\ BagToSet(dlq) \subseteq Messages
      /\ BagToSet(todo.letters) \subseteq Messages
  BY WorldFacts, SweepFacts
<1>3. \A e : Copies(e, todo.letters) \in Nat /\ Copies(e, dlq) \in Nat
  BY <1>2, CopiesFacts
<1>4. row \in [Vms -> Rows]
  BY WorldFacts DEF RowsOf
<1>5. CASE ProbeLetter
  <2>1. /\ UNCHANGED <<github, queue, claim, vm, row, launch, dlq, exhausted, sweep, snap, lost>>
        /\ sweep = "letters" /\ item = NoItem /\ (Fault \/ NoFault)
    BY <1>5 DEF ProbeLetter, worldVars
  <2>2. PICK m \in BagToSet(todo.letters) :
          /\ todo' = [todo EXCEPT !.letters = @ (-) One(m)]
          /\ \/ item' = item
             \/ \E s \in {"send", "discard"} : item' = Item("letter", s, m.job, NoVm, m)
    BY <1>5 DEF ProbeLetter
  <2> DEFINE L == todo.letters (-) One(m)
  <2>3. todo' = [claims |-> todo.claims, rows |-> todo.rows, letters |-> L]
    BY <1>1, <2>2 DEF SweepWork
  <2>4. /\ IsABag(L) /\ BagToSet(L) \subseteq BagToSet(todo.letters)
        /\ \A e : e # m => Copies(e, L) = Copies(e, todo.letters)
        /\ Copies(m, L) = Copies(m, todo.letters) - 1
    BY <1>2, BagFacts
  <2> HIDE DEF L
  <2>5. /\ todo'.claims = todo.claims /\ todo'.rows = todo.rows /\ todo'.letters = L
        /\ todo' = [claims |-> todo'.claims, rows |-> todo'.rows, letters |-> todo'.letters]
    BY <2>3
  <2>6. m \in Messages /\ m.job \in Jobs
    BY <1>2, MessageFacts
  <2>7. /\ ItemWork'
        /\ \A e : InHand(e)' = 0 \/ (e = m /\ InHand(e)' = 1)
    <3>1. CASE item' = item
      BY <2>1, <3>1, NoItemFields DEF ItemWork, At, InHand
    <3>2. ASSUME NEW s \in {"send", "discard"}, item' = Item("letter", s, m.job, NoVm, m)
          PROVE  ItemWork' /\ \A e : InHand(e)' = 0 \/ (e = m /\ InHand(e)' = 1)
      <4>1. /\ item'.rule = "letter" /\ item'.step = s /\ item'.job = m.job
            /\ item'.vm = NoVm /\ item'.letter = m
        BY <3>2, ItemFields
      <4>2. ItemWork'
        BY <2>1, <2>6, <3>2, <4>1 DEF ItemWork, At
      <4>3. \A e : InHand(e)' = 0 \/ (e = m /\ InHand(e)' = 1)
        BY <4>1 DEF InHand
      <4> QED
        BY <4>2, <4>3
    <3> QED
      BY <2>2, <3>1, <3>2
  <2>8. SweepWork'
    BY <1>1, <2>1, <2>5 DEF SweepWork
  <2>9. BagsHeld'
    <3>1. \A e : InHand(e) = 0
      BY <2>1, NoItemFields DEF InHand
    <3>2. \A e \in Messages : Copies(e, todo.letters) <= Copies(e, dlq)
      BY <1>1, <1>3, <3>1 DEF BagsHeld
    <3>3. \A e \in Messages : Copies(e, L) + InHand(e)' <= Copies(e, dlq)
      BY <1>3, <2>4, <2>7, <3>2
    <3> QED
      BY <1>2, <2>1, <2>4, <2>5, <3>3 DEF BagsHeld, Copies
  <2>10. faults' \in 0..MaxFaults
    BY <2>1, FaultTyped
  <2>11. BagToSet(todo'.letters) \subseteq Messages
    BY <1>2, <2>4, <2>5
  <2> QED
    BY <1>4, <2>1, <2>5, <2>7, <2>8, <2>9, <2>10, <2>11, WorldFacts, SweepFacts, SweepKeeps
<1>6. CASE SendLetter
  <2>1. /\ UNCHANGED <<github, claim, vm, row, launch, dlq, exhausted, sweep, snap, todo, lost>>
        /\ At("letter", "send") /\ (Fault \/ NoFault)
        /\ queue' = queue \/ queue' = queue (+) One(item.letter)
        /\ Step("discard") \/ item' = NoItem
    BY <1>6 DEF SendLetter, Done
  <2>2. item.letter \in Messages /\ item.job = item.letter.job /\ sweep = "letters"
    BY <1>1, <2>1 DEF ItemWork, At
  <2>3. IsABag(queue') /\ BagToSet(queue') \subseteq Messages
    BY <1>2, <2>1, <2>2, BagFacts
  <2>4. Step("discard") => item' = Item("letter", "discard", item.job, item.vm, item.letter)
    BY <1>1, <2>1, ItemFields DEF ItemWork, At, Step
  <2>5. /\ ItemWork'
        /\ \A e : InHand(e)' \in {0, 1} /\ InHand(e)' <= InHand(e)
    <3>1. CASE item' = NoItem
      BY <3>1, NoItemFields DEF ItemWork, At, InHand
    <3>2. CASE item' = Item("letter", "discard", item.job, item.vm, item.letter)
      <4>1. /\ item'.rule = "letter" /\ item'.step = "discard" /\ item'.job = item.job
            /\ item'.vm = item.vm /\ item'.letter = item.letter
        BY <3>2, ItemFields
      <4>2. ItemWork'
        BY <1>1, <2>1, <2>2, <3>2, <4>1 DEF ItemWork, At
      <4>3. \A e : InHand(e)' \in {0, 1} /\ InHand(e)' <= InHand(e)
        BY <2>1, <4>1 DEF InHand, At
      <4> QED
        BY <4>2, <4>3
    <3> QED
      BY <2>1, <2>4, <3>1, <3>2
  <2>6. SweepWork'
    BY <1>1, <2>1, <2>2 DEF SweepWork
  <2>7. BagsHeld'
    <3>1. \A e : InHand(e) \in {0, 1}
      BY DEF InHand
    <3>2. \A e \in Messages : Copies(e, todo.letters) + InHand(e)' <= Copies(e, dlq)
      BY <1>1, <1>3, <2>5, <3>1 DEF BagsHeld
    <3> QED
      BY <1>2, <2>1, <2>3, <3>2 DEF BagsHeld, Copies
  <2>8. faults' \in 0..MaxFaults
    BY <2>1, FaultTyped
  <2> QED
    BY <1>2, <1>4, <2>1, <2>3, <2>5, <2>6, <2>7, <2>8, WorldFacts, SweepFacts, SweepKeeps
<1>7. CASE DeleteLetter
  <2>1. /\ UNCHANGED <<github, queue, claim, vm, row, launch, exhausted, sweep, snap, todo, lost>>
        /\ At("letter", "discard") /\ (Fault \/ NoFault)
        /\ dlq' = dlq \/ dlq' = dlq (-) One(item.letter)
        /\ item' = NoItem
    BY <1>7 DEF DeleteLetter, Done, worldVars, Answered
  <2>2. item.letter \in Messages /\ sweep = "letters"
    BY <1>1, <2>1 DEF ItemWork, At
  <2>3. Copies(item.letter, todo.letters) + 1 <= Copies(item.letter, dlq)
    <3>1. InHand(item.letter) = 1
      BY <2>1 DEF InHand, At
    <3> QED
      BY <1>1, <2>2, <3>1 DEF BagsHeld
  <2>4. item.letter \in BagToSet(dlq)
    BY <1>2, <1>3, <2>3, CopiesFacts
  <2>5. /\ IsABag(dlq (-) One(item.letter)) /\ BagToSet(dlq (-) One(item.letter)) \subseteq BagToSet(dlq)
        /\ \A e : e # item.letter => Copies(e, dlq (-) One(item.letter)) = Copies(e, dlq)
        /\ Copies(item.letter, dlq (-) One(item.letter)) = Copies(item.letter, dlq) - 1
    BY <1>2, <2>4, BagFacts
  <2>6. ItemWork'
    BY <2>1, NoItemFields DEF ItemWork, At
  <2>7. SweepWork'
    BY <1>1, <2>1, <2>2 DEF SweepWork
  <2>8. BagsHeld'
    <3>1. \A e : InHand(e)' = 0 /\ InHand(e) \in {0, 1}
      BY <2>1, NoItemFields DEF InHand
    <3>2. \A e \in Messages : Copies(e, todo.letters) <= Copies(e, dlq)
      BY <1>1, <1>3, <3>1 DEF BagsHeld
    <3>3. \A e \in Messages : Copies(e, todo.letters) + InHand(e)' <= Copies(e, dlq')
      BY <1>3, <2>1, <2>3, <2>5, <3>1, <3>2
    <3>4. IsABag(dlq')
      BY <1>2, <2>1, <2>5
    <3> QED
      BY <1>2, <2>1, <3>3, <3>4 DEF BagsHeld, Copies
  <2>9. faults' \in 0..MaxFaults /\ BagToSet(dlq') \subseteq Messages
    BY <1>2, <2>1, <2>5, FaultTyped
  <2> QED
    BY <1>2, <1>4, <2>1, <2>6, <2>7, <2>8, <2>9, WorldFacts, SweepFacts, SweepKeeps
<1> QED
  BY <1>5, <1>6, <1>7

LEMMA WorkInvStep == WorkInv /\ [Next]_vars => WorkInv'
<1> SUFFICES ASSUME WorkInv, [Next]_vars PROVE WorkInv'
  OBVIOUS
<1>1. CASE UNCHANGED vars
  <2>1. UNCHANGED <<github, queue, claim, vm, row, launch, dlq, exhausted, sweep, snap, todo, item,
                    faults, lost>>
    BY <1>1 DEF vars, worldVars, sweepVars
  <2> QED
    BY <2>1, WorldFacts, WorldKeeps DEF sweepVars
<1>2. ASSUME NEW j \in Jobs, Announce(j) \/ Cancel(j) \/ ExpireClaim(j) \/ Deliver(j)
      PROVE  WorkInv'
  BY <1>2, MessageStepsTyped
<1>3. ASSUME NEW v \in Vms,
             Commit(v) \/ FailLaunch(v) \/ Register(v) \/ TakeJob(v) \/ FinishJob(v) \/ VmEnds(v)
      PROVE  WorkInv'
  BY <1>3, VmStepsTyped
<1>4. CASE SweepStep
  BY <1>4, TableItemsTyped, PhasesTyped, TakeUpTyped, LettersTyped DEF SweepStep
<1>5. CASE KillSweep
  BY <1>5, PhasesTyped
<1> QED
  BY <1>1, <1>2, <1>3, <1>4, <1>5 DEF Next

THEOREM WorkInvariant == Spec => []WorkInv
<1>1. Init => WorkInv
  BY WorkInvInit
<1>2. WorkInv /\ [Next]_vars => WorkInv'
  BY WorkInvStep
<1> QED
  BY <1>1, <1>2, PTL DEF Spec

\* The recovery keeps the shape of its state, and no counter passes its bound: a claim's
\* relaunch count, and a message's, stay within MaxRelaunches.
THEOREM TypeCorrect == Spec => []TypeOK
<1>1. WorkInv => TypeOK
  BY DEF WorkInv
<1> QED
  BY <1>1, WorkInvariant, PTL

-----------------------------------------------------------------------------
(* No job is lost.  A committed claim tracks its job until it expires, so  *)
(* the argument is about ages: while a job may still have to be recovered, *)
(* its claim is no older than the faults there have been, plus one in the  *)
(* sweep that has yet to come to it.                                       *)

\* Jobs that may still have to be recovered.
Live(j) == github[j] \in {"none", "queued"} /\ j \notin exhausted \cup lost

\* Before its announcement nothing knows of a job.
Unannounced(j) ==
  /\ ~Committed(claim[j]) /\ ~Committed(snap.claim[j])
  /\ \A v \in Vms : launch[v].job # j
  /\ \A m \in BagToSet(queue) \cup BagToSet(dlq) : m.job # j

\* The dead letters that stay when the one about to be deleted is gone.
Discarding(e) == IF At("letter", "discard") /\ item.letter = e THEN 1 ELSE 0
Staying(e) == e \in Messages /\ Copies(e, dlq) > Discarding(e)

SafelyTracked(j) ==
  \/ \E m \in Messages : m.job = j /\ (m \in BagToSet(queue) \/ Staying(m))
  \/ \E v \in Vms : launch[v].job = j
  \/ Committed(claim[j])
  \/ item.job = j /\ Resending

\* The sweep has still to come to the claim of job j.
Awaiting(j) ==
  \/ sweep = "scan"
  \/ j \in todo.claims
  \/ item.rule = "claim" /\ item.job = j /\ item.step \in {"probeJob", "delete", "release"}

\* Only a fault lets a claim whose VM is gone grow older than the sweep that finds it.
AgeBound(j) ==
  Live(j) =>
    /\ Committed(claim[j]) => claim[j].age <= faults + (IF Awaiting(j) THEN 1 ELSE 0)
    /\ Committed(snap.claim[j]) => snap.claim[j].age <= faults + 1
    /\ item.step = "restore" /\ item.job = j => snap.claim[j].age <= faults
    /\ j \in todo.claims => claim[j] = snap.claim[j] /\ item.job # j

\* A claim ages only when its VM is gone, and no id is used again while a claim names it.
Settled(c) ==
  /\ Committed(c) => c.vm \in Vms
  /\ c.age > 0 => Committed(c) /\ ~Running(c.vm)

JobSafe(j) ==
  /\ github[j] = "none" => Unannounced(j)
  /\ AgeBound(j)
  /\ Settled(claim[j]) /\ Settled(snap.claim[j])
  /\ Live(j) /\ github[j] = "queued" => SafelyTracked(j)

TrackInv == \A j \in Jobs : JobSafe(j)

\* As many committed claims as a sweep probes, and no more.
BacklogFits == Cardinality({j \in Jobs : Committed(claim[j])}) <= ClaimCap

-----------------------------------------------------------------------------
\* A claim with an age has a VM that has ended, so it is not a fresh one.
LEMMA FreshClaims ==
  /\ Settled(FreeClaim) /\ ~Committed(FreeClaim)
  /\ NoSnap.claim = [j \in Jobs |-> FreeClaim]
  BY RecordFacts, NoSnapFields DEF Settled, FreeClaim

LEMMA JobFacts ==
  ASSUME WorkInv, NEW j \in Jobs
  PROVE  /\ claim[j] \in Claims /\ snap.claim[j] \in Claims
         /\ claim[j].age \in Nat /\ snap.claim[j].age \in Nat /\ faults \in Nat /\ faults <= MaxFaults
         /\ j # 0
  BY WorldFacts, SweepFacts, ConstantTypes DEF Claims

LEMMA JobFactsAfter ==
  ASSUME WorkInv', NEW j \in Jobs
  PROVE  claim'[j].age \in Nat /\ faults' \in Nat
<1>1. claim' \in [Jobs -> Claims] /\ faults' \in 0..MaxFaults
  BY DEF WorkInv, TypeOK, Claims
<1> QED
  BY <1>1, ConstantTypes DEF Claims

LEMMA AwaitedClaims ==
  ASSUME WorkInv, NEW j \in todo.claims, JobSafe(j), Live(j)
  PROVE  Committed(claim[j]) /\ claim[j] = snap.claim[j]
  BY DEF WorkInv, SweepWork, JobSafe, AgeBound

LEMMA TrackInit == Init => TrackInv
<1> SUFFICES ASSUME Init, NEW j \in Jobs PROVE JobSafe(j)
  BY DEF TrackInv
<1>1. /\ github[j] = "none" /\ claim[j] = FreeClaim /\ snap.claim[j] = FreeClaim
      /\ BagToSet(queue) = {} /\ BagToSet(dlq) = {} /\ \A v \in Vms : launch[v].job = 0
      /\ todo.claims = {} /\ item.step = "none"
  BY FreshClaims, EmptyBagFacts, NoTodoFields, NoItemFields, MessageFacts DEF Init
<1> QED
  BY <1>1, FreshClaims, ConstantTypes DEF JobSafe, Unannounced, AgeBound

\* What a step of the world must establish for a job.
LEMMA WorldKeepsJob ==
  ASSUME WorkInv, WorkInv', NEW j \in Jobs, JobSafe(j),
         UNCHANGED <<sweepVars, exhausted, lost>>, faults <= faults',
         github'[j] = "none" => github[j] = "none" /\ Unannounced(j)',
         github'[j] = "queued" => github[j] \in {"none", "queued"},
         \/ claim'[j] = claim[j]
         \/ claim'[j].age = 0 /\ (Committed(claim'[j]) => claim'[j].vm \in Vms),
         Live(j)' /\ j \in todo.claims => claim'[j] = claim[j],
         \A v \in Vms : Running(v)' =>
            \/ Running(v)
            \/ v # snap.claim[j].vm /\ (v # claim'[j].vm \/ claim'[j].age = 0),
         Live(j)' /\ github'[j] = "queued" => SafelyTracked(j)'
  PROVE  JobSafe(j)'
<1>1. UNCHANGED <<sweep, snap, todo, item>>
  BY DEF sweepVars
<1>2. Live(j)' => Live(j)
  BY DEF Live
<1>3. AgeBound(j)'
  <2> SUFFICES ASSUME Live(j)' PROVE AgeBound(j)'
    BY DEF AgeBound
  <2>1. Awaiting(j)' <=> Awaiting(j)
    BY <1>1 DEF Awaiting
  <2>2. Committed(claim'[j]) => claim'[j].age <= faults' + (IF Awaiting(j)' THEN 1 ELSE 0)
    <3>1. claim'[j].age \in Nat /\ claim[j].age \in Nat /\ faults \in Nat /\ faults' \in Nat
      BY JobFacts, JobFactsAfter
    <3>2. CASE claim'[j] = claim[j]
      BY <1>2, <2>1, <3>1, <3>2 DEF JobSafe, AgeBound
    <3>3. CASE claim'[j].age = 0
      <4>1. claim'[j].age <= faults' /\ claim'[j].age <= faults' + 1
        BY <3>1, <3>3
      <4> QED
        BY <3>1, <4>1
    <3> QED
      BY <3>2, <3>3
  <2>3. /\ Committed(snap.claim[j]) => snap.claim[j].age <= faults' + 1
        /\ item.step = "restore" /\ item.job = j => snap.claim[j].age <= faults'
    BY <1>2, JobFacts, JobFactsAfter DEF JobSafe, AgeBound
  <2>4. j \in todo.claims => claim'[j] = snap.claim[j] /\ item.job # j
    BY <1>2 DEF JobSafe, AgeBound
  <2> QED
    BY <1>1, <2>2, <2>3, <2>4 DEF AgeBound, Committed
<1>4. Settled(claim[j])' /\ Settled(snap.claim[j])'
  <2>1. claim'[j].age \in Nat
    BY JobFactsAfter
  <2>2. Settled(snap.claim[j])'
    BY <1>1 DEF JobSafe, Settled, Committed
  <2>3. CASE claim'[j].age = 0
    BY <2>1, <2>2, <2>3 DEF JobSafe, Settled, Committed
  <2>4. CASE claim'[j] = claim[j] /\ claim'[j].age # 0
    BY <2>1, <2>2, <2>4 DEF JobSafe, Settled, Committed
  <2> QED
    BY <2>2, <2>3, <2>4
<1> QED
  BY <1>3, <1>4 DEF JobSafe

\* A message that leaves the queue or a launch by a redrive is on one of the queues.
LEMMA RedriveTracks ==
  ASSUME WorkInv, UNCHANGED item, NEW m \in Messages, NEW q, IsABag(q),
         BagToSet(q) \subseteq BagToSet(queue), BagToSet(queue) \ {m} \subseteq BagToSet(q),
         Redrive(m, q)
  PROVE  /\ \A e \in Messages : e = m \/ e \in BagToSet(queue) \/ Staying(e)
                                  => e \in BagToSet(queue') \/ Staying(e)'
         /\ BagToSet(queue') \cup BagToSet(dlq') \subseteq BagToSet(queue) \cup BagToSet(dlq) \cup {m}
<1>1. IsABag(dlq) /\ \A e : Copies(e, dlq) \in Nat
  BY WorldFacts, CopiesFacts
<1>2. \A e : Discarding(e)' = Discarding(e)
  BY DEF Discarding, At
<1>3. \A e \in Messages : Discarding(e) <= Copies(e, dlq) /\ Discarding(e) \in {0, 1}
  <2>1. SUFFICES ASSUME NEW e \in Messages, At("letter", "discard"), item.letter = e
                 PROVE  1 <= Copies(e, dlq)
    BY <1>1 DEF Discarding
  <2>2. Copies(e, todo.letters) \in Nat
    BY SweepFacts, CopiesFacts
  <2>3. Copies(e, todo.letters) + 1 <= Copies(e, dlq)
    <3>1. InHand(e) = 1
      BY <2>1 DEF At, InHand
    <3> QED
      BY <3>1 DEF WorkInv, BagsHeld
  <2> QED
    BY <1>1, <2>2, <2>3
<1>4. CASE queue' = q (+) One(m) /\ dlq' = dlq
  <2>1. BagToSet(queue') = BagToSet(q) \cup {m}
    BY <1>4, BagFacts
  <2> QED
    BY <1>2, <1>4, <2>1 DEF Staying
<1>5. CASE queue' = q /\ dlq' = dlq (+) One(m)
  <2>1. /\ \A e : Copies(e, dlq') = Copies(e, dlq) + (IF e = m THEN 1 ELSE 0)
        /\ BagToSet(dlq') = BagToSet(dlq) \cup {m}
    BY <1>1, <1>5, BagFacts
  <2>2. \A e \in Messages : e = m \/ Staying(e) => Staying(e)'
    BY <1>1, <1>2, <1>3, <2>1 DEF Staying
  <2> QED
    BY <1>5, <2>1, <2>2
<1> QED
  BY <1>4, <1>5 DEF Redrive

\* Messages only ever come to be on the queue, as far as a job they do not name can tell.
LEMMA QueueGrowsTracks ==
  ASSUME WorkInv, NEW j \in Jobs, SafelyTracked(j), UNCHANGED <<item, dlq>>,
         \A e \in BagToSet(queue) : e.job = j => e \in BagToSet(queue'),
         \A v \in Vms : launch[v].job = j => launch'[v].job = j,
         Committed(claim[j]) => Committed(claim'[j])
  PROVE  SafelyTracked(j)'
<1>1. \A e : Staying(e)' <=> Staying(e)
  BY DEF Staying, Discarding, At
<1> QED
  BY <1>1 DEF SafelyTracked, Resending

LEMMA UnannouncedStays ==
  ASSUME NEW j \in Jobs, Unannounced(j), UNCHANGED snap,
         ~Committed(claim'[j]), \A v \in Vms : launch'[v].job # j,
         \A m \in BagToSet(queue') \cup BagToSet(dlq') : m.job = j =>
            m \in BagToSet(queue) \cup BagToSet(dlq)
  PROVE  Unannounced(j)'
  BY DEF Unannounced, Committed

LEMMA MessageStepsTrack ==
  ASSUME ClaimLife > MaxFaults + 1, WorkInv, WorkInv', TrackInv, NEW k \in Jobs,
         Announce(k) \/ Cancel(k) \/ ExpireClaim(k) \/ Deliver(k), NEW j \in Jobs
  PROVE  JobSafe(j)'
<1>1. JobSafe(j) /\ JobSafe(k)
  BY DEF TrackInv
<1>2. /\ IsABag(queue) /\ BagToSet(queue) \subseteq Messages
      /\ \A u : u \in Vms => (Running(u) <=> vm[u].state = "running")
  BY WorldFacts DEF Running
<1>3. CASE Announce(k)
  <2>1. UNCHANGED <<claim, vm, row, launch, dlq, exhausted, sweepVars, faults, lost>>
        /\ item' = item /\ snap' = snap
    BY <1>3 DEF Announce, sweepVars
  <2>2. /\ k = j => github'[j] = "queued" /\ github[j] = "none"
        /\ k # j => github'[j] = github[j]
    BY <1>3, WorldFacts DEF Announce
  <2>3. BagToSet(queue') = BagToSet(queue) \cup {Message(k, 0)}
    BY <1>2, <1>3, BagFacts DEF Announce
  <2>4. Message(k, 0) \in Messages /\ Message(k, 0).job = k
    BY MessageFacts, ConstantTypes
  <2>5. github'[j] = "none" => github[j] = "none" /\ Unannounced(j)'
    <3>1. SUFFICES ASSUME github'[j] = "none" PROVE github[j] = "none" /\ Unannounced(j)'
      OBVIOUS
    <3>2. github[j] = "none" /\ k # j /\ Unannounced(j)
      BY <1>1, <2>2, <3>1 DEF JobSafe
    <3> QED
      BY <2>1, <2>3, <2>4, <3>2 DEF Unannounced, Committed
  <2>6. Live(j)' /\ github'[j] = "queued" => SafelyTracked(j)'
    <3>1. CASE k = j
      BY <2>3, <2>4, <3>1 DEF SafelyTracked
    <3>2. ASSUME k # j, Live(j)', github'[j] = "queued" PROVE SafelyTracked(j)'
      <4>1. SafelyTracked(j)
        BY <1>1, <2>1, <2>2, <3>2 DEF JobSafe, Live
      <4> QED
        BY <2>1, <2>3, <4>1, QueueGrowsTracks
    <3> QED
      BY <3>1, <3>2
  <2>7. faults <= faults'
    BY <2>1, JobFacts
  <2>8. \A u \in Vms : Running(u)' => Running(u)
    BY <2>1 DEF Running
  <2> QED
    BY <1>1, <2>1, <2>2, <2>5, <2>6, <2>7, <2>8, WorldKeepsJob
<1>4. CASE Cancel(k)
  <2>1. UNCHANGED <<queue, claim, vm, row, launch, dlq, exhausted, sweepVars, faults, lost>>
        /\ item' = item /\ snap' = snap
    BY <1>4 DEF Cancel, sweepVars
  <2>2. /\ k = j => github'[j] = "cancelled"
        /\ k # j => github'[j] = github[j]
    BY <1>4, WorldFacts DEF Cancel
  <2>5. github'[j] = "none" => github[j] = "none" /\ Unannounced(j)'
    BY <1>1, <2>1, <2>2 DEF JobSafe, Unannounced, Committed
  <2>6. Live(j)' /\ github'[j] = "queued" => SafelyTracked(j)'
    <3>1. ASSUME Live(j)', github'[j] = "queued" PROVE SafelyTracked(j)
      BY <1>1, <2>1, <2>2, <3>1 DEF JobSafe, Live
    <3> QED
      BY <2>1, <3>1, QueueGrowsTracks
  <2>7. faults <= faults'
    BY <2>1, JobFacts
  <2>8. \A u \in Vms : Running(u)' => Running(u)
    BY <2>1 DEF Running
  <2> QED
    BY <1>1, <2>1, <2>2, <2>5, <2>6, <2>7, <2>8, WorldKeepsJob
<1>5. CASE ExpireClaim(k)
  <2>1. UNCHANGED <<github, queue, vm, row, launch, dlq, exhausted, sweepVars, faults, lost>>
        /\ item' = item /\ snap' = snap
    BY <1>5 DEF ExpireClaim, sweepVars
  <2>2. /\ k = j => claim'[j] = FreeClaim
        /\ k # j => claim'[j] = claim[j]
    BY <1>5, WorldFacts DEF ExpireClaim
  <2>3. Live(j) => k # j
    <3>1. SUFFICES ASSUME Live(j), k = j PROVE FALSE
      OBVIOUS
    <3>2. Committed(claim[j]) /\ claim[j].age = ClaimLife
      BY <1>5, <3>1 DEF ExpireClaim
    <3>3. claim[j].age <= faults + 1
      BY <1>1, <3>1, <3>2, JobFacts DEF JobSafe, AgeBound
    <3> QED
      BY <3>2, <3>3, JobFacts, ConstantTypes
  <2>4. Live(j)' <=> Live(j)
    BY <2>1 DEF Live
  <2>5. github'[j] = "none" => github[j] = "none" /\ Unannounced(j)'
    BY <1>1, <2>1, <2>2, FreshClaims DEF JobSafe, Unannounced, Committed
  <2>6. Live(j)' /\ github'[j] = "queued" => SafelyTracked(j)'
    <3>1. ASSUME Live(j), github[j] = "queued" PROVE SafelyTracked(j) /\ claim'[j] = claim[j]
      BY <1>1, <2>2, <2>3, <3>1 DEF JobSafe
    <3>2. ASSUME Live(j), github[j] = "queued" PROVE SafelyTracked(j)'
      BY <2>1, <3>1, <3>2, QueueGrowsTracks DEF Committed
    <3> QED
      BY <2>1, <2>4, <3>2
  <2>7. faults <= faults'
    BY <2>1, JobFacts
  <2>8. \A u \in Vms : Running(u)' => Running(u)
    BY <2>1 DEF Running
  <2>9. FreeClaim.age = 0 /\ ~Committed(FreeClaim)
    BY RecordFacts
  <2> QED
    BY <1>1, <2>1, <2>2, <2>3, <2>4, <2>5, <2>6, <2>7, <2>8, <2>9, WorldKeepsJob DEF Committed
<1>6. CASE DropMessage(k)
  <2>1. UNCHANGED <<github, claim, vm, row, launch, dlq, exhausted, sweepVars, faults, lost>>
        /\ item' = item /\ snap' = snap
    BY <1>6 DEF DropMessage, sweepVars
  <2>2. PICK m \in BagToSet(queue) : m.job = k /\ queue' = queue (-) One(m)
    BY <1>6 DEF DropMessage
  <2>3. BagToSet(queue') \subseteq BagToSet(queue) /\ BagToSet(queue) \ {m} \subseteq BagToSet(queue')
    BY <1>2, <2>2, BagFacts
  <2>5. github'[j] = "none" => github[j] = "none" /\ Unannounced(j)'
    BY <1>1, <2>1, <2>3 DEF JobSafe, Unannounced, Committed
  <2>6. Live(j)' /\ github'[j] = "queued" => SafelyTracked(j)'
    <3>1. ASSUME Live(j)', github'[j] = "queued" PROVE SafelyTracked(j)
      BY <1>1, <2>1, <3>1 DEF JobSafe, Live
    <3>2. CASE k # j
      BY <2>1, <2>2, <2>3, <3>1, <3>2, QueueGrowsTracks
    <3>3. CASE k = j
      <4>1. github[j] = "queued" => Committed(claim'[j])
        BY <1>6, <2>1, <3>3 DEF DropMessage, Committed
      <4> QED
        BY <2>1, <4>1 DEF SafelyTracked, Committed
    <3> QED
      BY <3>2, <3>3
  <2>7. faults <= faults'
    BY <2>1, JobFacts
  <2>8. \A u \in Vms : Running(u)' => Running(u)
    BY <2>1 DEF Running
  <2> QED
    BY <1>1, <2>1, <2>5, <2>6, <2>7, <2>8, WorldKeepsJob
<1>7. CASE Contend(k)
  <2>1. UNCHANGED <<github, claim, vm, row, launch, exhausted, sweepVars, lost>>
        /\ item' = item /\ snap' = snap
    BY <1>7 DEF Contend, sweepVars
  <2>2. PICK m \in BagToSet(queue) : m.job = k /\ Redrive(m, queue (-) One(m))
    BY <1>7 DEF Contend
  <2>3. m \in Messages /\ IsABag(queue (-) One(m))
        /\ BagToSet(queue (-) One(m)) \subseteq BagToSet(queue)
        /\ BagToSet(queue) \ {m} \subseteq BagToSet(queue (-) One(m))
    BY <1>2, <2>2, BagFacts
  <2>4. /\ \A e \in Messages : e \in BagToSet(queue) \/ Staying(e)
                                 => e \in BagToSet(queue') \/ Staying(e)'
        /\ BagToSet(queue') \cup BagToSet(dlq') \subseteq BagToSet(queue) \cup BagToSet(dlq)
    BY <2>1, <2>2, <2>3, RedriveTracks
  <2>5. github'[j] = "none" => github[j] = "none" /\ Unannounced(j)'
    BY <1>1, <2>1, <2>4 DEF JobSafe, Unannounced, Committed
  <2>6. Live(j)' /\ github'[j] = "queued" => SafelyTracked(j)'
    <3>1. ASSUME Live(j)', github'[j] = "queued" PROVE SafelyTracked(j)
      BY <1>1, <2>1, <3>1 DEF JobSafe, Live
    <3> QED
      BY <2>1, <2>4, <3>1 DEF SafelyTracked, Committed, Resending
  <2>7. faults <= faults'
    BY <1>7, FaultTyped DEF Contend, StillWanted
  <2>8. \A u \in Vms : Running(u)' => Running(u)
    BY <2>1 DEF Running
  <2> QED
    BY <1>1, <2>1, <2>5, <2>6, <2>7, <2>8, WorldKeepsJob
<1>8. CASE Acquire(k)
  <2>1. UNCHANGED <<github, dlq, exhausted, sweepVars, lost>> /\ item' = item /\ snap' = snap
    BY <1>8 DEF Acquire, sweepVars
  <2>2. ~Committed(claim[k])
    BY <1>8 DEF Acquire
  <2>3. PICK m \in BagToSet(queue), v \in Vms :
          /\ m.job = k /\ Unused(v, k)
          /\ queue' = queue (-) One(m)
          /\ claim' = [claim EXCEPT ![k] =
               [state |-> "pending", vm |-> v, relaunch |-> m.relaunch, age |-> 0]]
          /\ vm' = [vm EXCEPT ![v] = NewVm]
          /\ launch' = [launch EXCEPT ![v] = m]
    BY <1>8 DEF Acquire
  <2>4. BagToSet(queue') \subseteq BagToSet(queue) /\ BagToSet(queue) \ {m} \subseteq BagToSet(queue')
    BY <1>2, <2>3, BagFacts
  <2>5. /\ k = j => ~Committed(claim'[j]) /\ claim'[j].age = 0
        /\ k # j => claim'[j] = claim[j] /\ claim[j].vm # v
    BY <2>3, WorldFacts DEF Unused, Committed
  <2>6. launch'[v] = m /\ \A u \in Vms : u # v => launch'[u] = launch[u]
    BY <2>3, WorldFacts
  <2>7. launch[v].job = 0 /\ snap.claim[j].vm # v /\ j # 0
    BY <2>3, JobFacts, MessageFacts DEF Unused, Launching
  <2>8. github'[j] = "none" => github[j] = "none" /\ Unannounced(j)'
    <3>1. SUFFICES ASSUME github'[j] = "none" PROVE github[j] = "none" /\ Unannounced(j)'
      OBVIOUS
    <3>2. github[j] = "none" /\ Unannounced(j)
      BY <1>1, <2>1, <3>1 DEF JobSafe
    <3>3. k # j
      BY <2>3, <3>2 DEF Unannounced
    <3>4. \A u \in Vms : launch'[u].job # j
      BY <2>3, <2>6, <3>2, <3>3 DEF Unannounced
    <3>5. ~Committed(claim'[j])
      BY <2>5, <3>2, <3>3 DEF Unannounced
    <3> QED
      BY <2>1, <2>4, <3>2, <3>4, <3>5, UnannouncedStays
  <2>9. Live(j)' /\ github'[j] = "queued" => SafelyTracked(j)'
    <3>1. ASSUME Live(j)', github'[j] = "queued" PROVE SafelyTracked(j)
      BY <1>1, <2>1, <3>1 DEF JobSafe, Live
    <3>2. CASE k = j
      BY <2>3, <2>6, <3>2 DEF SafelyTracked
    <3>3. CASE k # j
      <4>1. \A e \in BagToSet(queue) : e.job = j => e \in BagToSet(queue')
        BY <2>3, <2>4, <3>3
      <4>2. \A u \in Vms : launch[u].job = j => launch'[u].job = j
        BY <2>6, <2>7
      <4>3. Committed(claim[j]) => Committed(claim'[j])
        BY <2>5, <3>3
      <4> QED
        BY <2>1, <3>1, <4>1, <4>2, <4>3, QueueGrowsTracks
    <3> QED
      BY <3>2, <3>3
  <2>10. faults <= faults'
    BY <1>8, FaultTyped DEF Acquire, StillWanted
  <2>11. \A u \in Vms : Running(u)' =>
            \/ Running(u)
            \/ u # snap.claim[j].vm /\ (u # claim'[j].vm \/ claim'[j].age = 0)
    <3>1. \A u \in Vms : u # v => vm'[u] = vm[u]
      BY <2>3, WorldFacts
    <3> QED
      BY <2>5, <2>7, <3>1 DEF Running
  <2>12. Live(j)' /\ j \in todo.claims => claim'[j] = claim[j]
    <3>1. Live(j)' => Live(j)
      BY <2>1 DEF Live
    <3> QED
      BY <1>1, <2>2, <2>5, <3>1, AwaitedClaims
  <2> QED
    BY <1>1, <2>1, <2>5, <2>8, <2>9, <2>10, <2>11, <2>12, WorldKeepsJob
<1> QED
  BY <1>3, <1>4, <1>5, <1>6, <1>7, <1>8 DEF Deliver

LEMMA LaunchStepsTrack ==
  ASSUME WorkInv, WorkInv', TrackInv, NEW w \in Vms,
         Commit(w) \/ FailLaunch(w) \/ Register(w) \/ TakeJob(w) \/ FinishJob(w) \/ VmEnds(w),
         NEW j \in Jobs
  PROVE  JobSafe(j)'
<1>1. JobSafe(j)
  BY DEF TrackInv
<1>2. vm \in [Vms -> VmStates] /\ IsABag(queue) /\ BagToSet(queue) \subseteq Messages
  BY WorldFacts
<1>3. CASE Commit(w)
  <2> DEFINE k == launch[w].job
  <2>1. UNCHANGED <<github, queue, vm, dlq, exhausted, sweepVars, faults, lost>>
        /\ item' = item /\ snap' = snap
    BY <1>3 DEF Commit, sweepVars
  <2>2. k \in Jobs /\ launch[w] \in Messages
    BY <1>3, LaunchJobs DEF Commit
  <2>3. /\ claim[k].state = "pending" /\ claim[k].vm = w
        /\ claim' = [claim EXCEPT ![k].state = "committed"]
        /\ launch' = [launch EXCEPT ![w] = NoMessage]
    BY <1>3 DEF Commit, CommitWrites, Holds
  <2>4. github[j] = "none" => k # j
    BY <1>1 DEF JobSafe, Unannounced
  <2>5. /\ k = j => Committed(claim'[j]) /\ claim'[j].vm = w /\ claim'[j].age = claim[j].age
        /\ k # j => claim'[j] = claim[j]
    BY <2>2, <2>3, JobFacts, WorldFacts DEF Committed, Claims
  <2>6. k = j => claim[j].age = 0 /\ ~Committed(claim[j])
    <3>1. k = j => ~Committed(claim[j])
      BY <2>3 DEF Committed
    <3> QED
      BY <1>1, <3>1, JobFacts DEF JobSafe, Settled
  <2>7. launch'[w] = NoMessage /\ \A u \in Vms : u # w => launch'[u] = launch[u]
    BY <2>3, WorldFacts
  <2>8. github'[j] = "none" => github[j] = "none" /\ Unannounced(j)'
    <3>1. SUFFICES ASSUME github'[j] = "none" PROVE github[j] = "none" /\ Unannounced(j)'
      OBVIOUS
    <3>2. github[j] = "none" /\ Unannounced(j) /\ k # j
      BY <1>1, <2>1, <2>4, <3>1 DEF JobSafe
    <3>3. \A u \in Vms : launch'[u].job # j
      BY <2>7, <3>2, MessageFacts, ConstantTypes DEF Unannounced
    <3>4. ~Committed(claim'[j])
      BY <2>5, <3>2 DEF Unannounced
    <3> QED
      BY <2>1, <3>2, <3>3, <3>4, UnannouncedStays
  <2>9. Live(j)' /\ github'[j] = "queued" => SafelyTracked(j)'
    <3>1. ASSUME Live(j)', github'[j] = "queued" PROVE SafelyTracked(j)
      BY <1>1, <2>1, <3>1 DEF JobSafe, Live
    <3>2. CASE k = j
      BY <2>5, <3>2 DEF SafelyTracked, Committed
    <3>3. CASE k # j
      BY <2>1, <2>5, <2>7, <3>1, <3>3, QueueGrowsTracks
    <3> QED
      BY <3>2, <3>3
  <2>10. faults <= faults'
    BY <2>1, JobFacts
  <2>11. \A u \in Vms : Running(u)' => Running(u)
    BY <2>1 DEF Running
  <2>12. Live(j)' /\ j \in todo.claims => claim'[j] = claim[j]
    <3>1. Live(j)' => Live(j)
      BY <2>1 DEF Live
    <3> QED
      BY <1>1, <2>5, <2>6, <3>1, AwaitedClaims
  <2> HIDE DEF k
  <2> QED
    BY <1>1, <2>1, <2>5, <2>6, <2>8, <2>9, <2>10, <2>11, <2>12, WorldKeepsJob
<1>4. CASE FailLaunch(w)
  <2> DEFINE k == launch[w].job
  <2>1. UNCHANGED <<github, exhausted, sweepVars, lost>> /\ item' = item /\ snap' = snap
        /\ (Fault \/ TwoFaults \/ NoFault) /\ Redrive(launch[w], queue)
    BY <1>4 DEF FailLaunch, sweepVars
  <2>2. k \in Jobs /\ launch[w] \in Messages
    BY <1>4, LaunchJobs DEF FailLaunch
  <2>3. /\ vm' = vm \/ vm' = [vm EXCEPT ![w] = Ended]
        /\ launch' = [launch EXCEPT ![w] = NoMessage]
        /\ \/ claim' = claim
           \/ /\ claim[k].state = "pending" /\ claim[k].vm = w
              /\ \/ claim' = [claim EXCEPT ![k] = FreeClaim]
                 \/ claim' = [claim EXCEPT ![k].state = "committed"]
    <3>1. launch' = [launch EXCEPT ![w] = NoMessage]
      BY <1>4 DEF FailLaunch
    <3>2. vm' = vm \/ vm' = [vm EXCEPT ![w] = Ended]
      BY <1>4 DEF FailLaunch
    <3>3. claim' = claim \/ (Holds(w) /\ (claim' = [claim EXCEPT ![k] = FreeClaim] \/ CommitWrites(w)))
      BY <1>4 DEF FailLaunch
    <3> QED
      BY <3>1, <3>2, <3>3 DEF Holds, CommitWrites
  <2>4. /\ k # j => claim'[j] = claim[j]
        /\ \/ claim'[j] = claim[j]
           \/ /\ ~Committed(claim[j]) /\ claim'[j].age = 0
              /\ Committed(claim'[j]) => claim'[j].vm \in Vms
    <3>1. claim[j].state = "pending" => claim[j].age = 0
      BY <1>1, JobFacts DEF JobSafe, Settled, Committed
    <3>2. CASE claim' = claim
      BY <3>2
    <3>3. CASE claim[k].state = "pending" /\ claim' = [claim EXCEPT ![k] = FreeClaim]
      BY <2>2, <3>3, WorldFacts, FreshClaims, RecordFacts DEF Committed
    <3>4. CASE claim[k].state = "pending" /\ claim[k].vm = w /\ claim' = [claim EXCEPT ![k].state = "committed"]
      BY <2>2, <3>1, <3>4, WorldFacts DEF Committed, Claims
    <3> QED
      BY <2>3, <3>2, <3>3, <3>4
  <2>5. launch'[w] = NoMessage /\ \A u \in Vms : u # w => launch'[u] = launch[u]
    BY <2>3, WorldFacts
  <2>6. /\ \A e \in Messages : e = launch[w] \/ e \in BagToSet(queue) \/ Staying(e)
                                 => e \in BagToSet(queue') \/ Staying(e)'
        /\ BagToSet(queue') \cup BagToSet(dlq') \subseteq BagToSet(queue) \cup BagToSet(dlq) \cup {launch[w]}
    BY <1>2, <2>1, <2>2, RedriveTracks
  <2>7. github'[j] = "none" => github[j] = "none" /\ Unannounced(j)'
    <3>1. SUFFICES ASSUME github'[j] = "none" PROVE github[j] = "none" /\ Unannounced(j)'
      OBVIOUS
    <3>2. github[j] = "none" /\ Unannounced(j) /\ k # j
      BY <1>1, <2>1, <3>1 DEF JobSafe, Unannounced
    <3>3. \A u \in Vms : launch'[u].job # j
      BY <2>5, <3>2, MessageFacts, ConstantTypes DEF Unannounced
    <3>4. ~Committed(claim'[j])
      BY <2>4, <3>2 DEF Unannounced
    <3> QED
      BY <2>1, <2>6, <3>2, <3>3, <3>4, UnannouncedStays
  <2>8. Live(j)' /\ github'[j] = "queued" => SafelyTracked(j)'
    <3>1. SUFFICES ASSUME Live(j)', github'[j] = "queued" PROVE SafelyTracked(j)'
      OBVIOUS
    <3>2. SafelyTracked(j)
      BY <1>1, <2>1, <3>1 DEF JobSafe, Live
    <3>3. CASE k = j
      BY <2>2, <2>6, <3>3 DEF SafelyTracked
    <3>4. CASE k # j
      <4>1. Committed(claim[j]) => Committed(claim'[j])
        BY <2>4
      <4>2. \A u \in Vms : launch[u].job = j => launch'[u].job = j
        BY <2>5, <3>4
      <4>3. item.job = j /\ Resending => item'.job = j /\ Resending'
        BY <2>1 DEF Resending
      <4> QED
        BY <2>6, <3>2, <4>1, <4>2, <4>3 DEF SafelyTracked
    <3> QED
      BY <3>3, <3>4
  <2>9. faults <= faults'
    BY <2>1, FaultTyped
  <2>10. \A u \in Vms : Running(u)' => Running(u)
    BY <1>2, <2>3, RecordFacts DEF Running
  <2>11. Live(j)' /\ j \in todo.claims => claim'[j] = claim[j]
    <3>1. Live(j)' => Live(j)
      BY <2>1 DEF Live
    <3> QED
      BY <1>1, <2>4, <3>1, AwaitedClaims
  <2> HIDE DEF k
  <2> QED
    BY <1>1, <2>1, <2>4, <2>7, <2>8, <2>9, <2>10, <2>11, WorldKeepsJob
<1>5. CASE Register(w) \/ TakeJob(w) \/ FinishJob(w) \/ VmEnds(w)
  <2>1. UNCHANGED <<queue, claim, row, launch, dlq, exhausted, sweepVars, faults, lost>>
        /\ item' = item /\ snap' = snap
    BY <1>5 DEF Register, TakeJob, FinishJob, VmEnds, sweepVars
  <2>2. \A u \in Vms : Running(u)' => Running(u)
    <3>1. CASE Register(w)
      BY <1>2, <3>1 DEF Register, Running, VmStates
    <3>2. CASE TakeJob(w)
      <4>1. PICK i \in Jobs : vm' = [vm EXCEPT ![w].runner = "busy", ![w].job = i]
        BY <3>2 DEF TakeJob
      <4> DEFINE f == [vm EXCEPT ![w].runner = "busy"]
      <4>2. f \in [Vms -> VmStates] /\ \A u \in Vms : f[u].state = vm[u].state
        BY <1>2 DEF VmStates
      <4>3. vm' = [f EXCEPT ![w].job = i]
        BY <4>1
      <4> HIDE DEF f
      <4>4. \A u \in Vms : vm'[u].state = f[u].state
        BY <4>2, <4>3 DEF VmStates
      <4> QED
        BY <4>2, <4>4 DEF Running
    <3>3. CASE FinishJob(w) \/ VmEnds(w)
      <4>1. vm' = [vm EXCEPT ![w] = Ended]
        BY <3>3 DEF FinishJob, VmEnds
      <4> QED
        BY <1>2, <4>1, RecordFacts DEF Running
    <3> QED
      BY <1>5, <3>1, <3>2, <3>3
  <2>3. github'[j] \in {"none", "queued"} => github'[j] = github[j]
    BY <1>5, WorldFacts DEF Register, TakeJob, FinishJob, VmEnds
  <2>4. github'[j] = "none" => github[j] = "none" /\ Unannounced(j)'
    BY <1>1, <2>1, <2>3 DEF JobSafe, Unannounced, Committed
  <2>5. Live(j)' /\ github'[j] = "queued" => SafelyTracked(j)'
    <3>1. ASSUME Live(j)', github'[j] = "queued" PROVE SafelyTracked(j)
      BY <1>1, <2>1, <2>3, <3>1 DEF JobSafe, Live
    <3> QED
      BY <2>1, <3>1, QueueGrowsTracks
  <2>6. faults <= faults'
    BY <2>1, JobFacts
  <2> QED
    BY <1>1, <2>1, <2>2, <2>3, <2>4, <2>5, <2>6, WorldKeepsJob
<1> QED
  BY <1>3, <1>4, <1>5

-----------------------------------------------------------------------------
(* The sweep's steps.                                                      *)

\* What a step of the sweep must establish for a job: neither GitHub nor a launch moves.
LEMMA SweepKeepsJob ==
  ASSUME WorkInv, NEW j \in Jobs, JobSafe(j), UNCHANGED <<github, launch>>,
         exhausted \subseteq exhausted', lost \subseteq lost',
         \A v \in Vms : Running(v)' => Running(v),
         claim'[j] \in {claim[j], snap.claim[j], FreeClaim},
         snap'.claim[j] \in {claim[j], snap.claim[j], FreeClaim},
         \A m \in BagToSet(queue') \cup BagToSet(dlq') : m.job = j =>
            m \in BagToSet(queue) \cup BagToSet(dlq) \/ Committed(snap.claim[j]),
         Live(j) /\ Live(j)' => AgeBound(j)',
         Live(j) /\ Live(j)' /\ github[j] = "queued" /\ SafelyTracked(j) => SafelyTracked(j)'
  PROVE  JobSafe(j)'
<1>1. Live(j)' => Live(j)
  BY DEF Live
<1>2. github'[j] = "none" => Unannounced(j)'
  <2>1. SUFFICES ASSUME github[j] = "none" PROVE Unannounced(j)'
    OBVIOUS
  <2>2. Unannounced(j)
    BY <2>1 DEF JobSafe
  <2>3. ~Committed(claim'[j]) /\ ~Committed(snap'.claim[j])
    BY <2>2, FreshClaims DEF Unannounced
  <2>4. \A m \in BagToSet(queue') \cup BagToSet(dlq') : m.job # j
    BY <2>2 DEF Unannounced
  <2> QED
    BY <2>2, <2>3, <2>4 DEF Unannounced, Committed
<1>3. ASSUME NEW c \in {claim[j], snap.claim[j], FreeClaim}
      PROVE  (Committed(c) => c.vm \in Vms) /\ (c.age > 0 => Committed(c) /\ ~Running(c.vm)')
  BY <1>3, FreshClaims DEF JobSafe, Settled
<1>4. Settled(claim[j])' /\ Settled(snap.claim[j])'
  BY <1>3 DEF Settled, Committed
<1>5. AgeBound(j)'
  BY <1>1 DEF AgeBound
<1>6. Live(j)' /\ github'[j] = "queued" => SafelyTracked(j)'
  BY <1>1 DEF JobSafe
<1> QED
  BY <1>2, <1>4, <1>5, <1>6 DEF JobSafe

\* The job is awaited no longer only once its claim is young, gone, or a fault was spent on it.
LEMMA AgeKept ==
  ASSUME WorkInv, WorkInv', NEW j \in Jobs, JobSafe(j), Live(j), UNCHANGED snap, claim'[j] = claim[j],
         faults <= faults',
         Awaiting(j) /\ Committed(claim[j]) => Awaiting(j)' \/ claim[j].age = 0 \/ faults' = faults + 1,
         item'.step = "restore" /\ item'.job = j => snap.claim[j].age <= faults',
         j \in todo'.claims => j \in todo.claims /\ item'.job # j
  PROVE  AgeBound(j)'
<1>1. claim[j].age \in Nat /\ snap.claim[j].age \in Nat /\ faults \in Nat /\ faults' \in Nat
  BY JobFacts, JobFactsAfter
<1>2. /\ Committed(claim[j]) => claim[j].age <= faults + (IF Awaiting(j) THEN 1 ELSE 0)
      /\ Committed(snap.claim[j]) => snap.claim[j].age <= faults + 1
      /\ j \in todo.claims => claim[j] = snap.claim[j]
  BY DEF JobSafe, AgeBound
<1>3. Committed(claim[j]) => claim[j].age <= faults' + (IF Awaiting(j)' THEN 1 ELSE 0)
  <2>1. SUFFICES ASSUME Committed(claim[j])
                 PROVE  claim[j].age <= faults' + (IF Awaiting(j)' THEN 1 ELSE 0)
    OBVIOUS
  <2>2. CASE ~Awaiting(j)
    BY <1>1, <1>2, <2>1, <2>2
  <2>3. CASE Awaiting(j)
    <3>1. claim[j].age <= faults + 1
      BY <1>2, <2>1, <2>3
    <3>2. CASE Awaiting(j)'
      BY <1>1, <3>1, <3>2
    <3>3. CASE claim[j].age = 0 \/ faults' = faults + 1
      BY <1>1, <3>1, <3>3
    <3> QED
      BY <2>1, <2>3, <3>2, <3>3
  <2> QED
    BY <2>2, <2>3
<1>4. Committed(snap.claim[j]) => snap.claim[j].age <= faults' + 1
  BY <1>1, <1>2
<1> QED
  BY <1>2, <1>3, <1>4 DEF AgeBound, Committed

\* A letter in hand is on the dead-letter queue.
LEMMA LetterHeld ==
  ASSUME WorkInv, item.rule = "letter"
  PROVE  /\ item.letter \in Messages /\ item.job = item.letter.job
         /\ Copies(item.letter, dlq) \in Nat /\ Copies(item.letter, dlq) >= 1
         /\ item.letter \in BagToSet(dlq)
<1>1. item.letter \in Messages /\ item.job = item.letter.job
  BY DEF WorkInv, ItemWork
<1>2. Copies(item.letter, todo.letters) \in Nat /\ Copies(item.letter, dlq) \in Nat
  BY WorldFacts, SweepFacts, CopiesFacts
<1>3. InHand(item.letter) = 1
  BY DEF InHand
<1>4. Copies(item.letter, todo.letters) + 1 <= Copies(item.letter, dlq)
  BY <1>1, <1>3 DEF WorkInv, BagsHeld
<1> QED
  BY <1>1, <1>2, <1>4, WorldFacts, CopiesFacts

\* A step that moves no message, claim or relaunch leaves a job as tracked as it was.
LEMMA TrackedStays ==
  ASSUME WorkInv, NEW j \in Jobs, UNCHANGED <<queue, dlq, launch>>, SafelyTracked(j),
         Committed(claim[j]) => Committed(claim'[j]),
         item.job = j /\ Resending => (item'.job = j /\ Resending') \/ Committed(claim'[j]),
         \A e \in Messages : e.job = j => Discarding(e)' = 0 \/ Discarding(e)' = Discarding(e)
  PROVE  SafelyTracked(j)'
<1>1. \A e : Discarding(e) \in {0, 1} /\ Copies(e, dlq) \in Nat
  BY WorldFacts, CopiesFacts DEF Discarding
<1>2. \A e \in Messages : e.job = j /\ Staying(e) => Staying(e)'
  <2>1. SUFFICES ASSUME NEW e \in Messages, e.job = j, Copies(e, dlq) > Discarding(e)
                 PROVE  Copies(e, dlq) > Discarding(e)'
    BY DEF Staying, Copies
  <2>2. CASE Discarding(e)' = Discarding(e)
    BY <2>1, <2>2
  <2>3. CASE Discarding(e)' = 0
    BY <1>1, <2>1, <2>3
  <2> QED
    BY <2>1, <2>2, <2>3
<1> QED
  BY <1>2 DEF SafelyTracked, Resending

LEMMA PhasesTrack ==
  ASSUME WorkInv, WorkInv', TrackInv, BacklogFits,
         ListVms \/ ScanTable \/ TableDone \/ EndSweep \/ KillSweep, NEW j \in Jobs
  PROVE  JobSafe(j)'
<1>1. JobSafe(j) /\ SweepWork /\ ItemWork
  BY DEF TrackInv, WorkInv
<1>2. /\ claim[j].age \in Nat /\ snap.claim[j].age \in Nat /\ faults \in Nat /\ faults' \in Nat
      /\ claim'[j].age \in Nat /\ j # 0
  BY JobFacts, JobFactsAfter
<1>3. CASE ListVms
  <2>1. /\ UNCHANGED <<github, queue, vm, launch, dlq, exhausted, todo, item, faults, lost>>
        /\ sweep = "off" /\ sweep' = "scan" /\ snap'.claim = snap.claim
        /\ todo = NoTodo /\ item = NoItem
    BY <1>1, <1>3 DEF ListVms, SweepWork
  <2>2. \/ claim'[j] = claim[j]
        \/ /\ Committed(claim[j]) /\ ~Running(claim[j].vm) /\ claim'[j].age = claim[j].age + 1
           /\ claim'[j].state = claim[j].state /\ claim'[j].vm = claim[j].vm
    BY <1>3, JobFacts DEF ListVms, Claims
  <2>3. Live(j)' <=> Live(j)
    BY <2>1 DEF Live
  <2>4. github'[j] = "none" => Unannounced(j)'
    BY <1>1, <2>1, <2>2 DEF JobSafe, Unannounced, Committed
  <2>5. AgeBound(j)'
    <3>1. SUFFICES ASSUME Live(j) PROVE AgeBound(j)'
      BY <2>3 DEF AgeBound
    <3>2. ~Awaiting(j) /\ Awaiting(j)'
      BY <2>1, NoTodoFields, NoItemFields DEF Awaiting
    <3>3. Committed(claim[j]) => claim[j].age <= faults
      <4>1. Committed(claim[j]) => claim[j].age <= faults + 0
        BY <1>1, <3>1, <3>2 DEF JobSafe, AgeBound
      <4> QED
        BY <1>2, <4>1
    <3>4. Committed(claim'[j]) => claim'[j].age <= faults' + 1
      BY <1>2, <2>1, <2>2, <3>3 DEF Committed
    <3>5. Committed(claim'[j]) => claim'[j].age <= faults' + (IF Awaiting(j)' THEN 1 ELSE 0)
      BY <3>2, <3>4
    <3>6. /\ Committed(snap.claim[j]) => snap.claim[j].age <= faults + 1
          /\ item.step # "restore" /\ j \notin todo.claims
      BY <1>1, <2>1, <3>1, NoTodoFields, NoItemFields DEF JobSafe, AgeBound
    <3> QED
      BY <2>1, <3>5, <3>6 DEF AgeBound, Committed
  <2>6. Settled(claim[j])' /\ Settled(snap.claim[j])'
    <3>1. \A v : Running(v)' <=> Running(v)
      BY <2>1 DEF Running
    <3>2. Settled(snap.claim[j])'
      BY <1>1, <2>1, <3>1 DEF JobSafe, Settled, Committed
    <3>3. Settled(claim[j])'
      BY <1>1, <2>1, <2>2, <3>1 DEF JobSafe, Settled, Committed
    <3> QED
      BY <3>2, <3>3
  <2>7. Live(j)' /\ github'[j] = "queued" => SafelyTracked(j)'
    <3>1. SUFFICES ASSUME Live(j), github[j] = "queued" PROVE SafelyTracked(j)'
      BY <2>1, <2>3
    <3>2. SafelyTracked(j)
      BY <1>1, <3>1 DEF JobSafe
    <3>3. Committed(claim[j]) => Committed(claim'[j])
      BY <2>2 DEF Committed
    <3> QED
      BY <2>1, <3>2, <3>3, QueueGrowsTracks
  <2> QED
    BY <2>4, <2>5, <2>6, <2>7 DEF JobSafe
<1>4. CASE ScanTable
  <2>1. /\ UNCHANGED <<github, queue, vm, claim, row, launch, dlq, exhausted, item, faults, lost>>
        /\ sweep = "scan" /\ sweep' = "table"
    BY <1>4 DEF ScanTable, worldVars
  <2>2. /\ snap'.claim = claim /\ todo'.claims = {i \in Jobs : WithinCap(i)} /\ item = NoItem
    BY <1>1, <1>4, <2>1 DEF ScanTable, SweepWork
  <2>3. Committed(claim[j]) => j \in todo'.claims
    <3>1. SUFFICES ASSUME Committed(claim[j])
                   PROVE  Cardinality({i \in Jobs : i < j /\ Committed(claim[i])}) < ClaimCap
      BY <2>2 DEF WithinCap
    <3> DEFINE All == {i \in Jobs : Committed(claim[i])}
               Before == {i \in Jobs : i < j /\ Committed(claim[i])}
    <3>2. IsFiniteSet(All)
      BY ConstantTypes, FS_Subset
    <3>3. j \in All /\ Before \subseteq All \ {j}
      BY <3>1, ConstantTypes
    <3>4. IsFiniteSet(All \ {j}) /\ Cardinality(All \ {j}) = Cardinality(All) - 1
      BY <3>2, <3>3, FS_RemoveElement
    <3>5. IsFiniteSet(Before) /\ Cardinality(Before) <= Cardinality(All \ {j})
      BY <3>3, <3>4, FS_Subset
    <3>6. Cardinality(All) \in Nat /\ Cardinality(Before) \in Nat /\ Cardinality(All) <= ClaimCap
      BY <3>2, <3>5, FS_CardinalityType DEF BacklogFits
    <3> HIDE DEF All
    <3>7. Cardinality(Before) < ClaimCap
      BY <3>4, <3>5, <3>6, ConstantTypes
    <3> QED
      BY <3>7
  <2>4. Live(j) /\ Live(j)' => AgeBound(j)'
    <3>1. SUFFICES ASSUME Live(j) PROVE AgeBound(j)'
      OBVIOUS
    <3>2. Awaiting(j)
      BY <2>1 DEF Awaiting
    <3>3. Committed(claim[j]) => claim[j].age <= faults + 1
      BY <1>1, <3>1, <3>2 DEF JobSafe, AgeBound
    <3>4. Committed(claim[j]) => Awaiting(j)'
      BY <2>3 DEF Awaiting
    <3>5. Committed(claim[j]) => claim[j].age <= faults + (IF Awaiting(j)' THEN 1 ELSE 0)
      BY <3>3, <3>4
    <3>6. item.step # "restore" /\ item.job # j
      BY <1>2, <2>2, NoItemFields
    <3> QED
      BY <2>1, <2>2, <3>3, <3>5, <3>6 DEF AgeBound, Committed
  <2>5. SafelyTracked(j) => SafelyTracked(j)'
    BY <2>1, TrackedStays DEF Committed, Resending, Discarding, At
  <2>6. \A v \in Vms : Running(v)' => Running(v)
    BY <2>1 DEF Running
  <2> QED
    BY <1>1, <2>1, <2>2, <2>4, <2>5, <2>6, SweepKeepsJob
<1>5. CASE TableDone
  <2>1. /\ UNCHANGED <<github, queue, vm, claim, row, launch, dlq, exhausted, item, faults, lost>>
        /\ sweep = "table" /\ sweep' = "letters" /\ todo.claims = {} /\ item = NoItem
        /\ snap' = NoSnap
    BY <1>5 DEF TableDone, worldVars
  <2>2. todo'.claims = {}
    BY <1>1, <1>5, <2>1 DEF TableDone, SweepWork
  <2>3. snap'.claim[j] = FreeClaim
    BY <2>1, FreshClaims
  <2>4. Live(j) /\ Live(j)' => AgeBound(j)'
    <3>1. SUFFICES ASSUME Live(j) PROVE AgeBound(j)'
      OBVIOUS
    <3>2. ~Awaiting(j) /\ ~Awaiting(j)'
      BY <2>1, <2>2, NoItemFields DEF Awaiting
    <3>3. Committed(claim[j]) => claim[j].age <= faults + (IF Awaiting(j)' THEN 1 ELSE 0)
      BY <1>1, <3>1, <3>2 DEF JobSafe, AgeBound
    <3>4. item.step # "restore"
      BY <2>1, NoItemFields
    <3> QED
      BY <2>1, <2>2, <2>3, <3>3, <3>4, FreshClaims DEF AgeBound, Committed
  <2>5. SafelyTracked(j) => SafelyTracked(j)'
    BY <2>1, TrackedStays DEF Committed, Resending, Discarding, At
  <2>6. \A v \in Vms : Running(v)' => Running(v)
    BY <2>1 DEF Running
  <2> QED
    BY <1>1, <2>1, <2>3, <2>4, <2>5, <2>6, SweepKeepsJob
<1>6. CASE EndSweep \/ KillSweep
  <2>1. /\ UNCHANGED <<github, queue, claim, vm, row, launch, dlq, exhausted>>
        /\ sweep' = "off" /\ snap' = NoSnap /\ todo' = NoTodo /\ item' = NoItem
    BY <1>6 DEF EndSweep, KillSweep, SweepOver, worldVars
  <2>2. \/ faults' = faults + 1 /\ lost' = (IF Resending THEN lost \cup {item.job} ELSE lost)
        \/ faults' = faults /\ lost' = lost /\ item = NoItem /\ sweep = "letters"
    BY <1>6 DEF EndSweep, KillSweep, Fault, NoFault
  <2>3. snap'.claim[j] = FreeClaim /\ todo'.claims = {} /\ item'.step # "restore"
    BY <2>1, FreshClaims, NoTodoFields, NoItemFields
  <2>4. Live(j) /\ Live(j)' => AgeBound(j)'
    <3>1. SUFFICES ASSUME Live(j) PROVE AgeBound(j)'
      OBVIOUS
    <3>2. Committed(claim[j]) => claim[j].age <= faults'
      <4>1. Committed(claim[j]) => claim[j].age <= faults + (IF Awaiting(j) THEN 1 ELSE 0)
        BY <1>1, <3>1 DEF JobSafe, AgeBound
      <4>2. CASE faults' = faults + 1
        BY <1>2, <4>1, <4>2
      <4>3. CASE faults' = faults /\ item = NoItem /\ sweep = "letters"
        <5>1. ~Awaiting(j)
          BY <1>1, <4>3, NoItemFields DEF SweepWork, Awaiting
        <5>2. Committed(claim[j]) => claim[j].age <= faults + 0
          BY <4>1, <5>1
        <5> QED
          BY <1>2, <4>3, <5>2
      <4> QED
        BY <2>2, <4>2, <4>3
    <3>3. ~Awaiting(j)'
      BY <2>1, <2>3, NoItemFields DEF Awaiting
    <3>4. Committed(claim[j]) => claim[j].age <= faults' + (IF Awaiting(j)' THEN 1 ELSE 0)
      BY <1>2, <3>2, <3>3
    <3> QED
      BY <2>1, <2>3, <3>4, FreshClaims DEF AgeBound, Committed
  <2>5. Live(j)' /\ SafelyTracked(j) => SafelyTracked(j)'
    <3>1. SUFFICES ASSUME Live(j)', SafelyTracked(j) PROVE SafelyTracked(j)'
      OBVIOUS
    <3>2. ~(item.job = j /\ Resending)
      BY <2>2, <3>1, NoItemFields DEF Live, Resending
    <3>3. \A e : Discarding(e)' = 0
      BY <2>1, NoItemFields DEF Discarding, At
    <3> QED
      BY <2>1, <3>1, <3>2, <3>3, TrackedStays
  <2>6. \A v \in Vms : Running(v)' => Running(v)
    BY <2>1 DEF Running
  <2>7. lost \subseteq lost'
    BY <2>2
  <2> QED
    BY <1>1, <2>1, <2>3, <2>4, <2>5, <2>6, <2>7, SweepKeepsJob
<1> QED
  BY <1>3, <1>4, <1>5, <1>6

\* An item of the table that takes a step.
LEMMA TableItemFacts ==
  ASSUME WorkInv,
         \/ ProbeClaimedJob \/ ReleaseClaim \/ DeleteClaim \/ SendRelaunch \/ RestoreClaim
         \/ Reap \/ ProbeReapedJob \/ ProbeJobFails
  PROVE  /\ UNCHANGED <<github, launch, dlq, sweep, snap, todo>> /\ item.rule \in {"claim", "row"}
         /\ item.job \in Jobs
         /\ \/ item' = NoItem
            \/ \E s \in {"probeJob", "delete", "send", "restore", "release"} :
                 Step(s) /\ item' = Item(item.rule, s, item.job, item.vm, item.letter)
         /\ \A e : Discarding(e)' = 0
<1>1. ItemWork
  BY DEF WorkInv
<1>2. /\ UNCHANGED <<github, launch, dlq, sweep, snap, todo>>
      /\ item.rule \in {"claim", "row"}
  BY <1>1, NoItemFields DEF ItemWork, ProbeClaimedJob, ReleaseClaim, DeleteClaim, SendRelaunch,
     RestoreClaim, Reap, ProbeReapedJob, ProbeJobFails, worldVars, At
<1>3. item.job \in Jobs
  BY <1>1, <1>2 DEF ItemWork
<1>4. \/ item' = NoItem
      \/ \E s \in {"probeJob", "delete", "send", "restore", "release"} : Step(s)
  BY DEF ProbeClaimedJob, ReleaseClaim, DeleteClaim, SendRelaunch, RestoreClaim, Reap,
     ProbeReapedJob, ProbeJobFails, Done
<1>5. ASSUME NEW s, Step(s) PROVE item' = Item(item.rule, s, item.job, item.vm, item.letter)
  BY <1>1, <1>5, ItemFields DEF ItemWork, Step
<1>6. item'.rule # "letter"
  BY <1>2, <1>4, <1>5, NoItemFields, ItemFields
<1>7. \A e : Discarding(e)' = 0
  BY <1>6 DEF Discarding, At
<1> QED
  BY <1>2, <1>3, <1>4, <1>5, <1>7

\* A job that is not queued and may yet be recovered has not been announced.
LEMMA NotQueuedNotCommitted ==
  ASSUME NEW j \in Jobs, JobSafe(j), Live(j), github[j] # "queued"
  PROVE  ~Committed(claim[j]) /\ ~Committed(snap.claim[j])
  BY DEF JobSafe, Live, Unannounced

\* Steps of an item that look, and steps of a row's reap: no claim and no message moves.
LEMMA LookingTracks ==
  ASSUME WorkInv, WorkInv', TrackInv,
         ProbeClaimedJob \/ ProbeJobFails \/ Reap \/ ProbeReapedJob, NEW j \in Jobs
  PROVE  JobSafe(j)'
<1>1. JobSafe(j) /\ ItemWork
  BY DEF TrackInv, WorkInv
<1>2. /\ UNCHANGED <<github, launch, dlq, sweep, snap, todo, queue, claim, lost>>
      /\ item.rule \in {"claim", "row"} /\ item.step \notin {"send", "restore"}
      /\ exhausted \subseteq exhausted'
  BY <1>1, TableItemFacts DEF ProbeClaimedJob, ProbeJobFails, Reap, ProbeReapedJob, worldVars, At
<1>3. \/ item' = NoItem
      \/ \E s \in {"probeJob", "delete", "release"} :
           item' = Item(item.rule, s, item.job, item.vm, item.letter)
  <2>1. item' = NoItem \/ \E s \in {"probeJob", "delete", "release"} : Step(s)
    BY DEF ProbeClaimedJob, ProbeJobFails, Reap, ProbeReapedJob, Done
  <2>2. ASSUME NEW s, Step(s) PROVE item' = Item(item.rule, s, item.job, item.vm, item.letter)
    BY <1>1, <2>2, ItemFields DEF ItemWork, Step
  <2> QED
    BY <2>1, <2>2
<1>4. item'.step # "restore" /\ (item'.job = item.job \/ item'.job = 0)
  BY <1>3, NoItemFields, ItemFields
<1>5. faults' \in Nat /\ faults <= faults'
  <2>1. Fault \/ NoFault
    BY DEF ProbeClaimedJob, ProbeJobFails, Reap, ProbeReapedJob
  <2> QED
    BY <2>1, FaultTyped, JobFactsAfter
<1>6. Live(j) => (Awaiting(j) /\ Committed(claim[j]) =>
                    Awaiting(j)' \/ claim[j].age = 0 \/ faults' = faults + 1)
  <2>1. SUFFICES ASSUME Live(j), Awaiting(j), Committed(claim[j])
                 PROVE  Awaiting(j)' \/ faults' = faults + 1
    OBVIOUS
  <2>2. CASE sweep = "scan" \/ j \in todo.claims
    BY <1>2, <2>2 DEF Awaiting
  <2>3. CASE item.rule = "claim" /\ item.job = j
    <3>1. github[j] = "queued"
      BY <1>1, <2>1, NotQueuedNotCommitted
    <3>2. CASE ProbeClaimedJob
      <4>1. Step("delete") \/ Step("release")
        BY <2>3, <3>1, <3>2 DEF ProbeClaimedJob
      <4>2. \E s \in {"delete", "release"} : item' = Item(item.rule, s, item.job, item.vm, item.letter)
        BY <1>1, <4>1, ItemFields DEF ItemWork, Step
      <4>3. item'.rule = "claim" /\ item'.job = j /\ item'.step \in {"delete", "release"}
        BY <2>3, <4>2, ItemFields
      <4> QED
        BY <4>3 DEF Awaiting
    <3>3. CASE ProbeJobFails
      BY <3>3 DEF ProbeJobFails, Fault
    <3>4. CASE Reap \/ ProbeReapedJob
      BY <2>3, <3>4 DEF Reap, ProbeReapedJob, At
    <3> QED
      BY <3>2, <3>3, <3>4
  <2> QED
    BY <2>1, <2>2, <2>3 DEF Awaiting
<1>7. Live(j) /\ Live(j)' => AgeBound(j)'
  <2>1. SUFFICES ASSUME Live(j) PROVE AgeBound(j)'
    OBVIOUS
  <2>2. j \in todo'.claims => j \in todo.claims /\ item'.job # j
    BY <1>1, <1>2, <1>4, <2>1, JobFacts DEF JobSafe, AgeBound
  <2> QED
    BY <1>1, <1>2, <1>4, <1>5, <1>6, <2>1, <2>2, AgeKept
<1>8. SafelyTracked(j) => SafelyTracked(j)'
  <2>1. ~Resending
    BY <1>2 DEF Resending
  <2> QED
    BY <1>2, <2>1, TableItemFacts, TrackedStays DEF Committed
<1>9. \A v \in Vms : Running(v)' => Running(v)
  <2>1. vm' = vm \/ vm' = [vm EXCEPT ![item.vm] = Ended]
    BY DEF ProbeClaimedJob, ProbeJobFails, Reap, ProbeReapedJob, worldVars, VmEnded
  <2> QED
    BY <2>1, WorldFacts, RecordFacts DEF Running
<1> QED
  BY <1>1, <1>2, <1>7, <1>8, <1>9, SweepKeepsJob

\* Giving up, and the relaunch: delete, send, restore.
LEMMA RelaunchTracks ==
  ASSUME WorkInv, WorkInv', TrackInv,
         ReleaseClaim \/ DeleteClaim \/ SendRelaunch \/ RestoreClaim, NEW j \in Jobs
  PROVE  JobSafe(j)'
<1>1. JobSafe(j) /\ ItemWork
  BY DEF TrackInv, WorkInv
<1>2. /\ UNCHANGED <<github, launch, dlq, sweep, snap, todo, vm>>
      /\ item.rule \in {"claim", "row"} /\ item.job \in Jobs
      /\ exhausted \subseteq exhausted' /\ lost \subseteq lost'
      /\ \A e : Discarding(e)' = 0
  BY TableItemFacts DEF ReleaseClaim, DeleteClaim, SendRelaunch, RestoreClaim, Stranded
<1>3. faults \in Nat /\ faults' \in Nat /\ faults <= faults'
  <2>1. Fault \/ NoFault
    BY DEF ReleaseClaim, DeleteClaim, SendRelaunch, RestoreClaim, Answered
  <2> QED
    BY <2>1, FaultTyped, JobFacts, JobFactsAfter
<1>4. \A v \in Vms : Running(v)' => Running(v)
  BY <1>2 DEF Running
<1>5. /\ item'.job = item.job \/ item'.job = 0
      /\ item'.rule = item.rule \/ item'.rule = "none"
  BY TableItemFacts, NoItemFields, ItemFields
<1>6. Live(j) /\ j \in todo.claims => item.job # j /\ item'.job # j
  BY <1>1, <1>5, JobFacts DEF JobSafe, AgeBound
<1>7. item.job # j => (Awaiting(j)' <=> Awaiting(j))
  <2>1. SUFFICES ASSUME item.job # j PROVE Awaiting(j)' <=> Awaiting(j)
    OBVIOUS
  <2>2. item'.job # j
    BY <1>5, <2>1, JobFacts
  <2> QED
    BY <1>2, <2>1, <2>2 DEF Awaiting
<1>8. item'.step = "restore" => SendRelaunch /\ Fault /\ Step("restore")
  <2>1. Done => item'.step = "none"
    BY NoItemFields DEF Done
  <2>2. ASSUME NEW s, Step(s) PROVE item'.step = s
    BY <1>1, <2>2, ItemFields DEF ItemWork, Step
  <2> QED
    BY <2>1, <2>2 DEF ReleaseClaim, DeleteClaim, SendRelaunch, RestoreClaim
\* The age of every job's claim.
<1>9. Live(j) /\ Live(j)' => AgeBound(j)'
  <2>1. SUFFICES ASSUME Live(j), Live(j)' PROVE AgeBound(j)'
    OBVIOUS
  <2>2. item'.step = "restore" /\ item'.job = j => snap.claim[j].age <= faults'
    <3>1. SUFFICES ASSUME item'.step = "restore", item'.job = j PROVE snap.claim[j].age <= faults'
      OBVIOUS
    <3>2. faults' = faults + 1 /\ item.job = j
      BY <1>5, <1>8, <3>1, JobFacts DEF Fault
    <3>3. Committed(snap.claim[j])
      BY <1>1, <1>2, <1>8, <3>1, <3>2 DEF SendRelaunch, ItemWork, Scanned
    <3> QED
      BY <1>1, <2>1, <3>2, <3>3 DEF JobSafe, AgeBound
  <2>3. CASE claim'[j] = claim[j]
    <3>1. Awaiting(j) /\ Committed(claim[j]) => Awaiting(j)' \/ faults' = faults + 1
      <4>1. SUFFICES ASSUME Awaiting(j), Committed(claim[j]), item.job = j
                     PROVE  Awaiting(j)' \/ faults' = faults + 1
        BY <1>7
      <4>2. CASE sweep = "scan" \/ j \in todo.claims
        BY <1>2, <4>2 DEF Awaiting
      <4>3. CASE item.rule = "claim" /\ item.step \in {"probeJob", "delete", "release"}
        <5>1. ReleaseClaim \/ DeleteClaim
          BY <4>3 DEF SendRelaunch, RestoreClaim
        <5>2. CASE Fault
          BY <5>2 DEF Fault
        <5>3. CASE claim' = [claim EXCEPT ![item.job] = FreeClaim]
          BY <1>2, <2>3, <4>1, <5>3, WorldFacts, FreshClaims
        <5> QED
          BY <5>1, <5>2, <5>3 DEF ReleaseClaim, DeleteClaim, ClaimDeleted
      <4> QED
        BY <4>1, <4>2, <4>3 DEF Awaiting
    <3>2. j \in todo'.claims => j \in todo.claims /\ item'.job # j
      BY <1>2, <1>6, <2>1
    <3> QED
      BY <1>1, <1>2, <1>3, <2>1, <2>2, <2>3, <3>1, <3>2, AgeKept
  <2>4. CASE claim'[j] # claim[j]
    <3>1. item.job = j /\ claim'[j] \in {FreeClaim, snap.claim[j]} /\ (claim'[j] = FreeClaim \/ RestoreClaim)
      BY <1>2, <2>4, WorldFacts DEF ReleaseClaim, DeleteClaim, SendRelaunch, RestoreClaim, Scanned,
         ClaimDeleted
    <3>2. j \notin todo'.claims
      BY <1>2, <1>6, <2>1, <3>1
    <3>3. Committed(snap.claim[j]) => snap.claim[j].age <= faults' + 1
      BY <1>1, <1>3, <2>1, JobFacts DEF JobSafe, AgeBound
    <3>4. Committed(claim'[j]) => claim'[j].age <= faults' + (IF Awaiting(j)' THEN 1 ELSE 0)
      <4>1. SUFFICES ASSUME Committed(claim'[j])
                     PROVE  claim'[j].age <= faults' + (IF Awaiting(j)' THEN 1 ELSE 0)
        OBVIOUS
      <4>2. RestoreClaim /\ claim'[j] = snap.claim[j]
        BY <3>1, <4>1, FreshClaims
      <4>3. claim'[j].age <= faults /\ claim'[j].age \in Nat
        BY <1>1, <2>1, <3>1, <4>2, JobFactsAfter DEF JobSafe, AgeBound, RestoreClaim
      <4>4. claim'[j].age <= faults' /\ claim'[j].age <= faults' + 1
        BY <1>3, <4>3
      <4> QED
        BY <1>3, <4>4
    <3> QED
      BY <1>2, <2>2, <3>2, <3>3, <3>4 DEF AgeBound, Committed
  <2> QED
    BY <2>3, <2>4
\* Where every job's message or claim is.
<1>10. Live(j)' /\ SafelyTracked(j) => SafelyTracked(j)'
  <2>1. SUFFICES ASSUME Live(j)', SafelyTracked(j) PROVE SafelyTracked(j)'
    OBVIOUS
  <2>2. CASE ReleaseClaim
    <3>1. queue' = queue /\ ~Resending /\ (item.job = j => claim'[j] = claim[j])
      BY <1>2, <2>1, <2>2 DEF ReleaseClaim, Resending, At, Live, Stranded
    <3>2. item.job # j => claim'[j] = claim[j]
      BY <2>2, WorldFacts DEF ReleaseClaim, ClaimDeleted
    <3> QED
      BY <1>2, <2>1, <3>1, <3>2, TrackedStays DEF Committed
  <2>3. CASE DeleteClaim
    <3>1. queue' = queue /\ ~Resending
      BY <2>3 DEF DeleteClaim, Resending
    <3>2. CASE item.job # j \/ claim' = claim
      <4>1. claim'[j] = claim[j]
        BY <2>3, <3>2, WorldFacts DEF DeleteClaim, ClaimDeleted
      <4> QED
        BY <1>2, <2>1, <3>1, <4>1, TrackedStays DEF Committed
    <3>3. CASE item.job = j /\ Step("send")
      <4>1. item'.rule \in {"claim", "row"} /\ item'.step = "send" /\ item'.job = j
        BY <1>1, <1>2, <3>3, ItemFields DEF ItemWork, Step
      <4> QED
        BY <4>1 DEF SafelyTracked, Resending
    <3>4. Stranded => item.job # j
      BY <2>1 DEF Stranded, Live
    <3> QED
      BY <2>3, <3>2, <3>3, <3>4 DEF DeleteClaim
  <2>4. CASE SendRelaunch
    <3> DEFINE m == Message(item.job, Relaunched(Scanned))
    <3>1. /\ claim' = claim /\ (queue' = queue \/ queue' = queue (+) One(m))
          /\ (queue' = queue (+) One(m) /\ Done) \/ Step("restore")
      BY <2>4 DEF SendRelaunch
    <3>2. m \in Messages /\ m.job = item.job
      <4>1. Scanned \in Claims /\ Scanned.relaunch < MaxRelaunches
        BY <1>1, <1>2, <2>4, SweepFacts DEF ItemWork, SendRelaunch, Scanned
      <4>2. Relaunched(Scanned) \in 0..MaxRelaunches
        BY <4>1, ConstantTypes DEF Relaunched, Claims
      <4> QED
        BY <1>2, <4>2, MessageFacts
    <3> HIDE DEF m
    <3>3. BagToSet(queue') = BagToSet(queue) \/ BagToSet(queue') = BagToSet(queue) \cup {m}
      BY <3>1, WorldFacts, BagFacts
    <3>4. queue' = queue (+) One(m) => m \in BagToSet(queue')
      BY WorldFacts, BagFacts
    <3>5. \A e : Staying(e) => Staying(e)'
      <4>1. \A e : Discarding(e) = 0
        BY <1>2 DEF Discarding, At
      <4> QED
        BY <1>2, <4>1 DEF Staying
    <3>6. CASE item.job # j
      BY <1>2, <2>1, <3>1, <3>3, <3>5, <3>6 DEF SafelyTracked, Committed
    <3>7. CASE item.job = j /\ queue' = queue (+) One(m)
      BY <3>2, <3>4, <3>7 DEF SafelyTracked
    <3>8. CASE item.job = j /\ Step("restore")
      <4>1. item'.rule \in {"claim", "row"} /\ item'.step = "restore" /\ item'.job = j
        BY <1>1, <1>2, <3>8, ItemFields DEF ItemWork, Step
      <4> QED
        BY <4>1 DEF SafelyTracked, Resending
    <3> QED
      BY <3>1, <3>6, <3>7, <3>8
  <2>5. CASE RestoreClaim
    <3>1. queue' = queue /\ claim' \in {claim, [claim EXCEPT ![item.job] = Scanned]}
      BY <2>5 DEF RestoreClaim
    <3>2. Committed(Scanned)
      BY <1>1, <1>2, <2>5 DEF RestoreClaim, ItemWork
    <3>3. item.job = j => Committed(claim'[j])
      BY <1>2, <2>1, <2>5, <3>2, WorldFacts DEF RestoreClaim, Stranded, Live
    <3>4. Committed(claim[j]) => Committed(claim'[j])
      BY <1>2, <3>1, <3>2, WorldFacts
    <3> QED
      BY <1>2, <2>1, <3>1, <3>3, <3>4, TrackedStays
  <2> QED
    BY <2>2, <2>3, <2>4, <2>5
<1>11. claim'[j] \in {claim[j], snap.claim[j], FreeClaim}
  BY <1>2, WorldFacts DEF ReleaseClaim, DeleteClaim, SendRelaunch, RestoreClaim, Scanned, ClaimDeleted
<1>12. \A m \in BagToSet(queue') \cup BagToSet(dlq') : m.job = j =>
          m \in BagToSet(queue) \cup BagToSet(dlq) \/ Committed(snap.claim[j])
  <2> DEFINE m == Message(item.job, Relaunched(Scanned))
  <2>1. queue' = queue \/ (queue' = queue (+) One(m) /\ SendRelaunch)
    BY DEF ReleaseClaim, DeleteClaim, SendRelaunch, RestoreClaim
  <2>2. SendRelaunch => Committed(snap.claim[item.job])
    BY <1>1, <1>2 DEF SendRelaunch, ItemWork, Scanned
  <2>3. m.job = item.job
    BY DEF Message
  <2> HIDE DEF m
  <2>4. BagToSet(queue') = BagToSet(queue) \/ (BagToSet(queue') = BagToSet(queue) \cup {m} /\ SendRelaunch)
    BY <2>1, WorldFacts, BagFacts
  <2> QED
    BY <1>2, <2>2, <2>3, <2>4
<1> QED
  BY <1>1, <1>2, <1>4, <1>9, <1>10, <1>11, <1>12, SweepKeepsJob

\* The next claim and the next row.
LEMMA TakeUpTracks ==
  ASSUME WorkInv, WorkInv', TrackInv, ProbeClaimVm \/ JudgeRow, NEW j \in Jobs
  PROVE  JobSafe(j)'
<1>1. JobSafe(j) /\ SweepWork
  BY DEF TrackInv, WorkInv
<1>2. /\ UNCHANGED <<github, queue, claim, launch, dlq, exhausted, sweep, snap, lost>>
      /\ sweep = "table" /\ item = NoItem /\ (Fault \/ NoFault)
  BY DEF ProbeClaimVm, JudgeRow, worldVars, Answered
<1>3. faults \in Nat /\ faults' \in Nat /\ faults <= faults'
  BY <1>2, FaultTyped, JobFacts, JobFactsAfter
<1>4. \A v \in Vms : Running(v)' => Running(v)
  <2>1. vm' = vm \/ \E v \in Vms : VmEnded(v) \/ Deregistered(v)
    BY SweepFacts DEF ProbeClaimVm, JudgeRow, worldVars
  <2>2. ASSUME NEW v \in Vms, VmEnded(v) PROVE \A u \in Vms : Running(u)' => Running(u)
    BY <2>2, WorldFacts, RecordFacts DEF Running, VmEnded
  <2>3. ASSUME NEW v \in Vms, Deregistered(v) PROVE \A u \in Vms : Running(u)' => Running(u)
    BY <2>3, WorldFacts DEF Running, Deregistered, VmStates
  <2> QED
    BY <2>1, <2>2, <2>3 DEF Running
<1>5. item'.step # "restore" /\ item'.rule # "letter"
  <2>1. \/ item' = item
        \/ \E i, v : item' = Item("claim", "probeJob", i, v, NoMessage)
        \/ \E i, v : item' = Item("row", "terminate", i, v, NoMessage)
    BY DEF ProbeClaimVm, JudgeRow
  <2> QED
    BY <1>2, <2>1, NoItemFields, ItemFields
<1>6. SafelyTracked(j) => SafelyTracked(j)'
  <2>1. ~Resending
    BY <1>2, NoItemFields DEF Resending
  <2>2. \A e : Discarding(e)' = 0
    BY <1>5 DEF Discarding, At
  <2> QED
    BY <1>2, <2>1, <2>2, TrackedStays DEF Committed
<1>7. Live(j) /\ Live(j)' => AgeBound(j)'
  <2>1. SUFFICES ASSUME Live(j) PROVE AgeBound(j)'
    OBVIOUS
  <2>2. CASE ProbeClaimVm
    <3>1. PICK i \in todo.claims :
            /\ todo' = [todo EXCEPT !.claims = @ \ {i}]
            /\ \/ UNCHANGED item /\ Fault
               \/ Running(snap.claim[i].vm) /\ UNCHANGED item /\ NoFault
               \/ item' = Item("claim", "probeJob", i, snap.claim[i].vm, NoMessage)
      BY <2>2 DEF ProbeClaimVm
    <3>2. todo'.claims = todo.claims \ {i}
      BY <1>1, <3>1 DEF SweepWork
    <3>3. item'.job = 0 \/ item'.job = i
      BY <1>2, <3>1, NoItemFields, ItemFields
    <3>4. Awaiting(j) /\ Committed(claim[j]) => Awaiting(j)' \/ claim[j].age = 0 \/ faults' = faults + 1
      <4>1. CASE i # j
        BY <1>2, <3>2, <4>1, NoItemFields DEF Awaiting
      <4>2. CASE i = j /\ Fault
        BY <4>2 DEF Fault
      <4>3. CASE i = j /\ Running(snap.claim[i].vm)
        <5>1. claim[j] = snap.claim[j]
          BY <1>1, <2>1, <4>3, AwaitedClaims
        <5> QED
          BY <1>1, <4>3, <5>1, JobFacts DEF JobSafe, Settled
      <4>4. CASE i = j /\ item' = Item("claim", "probeJob", i, snap.claim[i].vm, NoMessage)
        BY <4>4, ItemFields DEF Awaiting
      <4> QED
        BY <3>1, <4>1, <4>2, <4>3, <4>4
    <3>5. j \in todo'.claims => j \in todo.claims /\ item'.job # j
      BY <3>2, <3>3, JobFacts
    <3> QED
      BY <1>1, <1>2, <1>3, <1>5, <2>1, <3>4, <3>5, AgeKept
  <2>3. CASE JudgeRow
    <3>1. todo.claims = {} /\ todo'.claims = {}
      BY <1>1, <2>3 DEF JudgeRow, SweepWork
    <3>2. ~Awaiting(j)
      BY <1>2, <3>1, NoItemFields DEF Awaiting
    <3> QED
      BY <1>1, <1>2, <1>3, <1>5, <2>1, <3>1, <3>2, AgeKept
  <2> QED
    BY <2>2, <2>3
<1> QED
  BY <1>1, <1>2, <1>4, <1>6, <1>7, SweepKeepsJob

\* Dead letters: sent before it is deleted, a letter is always on one of the queues.
LEMMA LettersTrack ==
  ASSUME WorkInv, WorkInv', TrackInv, ProbeLetter \/ SendLetter \/ DeleteLetter, NEW j \in Jobs
  PROVE  JobSafe(j)'
<1>1. JobSafe(j) /\ SweepWork /\ ItemWork
  BY DEF TrackInv, WorkInv
<1>2. /\ UNCHANGED <<github, claim, vm, launch, exhausted, sweep, snap, lost>>
      /\ sweep = "letters" /\ item.rule \in {"none", "letter"} /\ (Fault \/ NoFault)
  <2>1. CASE ProbeLetter
    BY <2>1, NoItemFields DEF ProbeLetter, worldVars
  <2>2. CASE SendLetter
    BY <1>1, <2>2 DEF SendLetter, ItemWork, At
  <2>3. CASE DeleteLetter
    BY <1>1, <2>3 DEF DeleteLetter, ItemWork, At, worldVars, Answered
  <2> QED
    BY <2>1, <2>2, <2>3
<1>3. faults \in Nat /\ faults' \in Nat /\ faults <= faults'
  BY <1>2, FaultTyped, JobFacts, JobFactsAfter
<1>4. \A v \in Vms : Running(v)' => Running(v)
  BY <1>2 DEF Running
<1>5. item'.step # "restore" /\ item'.rule # "claim"
  <2>1. CASE ProbeLetter
    BY <2>1, NoItemFields, ItemFields DEF ProbeLetter
  <2>2. CASE SendLetter
    <3>1. item = Item("letter", "send", item.job, item.vm, item.letter)
      BY <1>1, <2>2 DEF SendLetter, ItemWork, At
    <3>2. Step("discard") => item' = Item("letter", "discard", item.job, item.vm, item.letter)
      BY <3>1, ItemFields DEF Step
    <3> QED
      BY <2>2, <3>2, NoItemFields, ItemFields DEF SendLetter, Done
  <2>3. CASE DeleteLetter
    BY <2>3, NoItemFields DEF DeleteLetter, Done
  <2> QED
    BY <2>1, <2>2, <2>3
<1>6. Live(j) /\ Live(j)' => AgeBound(j)'
  <2>1. todo.claims = {} /\ todo'.claims = {}
    <3>1. todo.claims = {}
      BY <1>1, <1>2 DEF SweepWork
    <3>2. todo'.claims = todo.claims
      BY <1>1 DEF ProbeLetter, SendLetter, DeleteLetter, SweepWork
    <3> QED
      BY <3>1, <3>2
  <2>2. ~Awaiting(j)
    BY <1>2, <2>1 DEF Awaiting
  <2> QED
    BY <1>1, <1>2, <1>3, <1>5, <2>1, <2>2, AgeKept
<1>7. Live(j) /\ Live(j)' /\ github[j] = "queued" /\ SafelyTracked(j) => SafelyTracked(j)'
  <2>1. SUFFICES ASSUME github[j] = "queued", SafelyTracked(j) PROVE SafelyTracked(j)'
    OBVIOUS
  <2>2. ~Resending
    BY <1>2 DEF Resending
  <2>3. CASE ProbeLetter
    <3>1. UNCHANGED <<queue, dlq>> /\ item = NoItem
      BY <2>3 DEF ProbeLetter, worldVars
    <3>2. PICK m \in BagToSet(todo.letters) :
            \/ item' = item
            \/ item' = Item("letter", IF github[m.job] = "queued" THEN "send" ELSE "discard", m.job, NoVm, m)
      BY <2>3 DEF ProbeLetter
    <3>3. \A e \in Messages : e.job = j => Discarding(e)' = 0
      <4>1. CASE item' = item
        BY <3>1, <4>1, NoItemFields DEF Discarding, At
      <4>2. CASE item' = Item("letter", IF github[m.job] = "queued" THEN "send" ELSE "discard", m.job, NoVm, m)
        <5>1. item'.letter = m /\ item'.step = (IF github[m.job] = "queued" THEN "send" ELSE "discard")
          BY <4>2, ItemFields
        <5> QED
          BY <2>1, <5>1 DEF Discarding, At
      <4> QED
        BY <3>2, <4>1, <4>2
    <3> QED
      BY <1>2, <2>1, <2>2, <3>1, <3>3, TrackedStays DEF Committed
  <2>4. CASE SendLetter
    <3>1. /\ item.letter \in Messages /\ dlq' = dlq /\ item.rule = "letter" /\ item.step = "send"
          /\ (queue' = queue (+) One(item.letter) /\ Step("discard")) \/ (queue' = queue /\ Done)
             \/ (queue' = queue (+) One(item.letter) /\ Done)
      BY <1>1, <2>4 DEF SendLetter, ItemWork, At
    <3>2. \A e : Discarding(e) = 0
      BY <3>1 DEF Discarding, At
    <3>3. BagToSet(queue) \subseteq BagToSet(queue')
          /\ (queue' = queue (+) One(item.letter) => item.letter \in BagToSet(queue'))
      BY <3>1, WorldFacts, BagFacts
    <3>4. \A e \in Messages : Staying(e) => Staying(e)' \/ e \in BagToSet(queue')
      <4>1. CASE Done
        <5>1. \A e : Discarding(e)' = 0
          BY <4>1, NoItemFields DEF Done, Discarding, At
        <5> QED
          BY <3>1, <3>2, <5>1 DEF Staying
      <4>2. CASE queue' = queue (+) One(item.letter) /\ Step("discard")
        <5>1. item' = Item("letter", "discard", item.job, item.vm, item.letter)
          BY <1>1, <3>1, <4>2, ItemFields DEF ItemWork, Step
        <5>2. item'.letter = item.letter
          BY <5>1, ItemFields
        <5>3. \A e : e # item.letter => Discarding(e)' = 0
          BY <5>2 DEF Discarding
        <5> QED
          BY <3>1, <3>2, <3>3, <4>2, <5>3 DEF Staying
      <4> QED
        BY <3>1, <4>1, <4>2
    <3> QED
      BY <1>2, <2>1, <2>2, <3>3, <3>4 DEF SafelyTracked, Committed
  <2>5. CASE DeleteLetter
    <3>1. /\ queue' = queue /\ At("letter", "discard") /\ item' = NoItem
          /\ dlq' = dlq \/ dlq' = dlq (-) One(item.letter)
      BY <2>5 DEF DeleteLetter, Done, worldVars
    <3>2. /\ item.letter \in BagToSet(dlq) /\ Copies(item.letter, dlq) \in Nat
          /\ \A e : Copies(e, dlq) \in Nat
      BY <3>1, LetterHeld, WorldFacts, CopiesFacts DEF At
    <3>3. \A e : Discarding(e)' = 0 /\ Discarding(e) = (IF item.letter = e THEN 1 ELSE 0)
      BY <3>1, NoItemFields DEF Discarding, At
    <3>4. /\ \A e : e # item.letter => Copies(e, dlq (-) One(item.letter)) = Copies(e, dlq)
          /\ Copies(item.letter, dlq (-) One(item.letter)) = Copies(item.letter, dlq) - 1
      BY <3>2, WorldFacts, BagFacts
    <3>5. ASSUME NEW e \in Messages, Staying(e) PROVE Staying(e)'
      <4>1. Copies(e, dlq) > (IF item.letter = e THEN 1 ELSE 0)
        BY <3>3, <3>5 DEF Staying
      <4>2. Copies(e, dlq') > 0
        <5>1. CASE dlq' = dlq
          BY <3>2, <4>1, <5>1
        <5>2. CASE dlq' = dlq (-) One(item.letter)
          BY <3>2, <3>4, <4>1, <5>2
        <5> QED
          BY <3>1, <5>1, <5>2
      <4> QED
        BY <3>3, <4>2 DEF Staying, Copies
    <3> QED
      BY <1>2, <2>1, <2>2, <3>1, <3>5 DEF SafelyTracked, Committed
  <2> QED
    BY <2>3, <2>4, <2>5
<1>8. \A m \in BagToSet(queue') \cup BagToSet(dlq') : m.job = j =>
         m \in BagToSet(queue) \cup BagToSet(dlq)
  <2>1. CASE ProbeLetter
    BY <2>1 DEF ProbeLetter, worldVars
  <2>2. CASE SendLetter
    <3>1. /\ item.letter \in BagToSet(dlq) /\ dlq' = dlq
          /\ queue' = queue \/ queue' = queue (+) One(item.letter)
      BY <2>2, LetterHeld DEF SendLetter, At
    <3> QED
      BY <3>1, WorldFacts, BagFacts
  <2>3. CASE DeleteLetter
    <3>1. queue' = queue /\ (dlq' = dlq \/ dlq' = dlq (-) One(item.letter))
      BY <2>3 DEF DeleteLetter, worldVars
    <3> QED
      BY <3>1, WorldFacts, BagFacts
  <2> QED
    BY <2>1, <2>2, <2>3
<1> QED
  BY <1>1, <1>2, <1>4, <1>6, <1>7, <1>8, SweepKeepsJob

LEMMA TrackInvStep ==
  ClaimLife > MaxFaults + 1 /\ WorkInv /\ WorkInv' /\ TrackInv /\ BacklogFits /\ [Next]_vars => TrackInv'
<1> SUFFICES ASSUME ClaimLife > MaxFaults + 1, WorkInv, WorkInv', TrackInv, BacklogFits, [Next]_vars,
                    NEW j \in Jobs
             PROVE  JobSafe(j)'
  BY DEF TrackInv
<1>1. CASE UNCHANGED vars
  <2>1. UNCHANGED <<github, queue, claim, vm, row, launch, dlq, exhausted, sweep, snap, todo, item,
                    faults, lost>>
    BY <1>1 DEF vars, worldVars, sweepVars
  <2>2. JobSafe(j)
    BY DEF TrackInv
  <2> QED
    BY <2>1, <2>2 DEF JobSafe, Unannounced, AgeBound, Awaiting, Settled, Running, Committed, Live,
       SafelyTracked, Staying, Discarding, Copies, At, Resending
<1>2. ASSUME NEW k \in Jobs, Announce(k) \/ Cancel(k) \/ ExpireClaim(k) \/ Deliver(k)
      PROVE  JobSafe(j)'
  BY <1>2, MessageStepsTrack
<1>3. ASSUME NEW v \in Vms,
             Commit(v) \/ FailLaunch(v) \/ Register(v) \/ TakeJob(v) \/ FinishJob(v) \/ VmEnds(v)
      PROVE  JobSafe(j)'
  BY <1>3, LaunchStepsTrack
<1>4. CASE SweepStep
  BY <1>4, LookingTracks, RelaunchTracks, PhasesTrack, TakeUpTracks, LettersTrack DEF SweepStep
<1>5. CASE KillSweep
  BY <1>5, PhasesTrack
<1> QED
  BY <1>1, <1>2, <1>3, <1>4, <1>5 DEF Next

\* A job is lost by a failure, and by each failure one job at the most.
LEMMA LossStep ==
  ASSUME WorkInv, [Next]_vars
  PROVE  /\ faults <= faults'
         /\ lost' = lost \/ (lost' = lost \cup {item.job} /\ faults' = faults + 1)
<1>1. CASE UNCHANGED vars
  BY <1>1, WorldFacts, ConstantTypes DEF vars
<1>2. ASSUME NEW j \in Jobs, Announce(j) \/ Cancel(j) \/ ExpireClaim(j) \/ Deliver(j)
      PROVE  lost' = lost /\ faults <= faults'
  <2>1. lost' = lost /\ (faults' = faults \/ StillWanted(j))
    BY <1>2 DEF Announce, Cancel, ExpireClaim, Deliver, DropMessage, Contend, Acquire
  <2> QED
    BY <2>1, FaultTyped, WorldFacts, ConstantTypes DEF StillWanted
<1>3. ASSUME NEW v \in Vms,
             Commit(v) \/ FailLaunch(v) \/ Register(v) \/ TakeJob(v) \/ FinishJob(v) \/ VmEnds(v)
      PROVE  lost' = lost /\ faults <= faults'
  <2>1. lost' = lost /\ (faults' = faults \/ Fault \/ TwoFaults)
    BY <1>3 DEF Commit, FailLaunch, Register, TakeJob, FinishJob, VmEnds, NoFault
  <2> QED
    BY <2>1, FaultTyped, WorldFacts, ConstantTypes
<1>4. ASSUME ReleaseClaim \/ DeleteClaim \/ RestoreClaim \/ KillSweep
      PROVE  /\ Fault \/ NoFault
             /\ lost' = lost \/ (lost' = lost \cup {item.job} /\ Fault)
  BY <1>4 DEF ReleaseClaim, DeleteClaim, RestoreClaim, KillSweep, Stranded, Answered
<1>5. ASSUME \/ ListVms \/ ScanTable \/ TableDone \/ EndSweep \/ ProbeClaimVm \/ ProbeClaimedJob
             \/ SendRelaunch \/ JudgeRow \/ Reap \/ ProbeReapedJob \/ ProbeJobFails
             \/ ProbeLetter \/ SendLetter \/ DeleteLetter
      PROVE  lost' = lost /\ (Fault \/ NoFault)
  BY <1>5 DEF ListVms, ScanTable, TableDone, EndSweep, ProbeClaimVm, ProbeClaimedJob, SendRelaunch,
     JudgeRow, Reap, ProbeReapedJob, ProbeJobFails, ProbeLetter, SendLetter, DeleteLetter,
     Answered, NoFault
<1>6. Fault \/ NoFault => faults <= faults'
  BY FaultTyped
<1>7. CASE SweepStep \/ KillSweep
  BY <1>4, <1>5, <1>6, <1>7 DEF SweepStep, Fault
<1> QED
  BY <1>1, <1>2, <1>3, <1>7 DEF Next

LEMMA LossesBounded ==
  ASSUME WorkInv, WorkInv', [Next]_vars, Cardinality(lost) <= faults
  PROVE  Cardinality(lost') <= faults'
<1>1. lost \subseteq Jobs /\ faults \in Nat /\ faults' \in Nat
  BY SweepFacts, WorldFacts, ConstantTypes DEF WorkInv, TypeOK
<1>2. IsFiniteSet(lost) /\ Cardinality(lost) \in Nat
  BY <1>1, ConstantTypes, FS_Subset, FS_CardinalityType
<1>3. Cardinality(lost \cup {item.job}) \in {Cardinality(lost), Cardinality(lost) + 1}
  BY <1>2, FS_AddElement
<1>4. CASE lost' = lost
  BY <1>1, <1>2, <1>4, LossStep
<1>5. CASE lost' = lost \cup {item.job} /\ faults' = faults + 1
  BY <1>1, <1>2, <1>3, <1>5
<1> QED
  BY <1>4, <1>5, LossStep

\* However launches, deletes, sends and restores interleave and whichever calls fail, with or
\* without effect, no queued job is left with nothing that will see to it, unless it was given
\* up, or a sweep had deleted its claim and did not hear of the delete, was killed before the
\* send, or failed both to send and to restore, and no more jobs are lost so than calls failed -
\* provided a claim outlives its VM by more sweeps than calls fail, and a sweep can probe all the
\* committed claims there are.
THEOREM QueuedJobsStayTracked ==
  ASSUME ClaimLife > MaxFaults + 1
  PROVE  Spec /\ []BacklogFits => []QueuedJobIsTracked
<1> DEFINE Inv == TrackInv /\ Cardinality(lost) <= faults
<1>1. Init => Inv
  BY TrackInit, FS_EmptySet DEF Init
<1>2. WorkInv /\ WorkInv' /\ Inv /\ BacklogFits /\ [Next]_vars => Inv'
  BY TrackInvStep, LossesBounded
<1>3. WorkInv /\ Inv => QueuedJobIsTracked
  <2> SUFFICES ASSUME WorkInv, TrackInv, NEW j \in Jobs, github[j] = "queued",
                      j \notin exhausted \cup lost
               PROVE  Tracked(j)
    BY DEF QueuedJobIsTracked
  <2>1. SafelyTracked(j)
    BY DEF TrackInv, JobSafe, Live
  <2>2. \A m : Staying(m) => m \in BagToSet(dlq)
    <3>1. \A m : Discarding(m) \in {0, 1} /\ Copies(m, dlq) \in Nat
      BY WorldFacts, CopiesFacts DEF Discarding
    <3>2. \A m : Staying(m) => Copies(m, dlq) > 0
      BY <3>1 DEF Staying
    <3> QED
      BY <3>2, WorldFacts, CopiesFacts
  <2> QED
    BY <2>1, <2>2 DEF SafelyTracked, Tracked
<1> HIDE DEF Inv
<1> QED
  BY <1>1, <1>2, <1>3, WorkInvariant, PTL DEF Spec
=============================================================================
