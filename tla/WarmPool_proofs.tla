---------------------------- MODULE WarmPool_proofs ----------------------------
(***************************************************************************)
(* The warm pool for every value of the constants: its types, that a       *)
(* launch keeps off the VMs a tick has condemned, and that overlapping     *)
(* ticks never fill the pool beyond one target each.                       *)
(***************************************************************************)
EXTENDS WarmPool, FiniteSetTheorems, WellFoundedInduction, TLAPS

-----------------------------------------------------------------------------
(* Types.                                                                  *)

\* A tick has a VM in hand while it fills a slot, and then at least that slot is open.
TickWork(t) ==
  /\ IF tick[t].pc \in {"suspend", "compensate"}
       THEN tick[t].vm \in Vms /\ tick[t].want > 0 /\ tick[t].todo = {} ELSE tick[t].vm = NoVm
  /\ tick[t].pc \in {"idle", "list"} => tick[t].want = 0
  /\ tick[t].pc = "idle" => tick[t].todo = {}

LaunchWork(a) ==
  IF launch[a].pc \in {"resume", "fail"} THEN launch[a].vm \in Vms ELSE launch[a].vm = NoVm

WorkInv ==
  /\ TypeOK
  /\ \A t \in Ticks : TickWork(t)
  /\ \A a \in Launches : LaunchWork(a) /\ launch[a].stamp <= now
  /\ now + image <= MaxChanges + 1

LEMMA ConstantTypes ==
  /\ Vms \subseteq Nat /\ NoVm \notin Vms /\ IsFiniteSet(Vms) /\ IsFiniteSet(Ticks)
  /\ Len(Pages) \in Nat \ {0} /\ DOMAIN Pages = 1..Len(Pages)
  /\ \A i \in 1..Len(Pages) : Pages[i] \subseteq Vms
  /\ Target \in Nat /\ Target > 0 /\ VmCap \in Nat /\ JobNeed \in Nat
  /\ WarmClaimTtl \in Nat /\ WarmClaimTtl > 0 /\ MaxAttempts \in Nat /\ MaxAttempts > 0
  /\ MaxChanges \in Nat /\ MaxFaults \in Nat
<1>1. Pages \in Seq(SUBSET Nat) /\ Pages # <<>>
  BY SetsAssumption
<1>2. Len(Pages) \in Nat \ {0} /\ DOMAIN Pages = 1..Len(Pages)
  BY <1>1
<1>3. \A i \in 1..Len(Pages) : Pages[i] \subseteq Vms
  BY <1>2 DEF Vms
<1>4. Vms \subseteq Nat
  BY <1>1, <1>2 DEF Vms
<1> QED
  BY <1>2, <1>3, <1>4, SetsAssumption, NumbersAssumption

\* A set of VM ids has a least one.
LEMMA MinIsMember ==
  ASSUME NEW S \in SUBSET Nat, S # {}
  PROVE  Min(S) \in S
<1>1. PICK i \in S : \A k \in S : <<k, i>> \notin OpToRel(<, Nat)
  BY NatLessThanWellFounded, WFMin
<1>2. \A k \in S : ~(k < i)
  BY <1>1 DEF OpToRel
<1>3. \A k \in S : i <= k
  BY <1>2
<1> QED
  BY <1>3 DEF Min

\* How many usable VMs a set of VMs has is a number.
LEMMA CountTypes ==
  ASSUME NEW S \in SUBSET Vms
  PROVE  IsFiniteSet(S) /\ Cardinality(S) \in Nat /\ PlanConvergence(Cardinality(S)) \in 0..Target
<1>1. IsFiniteSet(S) /\ Cardinality(S) \in Nat
  BY ConstantTypes, FS_Subset, FS_CardinalityType
<1> QED
  BY <1>1, ConstantTypes DEF PlanConvergence

LEMMA PlanFields ==
  ASSUME NEW found, NEW c
  PROVE  Plan(found, c) =
           [pc |-> "converge", version |-> c, page |-> 1, tries |-> 1,
            todo |-> found \ UsableAmong(found, c),
            want |-> PlanConvergence(Cardinality(UsableAmong(found, c))), vm |-> NoVm]
  BY Zenon DEF Plan

LEMMA FieldTypes ==
  ASSUME TypeOK
  PROVE  /\ \A t \in Ticks :
              /\ tick[t] \in Tick /\ tick[t].todo \subseteq Vms /\ tick[t].want \in 0..Target
              /\ tick[t].vm \in Vms \cup {NoVm} /\ tick[t].version \in 0..MaxChanges + 1
              /\ tick[t].page \in 1..Len(Pages) /\ tick[t].tries \in 1..MaxAttempts
         /\ \A v \in Vms : vm[v] \in Vm /\ vm[v].born \in Int /\ vm[v].version \in Int
         /\ \A a \in Launches : launch[a] \in Launch /\ launch[a].stamp \in 0..MaxChanges
                                /\ launch[a].vm \in Vms \cup {NoVm}
  BY DEF TypeOK, Tick, Vm, Launch

LEMMA WorkInvInit == Init => WorkInv
  BY ConstantTypes DEF Init, WorkInv, TypeOK, TickWork, LaunchWork, Idle, NotLaunching, Ended,
     Tick, Vm, Launch

\* What becomes of the tick whose step it is decides about the ticks.
LEMMA TickKept ==
  ASSUME WorkInv, NEW t \in Ticks, NEW r, tick' = [tick EXCEPT ![t] = r],
         r \in Tick,
         IF r.pc \in {"suspend", "compensate"}
           THEN r.vm \in Vms /\ r.want > 0 /\ r.todo = {} ELSE r.vm = NoVm,
         r.pc \in {"idle", "list"} => r.want = 0,
         r.pc = "idle" => r.todo = {}
  PROVE  tick' \in [Ticks -> Tick] /\ \A u \in Ticks : TickWork(u)'
<1>1. tick \in [Ticks -> Tick]
  BY DEF WorkInv, TypeOK
<1>2. tick'[t] = r /\ \A u \in Ticks \ {t} : tick'[u] = tick[u]
  BY <1>1
<1>3. tick' \in [Ticks -> Tick]
  BY <1>1
<1>4. TickWork(t)'
  BY <1>2 DEF TickWork
<1>5. \A u \in Ticks \ {t} : TickWork(u)'
  BY <1>2 DEF WorkInv, TickWork
<1> QED
  BY <1>3, <1>4, <1>5

\* And likewise for the launches.
LEMMA LaunchKept ==
  ASSUME WorkInv, NEW a \in Launches, NEW r, launch' = [launch EXCEPT ![a] = r],
         r \in Launch, r.stamp <= now, UNCHANGED now,
         IF r.pc \in {"resume", "fail"} THEN r.vm \in Vms ELSE r.vm = NoVm
  PROVE  /\ launch' \in [Launches -> Launch]
         /\ \A b \in Launches : LaunchWork(b)' /\ launch'[b].stamp <= now'
<1>1. launch \in [Launches -> Launch]
  BY DEF WorkInv, TypeOK
<1>2. launch'[a] = r /\ \A b \in Launches \ {a} : launch'[b] = launch[b]
  BY <1>1
<1>3. launch' \in [Launches -> Launch]
  BY <1>1
<1>4. LaunchWork(a)'
  BY <1>2 DEF LaunchWork
<1>5. \A b \in Launches \ {a} : LaunchWork(b)' /\ launch'[b].stamp <= now'
  BY <1>2 DEF WorkInv, LaunchWork
<1> QED
  BY <1>2, <1>3, <1>4, <1>5

LEMMA IdleTyped ==
  /\ Idle \in Tick /\ Idle.pc = "idle" /\ Idle.want = 0 /\ Idle.todo = {} /\ Idle.vm = NoVm
  /\ [Idle EXCEPT !.pc = "list"].pc = "list"
  /\ [NotLaunching EXCEPT !.pc = "done"] \in Launch
  BY ConstantTypes DEF Idle, Tick, NotLaunching, Launch

\* The VMs keep their shape when one ends.
LEMMA EndTyped ==
  ASSUME TypeOK, NEW v, EndVm(v)
  PROVE  vm' \in [Vms -> Vm] /\ warmClaim' \in [Vms -> 0..MaxChanges + WarmClaimTtl]
<1>1. Ended \in Vm
  BY ConstantTypes DEF Ended, Vm
<1>2. 0 \in 0..MaxChanges + WarmClaimTtl
  BY ConstantTypes
<1> QED
  BY <1>1, <1>2 DEF TypeOK, EndVm

LEMMA FaultTyped ==
  ASSUME TypeOK, Fault \/ NoFault
  PROVE  faults' \in 0..MaxFaults
  BY ConstantTypes DEF TypeOK, Fault, NoFault

\* What is left when a step touches neither the clock nor the launches.
LEMMA TickStepTyped ==
  ASSUME WorkInv, UNCHANGED <<now, image, launch>>, Fault \/ NoFault,
         tick' \in [Ticks -> Tick] /\ \A u \in Ticks : TickWork(u)',
         vm' \in [Vms -> Vm] /\ warmClaim' \in [Vms -> 0..MaxChanges + WarmClaimTtl],
         spared' \subseteq Vms
  PROVE  WorkInv'
<1>1. TypeOK'
  BY FaultTyped DEF WorkInv, TypeOK
<1>2. \A a \in Launches : LaunchWork(a)' /\ launch'[a].stamp <= now'
  BY DEF WorkInv, LaunchWork
<1> QED
  BY <1>1, <1>2 DEF WorkInv

LEMMA ReadPageTyped ==
  ASSUME WorkInv, NEW t \in Ticks, ReadPage(t)
  PROVE  WorkInv'
<1>1. TypeOK /\ TickWork(t) /\ At(t, "list")
  BY DEF WorkInv, ReadPage
<1>2. PICK missed \in SUBSET SuspendedOn(t) :
        /\ IF missed = {} THEN NoFault ELSE Fault
        /\ spared' = spared \cup missed
        /\ LET found == tick[t].todo \cup (SuspendedOn(t) \ missed) IN
           Become(t, IF tick[t].page = Len(Pages) THEN Plan(found, tick[t].version)
                     ELSE [tick[t] EXCEPT !.todo = found, !.page = @ + 1, !.tries = 1])
  BY DEF ReadPage
<1> DEFINE found == tick[t].todo \cup (SuspendedOn(t) \ missed)
           r == IF tick[t].page = Len(Pages) THEN Plan(found, tick[t].version)
                ELSE [tick[t] EXCEPT !.todo = found, !.page = @ + 1, !.tries = 1]
<1>3. SuspendedOn(t) \subseteq Vms /\ found \subseteq Vms
  BY <1>1, FieldTypes, ConstantTypes DEF SuspendedOn
<1>4. Plan(found, tick[t].version) \in Tick /\ Plan(found, tick[t].version).vm = NoVm
      /\ Plan(found, tick[t].version).pc = "converge"
  <2> DEFINE usable == UsableAmong(found, tick[t].version)
  <2>1. PlanConvergence(Cardinality(usable)) \in 0..Target /\ found \ usable \subseteq Vms
    <3>1. usable \subseteq Vms
      BY <1>3 DEF UsableAmong
    <3> HIDE DEF usable, found
    <3> QED
      BY <1>3, <3>1, CountTypes
  <2>2. tick[t].version \in 0..MaxChanges + 1 /\ 1 \in 1..Len(Pages) /\ 1 \in 1..MaxAttempts
    BY <1>1, FieldTypes, ConstantTypes
  <2> HIDE DEF found
  <2> QED
    BY <2>1, <2>2, PlanFields DEF Tick
<1>5. tick[t].page # Len(Pages)
        => [tick[t] EXCEPT !.todo = found, !.page = @ + 1, !.tries = 1] \in Tick
  <2>1. tick[t].page # Len(Pages) => tick[t].page + 1 \in 1..Len(Pages)
    BY <1>1, FieldTypes, ConstantTypes
  <2>2. 1 \in 1..MaxAttempts /\ tick[t] \in Tick
    BY <1>1, FieldTypes, ConstantTypes
  <2> HIDE DEF found
  <2> QED
    BY <1>3, <2>1, <2>2 DEF Tick
<1>6. tick[t].pc = "list" /\ tick[t].vm = NoVm /\ tick[t].want = 0 /\ tick[t] \in Tick
  BY <1>1, FieldTypes DEF At, TickWork
<1>7. /\ r \in Tick /\ r.vm = NoVm /\ r.pc \in {"list", "converge"} /\ (r.pc = "list" => r.want = 0)
  BY <1>4, <1>5, <1>6 DEF Tick
<1>8. tick' = [tick EXCEPT ![t] = r]
  BY <1>2 DEF Become
<1> HIDE DEF r
<1>9. tick' \in [Ticks -> Tick] /\ \A u \in Ticks : TickWork(u)'
  BY <1>7, <1>8, TickKept
<1>10. UNCHANGED <<now, image, vm, warmClaim, launch>>
  BY DEF ReadPage
<1>11. spared' \subseteq Vms
  BY <1>1, <1>2, <1>3 DEF TypeOK
<1>12. (Fault \/ NoFault) /\ vm' \in [Vms -> Vm] /\ warmClaim' \in [Vms -> 0..MaxChanges + WarmClaimTtl]
  BY <1>1, <1>2, <1>10 DEF TypeOK
<1> QED
  BY <1>9, <1>10, <1>11, <1>12, TickStepTyped

\* A tick's other steps, each with the record it leaves.
LEMMA ListStepsTyped ==
  ASSUME WorkInv, NEW t \in Ticks, StartTick(t) \/ Throttled(t) \/ ListFails(t) \/ EndTick(t) \/ KillTick(t)
  PROVE  WorkInv'
<1>1. TypeOK /\ TickWork(t) /\ tick[t] \in Tick
  BY FieldTypes DEF WorkInv
<1>2. UNCHANGED <<now, image, vm, warmClaim, launch>> /\ (Fault \/ NoFault) /\ spared' \subseteq Vms
  BY <1>1, FieldTypes DEF StartTick, Throttled, ListFails, EndTick, KillTick, NoFault, TypeOK
<1>3. tick' \in [Ticks -> Tick] /\ \A u \in Ticks : TickWork(u)'
  <2>1. CASE StartTick(t)
    <3> DEFINE r == [Idle EXCEPT !.pc = "list", !.version = image]
    <3>1. r \in Tick /\ r.pc = "list" /\ r.want = 0 /\ r.vm = NoVm
      <4>1. image \in 0..MaxChanges + 1
        BY <1>1, ConstantTypes DEF TypeOK
      <4> QED
        BY <4>1, IdleTyped DEF Tick
    <3>2. tick' = [tick EXCEPT ![t] = r]
      BY <2>1 DEF StartTick, Become
    <3> HIDE DEF r
    <3> QED
      BY <3>1, <3>2, TickKept
  <2>2. CASE Throttled(t)
    <3> DEFINE r == [tick[t] EXCEPT !.tries = @ + 1]
    <3>1. r \in Tick /\ r.pc = "list" /\ r.want = 0 /\ r.vm = NoVm
      <4>1. tick[t].tries + 1 \in 1..MaxAttempts
        BY <1>1, <2>2, FieldTypes, ConstantTypes DEF Throttled
      <4>2. tick[t].pc = "list" /\ tick[t].want = 0 /\ tick[t].vm = NoVm
        BY <1>1, <2>2 DEF Throttled, At, TickWork
      <4> QED
        BY <1>1, <4>1, <4>2 DEF Tick
    <3>2. tick' = [tick EXCEPT ![t] = r]
      BY <2>2 DEF Throttled, Become
    <3> HIDE DEF r
    <3> QED
      BY <3>1, <3>2, TickKept
  <2>3. CASE ListFails(t) \/ EndTick(t) \/ KillTick(t)
    <3>1. tick' = [tick EXCEPT ![t] = Idle]
      BY <2>3 DEF ListFails, EndTick, KillTick, Become
    <3> QED
      BY <3>1, IdleTyped, TickKept
  <2> QED
    BY <2>1, <2>2, <2>3
<1>4. vm' \in [Vms -> Vm] /\ warmClaim' \in [Vms -> 0..MaxChanges + WarmClaimTtl]
  BY <1>1, <1>2 DEF TypeOK
<1> QED
  BY <1>2, <1>3, <1>4, TickStepTyped

LEMMA RetireTyped ==
  ASSUME WorkInv, NEW t \in Ticks, Retire(t)
  PROVE  WorkInv'
<1>1. TypeOK /\ TickWork(t) /\ tick[t] \in Tick
  BY FieldTypes DEF WorkInv
<1> DEFINE v == Min(tick[t].todo)
           r == [tick[t] EXCEPT !.todo = @ \ {v}]
<1>2. v \in Vms
  BY <1>1, FieldTypes, ConstantTypes, MinIsMember DEF Retire
<1>3. tick' = [tick EXCEPT ![t] = r] /\ (Fault \/ NoFault) /\ UNCHANGED <<now, image, launch>>
  BY DEF Retire, Become
<1>4. EndVm(v) \/ UNCHANGED <<vm, warmClaim>>
  BY DEF Retire
<1>5. spared' = spared \ {v} \/ spared' = spared \cup {v}
  BY DEF Retire
<1>6. r \in Tick /\ r.pc = "converge" /\ r.vm = NoVm
  <2>1. tick[t].todo \ {v} \subseteq Vms
    BY <1>1, FieldTypes
  <2>2. tick[t].pc = "converge" /\ tick[t].vm = NoVm
    BY <1>1 DEF Retire, At, TickWork
  <2> HIDE DEF v
  <2> QED
    BY <1>1, <2>1, <2>2 DEF Tick
<1> HIDE DEF r, v
<1>7. tick' \in [Ticks -> Tick] /\ \A u \in Ticks : TickWork(u)'
  BY <1>3, <1>6, TickKept
<1>8. vm' \in [Vms -> Vm] /\ warmClaim' \in [Vms -> 0..MaxChanges + WarmClaimTtl]
  BY <1>1, <1>4, EndTyped DEF TypeOK
<1>9. spared' \subseteq Vms
  BY <1>1, <1>2, <1>5 DEF TypeOK
<1> QED
  BY <1>3, <1>7, <1>8, <1>9, TickStepTyped

LEMMA RunMicrovmTyped ==
  ASSUME WorkInv, NEW t \in Ticks, RunMicrovm(t)
  PROVE  WorkInv'
<1>1. TypeOK /\ TickWork(t) /\ tick[t] \in Tick
  BY FieldTypes DEF WorkInv
<1>2. tick[t].pc = "converge" /\ tick[t].vm = NoVm /\ tick[t].todo = {} /\ tick[t].want > 0
      /\ tick[t].want - 1 \in 0..Target
  <2>1. tick[t].pc = "converge" /\ tick[t].todo = {} /\ tick[t].want > 0
    BY DEF RunMicrovm, At
  <2> QED
    BY <1>1, <2>1, FieldTypes, ConstantTypes DEF TickWork
<1> DEFINE less == [tick[t] EXCEPT !.want = @ - 1]
           filling(v) == [tick[t] EXCEPT !.pc = "suspend", !.vm = v]
<1>3. less \in Tick /\ less.pc = "converge" /\ less.vm = NoVm
  BY <1>1, <1>2 DEF Tick
<1>4. \A v \in Vms : /\ filling(v) \in Tick /\ filling(v).pc = "suspend" /\ filling(v).vm = v
                     /\ filling(v).want > 0 /\ filling(v).todo = {}
  BY <1>1, <1>2 DEF Tick
<1>5. \/ tick' = [tick EXCEPT ![t] = less]
      \/ \E v \in Vms : tick' = [tick EXCEPT ![t] = filling(v)]
  BY Zenon DEF RunMicrovm, Become
<1>6. (Fault \/ NoFault) /\ UNCHANGED <<now, image, launch>> /\ spared' \subseteq spared
  BY DEF RunMicrovm
<1>7. vm' \in [Vms -> Vm] /\ warmClaim' \in [Vms -> 0..MaxChanges + WarmClaimTtl]
  <2>1. [state |-> "running", born |-> now, version |-> image, armed |-> FALSE] \in Vm
    BY <1>1, ConstantTypes DEF TypeOK, Vm
  <2>2. 0 \in 0..MaxChanges + WarmClaimTtl
    BY ConstantTypes
  <2>3. \/ UNCHANGED <<vm, warmClaim>>
        \/ \E v \in Vms :
             /\ vm' = [vm EXCEPT ![v] = [state |-> "running", born |-> now,
                                         version |-> image, armed |-> FALSE]]
             /\ warmClaim' = [warmClaim EXCEPT ![v] = 0]
    BY DEF RunMicrovm
  <2> QED
    BY <1>1, <2>1, <2>2, <2>3 DEF TypeOK
<1> HIDE DEF less, filling
<1>8. tick' \in [Ticks -> Tick] /\ \A u \in Ticks : TickWork(u)'
  <2>1. CASE tick' = [tick EXCEPT ![t] = less]
    BY <1>3, <2>1, TickKept
  <2>2. ASSUME NEW v \in Vms, tick' = [tick EXCEPT ![t] = filling(v)]
        PROVE  tick' \in [Ticks -> Tick] /\ \A u \in Ticks : TickWork(u)'
    BY <1>4, <2>2, TickKept
  <2> QED
    BY <1>5, <2>1, <2>2
<1>9. spared' \subseteq Vms
  BY <1>1, <1>6 DEF TypeOK
<1> QED
  BY <1>6, <1>7, <1>8, <1>9, TickStepTyped

LEMMA FillStepsTyped ==
  ASSUME WorkInv, NEW t \in Ticks, SuspendVm(t) \/ Compensate(t)
  PROVE  WorkInv'
<1>1. TypeOK /\ TickWork(t) /\ tick[t] \in Tick
  BY FieldTypes DEF WorkInv
<1> DEFINE v == tick[t].vm
           next == [tick[t] EXCEPT !.pc = "converge", !.want = @ - 1, !.vm = NoVm]
           failed == [tick[t] EXCEPT !.pc = "compensate"]
<1>2. v \in Vms /\ tick[t].want > 0 /\ tick[t].want - 1 \in 0..Target /\ tick[t].todo = {}
  BY <1>1, FieldTypes, ConstantTypes DEF SuspendVm, Compensate, At, TickWork
<1>3. next \in Tick /\ next.pc = "converge" /\ next.vm = NoVm
  BY <1>1, <1>2 DEF Tick
<1>4. /\ failed \in Tick /\ failed.pc = "compensate" /\ failed.vm \in Vms
      /\ failed.want > 0 /\ failed.todo = {}
  BY <1>1, <1>2 DEF Tick
<1>5. tick' = [tick EXCEPT ![t] = next] \/ tick' = [tick EXCEPT ![t] = failed]
  BY DEF SuspendVm, Compensate, Go, Become
<1>6. (Fault \/ NoFault) /\ UNCHANGED <<now, image, launch>>
      /\ (spared' = spared \/ spared' = spared \cup {v})
  BY DEF SuspendVm, Compensate
<1>7. \/ EndVm(v)
      \/ UNCHANGED <<vm, warmClaim>>
      \/ vm' = [vm EXCEPT ![v].state = "suspended"] /\ UNCHANGED warmClaim
  BY DEF SuspendVm, Compensate
<1> HIDE DEF next, failed, v
<1>8. tick' \in [Ticks -> Tick] /\ \A u \in Ticks : TickWork(u)'
  <2>1. CASE tick' = [tick EXCEPT ![t] = next]
    BY <1>3, <2>1, TickKept
  <2>2. CASE tick' = [tick EXCEPT ![t] = failed]
    BY <1>4, <2>2, TickKept
  <2> QED
    BY <1>5, <2>1, <2>2
<1>9. vm' \in [Vms -> Vm] /\ warmClaim' \in [Vms -> 0..MaxChanges + WarmClaimTtl]
  <2>1. vm' = [vm EXCEPT ![v].state = "suspended"] => vm' \in [Vms -> Vm]
    BY <1>1 DEF TypeOK, Vm
  <2> QED
    BY <1>1, <1>7, <2>1, EndTyped DEF TypeOK
<1>10. spared' \subseteq Vms
  BY <1>1, <1>2, <1>6 DEF TypeOK
<1> QED
  BY <1>6, <1>8, <1>9, <1>10, TickStepTyped

-----------------------------------------------------------------------------
LEMMA LaunchStepsTyped ==
  ASSUME WorkInv, NEW a \in Launches,
         StartLaunch(a) \/ ClaimWarmVm(a) \/ TakeVm(a) \/ FallBack(a) \/ KillLaunch(a)
  PROVE  WorkInv'
<1>1. TypeOK /\ LaunchWork(a) /\ launch[a] \in Launch
  BY FieldTypes DEF WorkInv
<1>2. UNCHANGED <<now, image, tick, spared>> /\ (Fault \/ NoFault)
  BY DEF StartLaunch, ClaimWarmVm, TakeVm, FallBack, KillLaunch, NoFault
<1>3. now \in 0..MaxChanges /\ UNCHANGED now
  BY <1>1, <1>2, ConstantTypes DEF TypeOK
<1>4. ASSUME NEW r, launch' = [launch EXCEPT ![a] = r], r \in Launch, r.stamp <= now,
             IF r.pc \in {"resume", "fail"} THEN r.vm \in Vms ELSE r.vm = NoVm
      PROVE  /\ launch' \in [Launches -> Launch]
             /\ \A b \in Launches : LaunchWork(b)' /\ launch'[b].stamp <= now'
  BY <1>3, <1>4, LaunchKept
<1> DEFINE free == {v \in Vms : /\ Suspended(v) /\ Usable(v, launch[a].stamp, launch[a].version)
                                /\ ClaimAbsent(v)}
           over == [NotLaunching EXCEPT !.pc = "done"]
           begun == [pc |-> "claim", version |-> image, stamp |-> now, vm |-> NoVm]
           claimed == [NotLaunching EXCEPT !.pc = "resume", !.vm = Min(free)]
           failed == [launch[a] EXCEPT !.pc = "fail"]
<1>5. over \in Launch /\ over.stamp <= now /\ over.pc = "done" /\ over.vm = NoVm
  BY <1>3, ConstantTypes DEF NotLaunching, Launch
<1>6. begun \in Launch /\ begun.stamp <= now
  BY <1>1, <1>3, ConstantTypes DEF TypeOK, Launch
<1>7. free # {} => Min(free) \in free
  BY ConstantTypes, MinIsMember
<1>8. free # {} => /\ claimed \in Launch /\ claimed.stamp <= now /\ claimed.pc = "resume"
                   /\ claimed.vm \in Vms
  <2> DEFINE least == Min(free)
  <2>1. free # {} => least \in Vms
    BY <1>7
  <2>2. claimed = [NotLaunching EXCEPT !.pc = "resume", !.vm = least]
    OBVIOUS
  <2> HIDE DEF free, least, claimed
  <2>3. claimed = [pc |-> "resume", version |-> 0, stamp |-> 0, vm |-> least]
    BY <2>2 DEF NotLaunching
  <2> QED
    BY <1>3, <2>1, <2>3, ConstantTypes DEF Launch
<1>9. TakeVm(a) => /\ failed \in Launch /\ failed.stamp <= now /\ failed.pc = "fail"
                   /\ failed.vm \in Vms
  BY <1>1 DEF TakeVm, LaunchWork, Launch, WorkInv
<1>10. \/ launch' = [launch EXCEPT ![a] = over]
       \/ launch' = [launch EXCEPT ![a] = begun]
       \/ launch' = [launch EXCEPT ![a] = claimed] /\ free # {}
       \/ launch' = [launch EXCEPT ![a] = failed] /\ TakeVm(a)
  BY DEF StartLaunch, ClaimWarmVm, TakeVm, FallBack, KillLaunch, LaunchOver
<1>11. \/ UNCHANGED <<vm, warmClaim>>
       \/ EndVm(launch[a].vm)
       \/ UNCHANGED vm /\ free # {}
          /\ warmClaim' = [warmClaim EXCEPT ![Min(free)] = launch[a].stamp + WarmClaimTtl]
       \/ UNCHANGED warmClaim
          /\ vm' = [vm EXCEPT ![launch[a].vm].state = "running", ![launch[a].vm].armed = TRUE]
  BY DEF StartLaunch, ClaimWarmVm, TakeVm, FallBack, KillLaunch
<1> HIDE DEF over, begun, claimed, failed, free
<1>12. /\ launch' \in [Launches -> Launch]
       /\ \A b \in Launches : LaunchWork(b)' /\ launch'[b].stamp <= now'
  <2>1. CASE launch' = [launch EXCEPT ![a] = over]
    BY <1>4, <1>5, <2>1
  <2>2. CASE launch' = [launch EXCEPT ![a] = begun]
    BY <1>4, <1>6, <2>2 DEF begun
  <2>3. CASE launch' = [launch EXCEPT ![a] = claimed] /\ free # {}
    BY <1>4, <1>8, <2>3
  <2>4. CASE launch' = [launch EXCEPT ![a] = failed] /\ TakeVm(a)
    BY <1>4, <1>9, <2>4
  <2> QED
    BY <1>10, <2>1, <2>2, <2>3, <2>4
<1>13. vm' \in [Vms -> Vm] /\ warmClaim' \in [Vms -> 0..MaxChanges + WarmClaimTtl]
  <2>1. launch[a].stamp + WarmClaimTtl \in 0..MaxChanges + WarmClaimTtl
    BY <1>1, FieldTypes, ConstantTypes
  <2>2. vm \in [Vms -> Vm] /\ warmClaim \in [Vms -> 0..MaxChanges + WarmClaimTtl]
    BY <1>1 DEF TypeOK
  <2>3. [vm EXCEPT ![launch[a].vm].state = "running", ![launch[a].vm].armed = TRUE] \in [Vms -> Vm]
    BY <2>2 DEF Vm
  <2> QED
    BY <1>1, <1>11, <2>1, <2>2, <2>3, EndTyped
<1>14. TypeOK'
  BY <1>1, <1>2, <1>12, <1>13, FaultTyped DEF TypeOK
<1>15. \A t \in Ticks : TickWork(t)'
  BY <1>2 DEF WorkInv, TickWork
<1> QED
  BY <1>2, <1>12, <1>14, <1>15 DEF WorkInv

LEMMA OtherStepsTyped ==
  ASSUME WorkInv, Deploy \/ PassTime \/ \E v \in Vms : VmStep(v)
  PROVE  WorkInv'
<1>1. TypeOK /\ now \in Nat /\ image \in Nat /\ image > 0
  BY ConstantTypes DEF WorkInv, TypeOK
<1>2. UNCHANGED <<tick, launch, faults>>
  BY DEF Deploy, PassTime, VmStep, VmEnds, JanitorReapsOrphan, ExpireWarmClaim
<1>3. now' \in 0..MaxChanges /\ image' \in 1..MaxChanges + 1 /\ now <= now'
      /\ now' + image' <= MaxChanges + 1
  <2>1. CASE Deploy
    BY <1>1, <2>1, ConstantTypes DEF Deploy, Changing, TypeOK
  <2>2. CASE PassTime
    BY <1>1, <2>2, ConstantTypes DEF PassTime, Changing, TypeOK
  <2>3. CASE \E v \in Vms : VmStep(v)
    <3>1. UNCHANGED <<now, image>>
      BY <2>3 DEF VmStep, VmEnds, JanitorReapsOrphan, ExpireWarmClaim
    <3> QED
      BY <1>1, <3>1 DEF WorkInv, TypeOK
  <2> QED
    BY <2>1, <2>2, <2>3
<1>4. vm' \in [Vms -> Vm] /\ warmClaim' \in [Vms -> 0..MaxChanges + WarmClaimTtl]
  <2>1. 0 \in 0..MaxChanges + WarmClaimTtl
    BY ConstantTypes
  <2>2. \/ UNCHANGED <<vm, warmClaim>>
        \/ \E v \in Vms : EndVm(v) \/ (UNCHANGED vm /\ warmClaim' = [warmClaim EXCEPT ![v] = 0])
    <3>1. CASE Deploy \/ PassTime
      BY <3>1 DEF Deploy, PassTime
    <3>2. ASSUME NEW v \in Vms, VmStep(v)
          PROVE  EndVm(v) \/ (UNCHANGED vm /\ warmClaim' = [warmClaim EXCEPT ![v] = 0])
      <4>1. VmEnds(v) \/ JanitorReapsOrphan(v) => EndVm(v)
        BY Zenon DEF VmEnds, JanitorReapsOrphan
      <4>2. ExpireWarmClaim(v) => UNCHANGED vm /\ warmClaim' = [warmClaim EXCEPT ![v] = 0]
        BY DEF ExpireWarmClaim
      <4> QED
        BY <3>2, <4>1, <4>2 DEF VmStep
    <3> QED
      BY <3>1, <3>2
  <2>3. ASSUME NEW v \in Vms, EndVm(v) \/ (UNCHANGED vm /\ warmClaim' = [warmClaim EXCEPT ![v] = 0])
        PROVE  vm' \in [Vms -> Vm] /\ warmClaim' \in [Vms -> 0..MaxChanges + WarmClaimTtl]
    BY <1>1, <2>1, <2>3, EndTyped DEF TypeOK
  <2> QED
    BY <1>1, <2>2, <2>3 DEF TypeOK
<1>5. spared' \subseteq spared
  BY DEF Deploy, PassTime, VmStep, VmEnds, JanitorReapsOrphan, ExpireWarmClaim
<1>6. TypeOK'
  BY <1>1, <1>2, <1>3, <1>4, <1>5 DEF TypeOK
<1>7. (\A t \in Ticks : TickWork(t)') /\ \A a \in Launches : LaunchWork(a)'
  BY <1>2 DEF WorkInv, TickWork, LaunchWork
<1>8. \A a \in Launches : launch'[a].stamp <= now'
  <2>1. \A a \in Launches : launch[a].stamp \in Int /\ launch[a].stamp <= now
    BY <1>1, FieldTypes, ConstantTypes DEF WorkInv
  <2> QED
    BY <1>1, <1>2, <1>3, <2>1
<1> QED
  BY <1>3, <1>6, <1>7, <1>8 DEF WorkInv

LEMMA WorkInvStep ==
  ASSUME WorkInv, [Next]_vars
  PROVE  WorkInv'
<1>1. ASSUME NEW t \in Ticks, StartTick(t) \/ TickStep(t) \/ Throttled(t) \/ ListFails(t) \/ KillTick(t)
      PROVE  WorkInv'
  BY <1>1, ReadPageTyped, ListStepsTyped, RetireTyped, RunMicrovmTyped, FillStepsTyped DEF TickStep
<1>2. ASSUME NEW a \in Launches, StartLaunch(a) \/ LaunchStep(a) \/ KillLaunch(a)
      PROVE  WorkInv'
  BY <1>2, LaunchStepsTyped DEF LaunchStep
<1>3. CASE UNCHANGED vars
  BY <1>3 DEF vars, WorkInv, TypeOK, TickWork, LaunchWork
<1> QED
  BY <1>1, <1>2, <1>3, OtherStepsTyped DEF Next

THEOREM WorkInvariant == Spec => []WorkInv
  BY WorkInvInit, WorkInvStep, PTL DEF Spec

(***************************************************************************)
(* Every variable keeps its shape (handler, convergeLabel, tryWarmPath):   *)
(* no tick ever wants more VMs than its target or fewer than none, however *)
(* ticks, launches and failures interleave.                                *)
(***************************************************************************)
THEOREM TypeCorrect == Spec => []TypeOK
<1>1. WorkInv => TypeOK
  BY DEF WorkInv
<1> QED
  BY <1>1, WorkInvariant, PTL

-----------------------------------------------------------------------------
(* Condemned VMs.                                                          *)

(***************************************************************************)
(* What a tick has condemned is gone or stays unfit, judged by its own     *)
(* configuration and by any later clock: VMs only age, and an id is not    *)
(* given to a new VM while a tick still refers to it.                      *)
(***************************************************************************)
CondemnedIsUnfit ==
  \A t \in Ticks : \A v \in tick[t].todo :
    At(t, "converge") => vm[v].state = "ended" \/ ~Usable(v, now, tick[t].version)

\* What no step undoes in a VM that a tick has listed.
Ages(v) ==
  \/ vm'[v].state = "ended"
  \/ /\ vm[v].state # "ended"
     /\ vm'[v].born = vm[v].born /\ vm'[v].version = vm[v].version

\* A tick that has condemned VMs condemns no others, and does not look at its configuration again.
Proceeds(t) ==
  At(t, "converge")' =>
    \/ At(t, "converge") /\ tick'[t].todo \subseteq tick[t].todo /\ tick'[t].version = tick[t].version
    \/ tick'[t].todo = {}

LEMMA EndAges ==
  ASSUME TypeOK, NEW u, EndVm(u), NEW v \in Vms
  PROVE  vm'[v].state = "ended" \/ vm'[v] = vm[v]
  BY DEF TypeOK, EndVm, Ended

LEMMA ListedVmsAge ==
  ASSUME WorkInv, [Next]_vars, NEW t \in Ticks, NEW v \in tick[t].todo
  PROVE  Ages(v) \/ vm'[v] = vm[v]
<1>1. TypeOK /\ v \in Vms /\ vm \in [Vms -> Vm]
  BY FieldTypes DEF WorkInv, TypeOK
<1>2. ASSUME NEW u \in Ticks, StartTick(u) \/ TickStep(u) \/ Throttled(u) \/ ListFails(u) \/ KillTick(u)
      PROVE  Ages(v) \/ vm'[v] = vm[v]
  <2>1. CASE StartTick(u) \/ ReadPage(u) \/ EndTick(u) \/ Throttled(u) \/ ListFails(u) \/ KillTick(u)
    BY <2>1 DEF StartTick, ReadPage, EndTick, Throttled, ListFails, KillTick
  <2>2. CASE Retire(u)
    <3>1. UNCHANGED vm \/ EndVm(Min(tick[u].todo))
      BY <2>2 DEF Retire
    <3> QED
      BY <1>1, <3>1, EndAges DEF Ages
  <2>3. CASE RunMicrovm(u)
    <3>1. \/ UNCHANGED vm
          \/ \E w \in Vms : /\ Unused(w)
                            /\ vm' = [vm EXCEPT ![w] = [state |-> "running", born |-> now,
                                                        version |-> image, armed |-> FALSE]]
      BY <2>3 DEF RunMicrovm, FirstUnused
    <3>2. ASSUME NEW w \in Vms, Unused(w) PROVE w # v
      BY <3>2 DEF Unused
    <3> QED
      BY <1>1, <3>1, <3>2
  <2>4. CASE SuspendVm(u)
    <3>1. \/ UNCHANGED vm
          \/ /\ vm[tick[u].vm].state = "running"
             /\ vm' = [vm EXCEPT ![tick[u].vm].state = "suspended"]
      BY <2>4 DEF SuspendVm
    <3> QED
      BY <1>1, <3>1 DEF Ages, Vm
  <2>5. CASE Compensate(u)
    <3>1. UNCHANGED vm \/ EndVm(tick[u].vm)
      BY <2>5 DEF Compensate
    <3> QED
      BY <1>1, <3>1, EndAges DEF Ages
  <2> QED
    BY <1>2, <2>1, <2>2, <2>3, <2>4, <2>5 DEF TickStep
<1>3. ASSUME NEW a \in Launches, StartLaunch(a) \/ LaunchStep(a) \/ KillLaunch(a)
      PROVE  Ages(v) \/ vm'[v] = vm[v]
  <2>1. \/ UNCHANGED vm
        \/ EndVm(launch[a].vm)
        \/ /\ vm[launch[a].vm].state = "suspended"
           /\ vm' = [vm EXCEPT ![launch[a].vm].state = "running", ![launch[a].vm].armed = TRUE]
    BY <1>3 DEF LaunchStep, StartLaunch, ClaimWarmVm, TakeVm, FallBack, KillLaunch, Suspended
  <2>2. ASSUME vm[launch[a].vm].state = "suspended",
               vm' = [vm EXCEPT ![launch[a].vm].state = "running", ![launch[a].vm].armed = TRUE]
        PROVE  Ages(v) \/ vm'[v] = vm[v]
    <3> DEFINE w == launch[a].vm
               f == [vm EXCEPT ![w].state = "running"]
    <3>1. vm' = [f EXCEPT ![w].armed = TRUE]
      BY <2>2
    <3>2. /\ f[v].born = vm[v].born /\ f[v].version = vm[v].version /\ DOMAIN f = Vms
          /\ v # w => f[v] = vm[v]
          /\ f[v] \in Vm
      BY <1>1 DEF Vm
    <3>3. v = w => vm[v].state # "ended"
      BY <2>2
    <3> HIDE DEF f, w
    <3>4. /\ [f[v] EXCEPT !.armed = TRUE].born = f[v].born
          /\ [f[v] EXCEPT !.armed = TRUE].version = f[v].version
      BY <3>2 DEF Vm
    <3>5. v # w => vm'[v] = f[v]
      BY <1>1, <3>1, <3>2
    <3>6. v = w => vm'[v] = [f[v] EXCEPT !.armed = TRUE]
      BY <1>1, <3>1, <3>2
    <3>7. CASE v # w
      BY <3>2, <3>5, <3>7
    <3>8. CASE v = w
      BY <3>2, <3>3, <3>4, <3>6, <3>8 DEF Ages
    <3> QED
      BY <3>7, <3>8
  <2> QED
    BY <1>1, <2>1, <2>2, EndAges DEF Ages
<1>4. CASE Deploy \/ PassTime \/ UNCHANGED vars
  BY <1>4 DEF Deploy, PassTime, vars
<1>5. ASSUME NEW u \in Vms, VmStep(u) PROVE Ages(v) \/ vm'[v] = vm[v]
  <2>1. VmEnds(u) \/ JanitorReapsOrphan(u) => EndVm(u)
    BY Zenon DEF VmEnds, JanitorReapsOrphan
  <2>2. ExpireWarmClaim(u) => UNCHANGED vm
    BY DEF ExpireWarmClaim
  <2> QED
    BY <1>1, <1>5, <2>1, <2>2, EndAges DEF Ages, VmStep
<1> QED
  BY <1>2, <1>3, <1>4, <1>5 DEF Next

LEMMA TicksProceed ==
  ASSUME WorkInv, [Next]_vars, NEW t \in Ticks, ~ReadPage(t)
  PROVE  Proceeds(t)
<1>1. tick \in [Ticks -> Tick] /\ TickWork(t)
  BY DEF WorkInv, TypeOK
<1>2. ASSUME NEW u \in Ticks, StartTick(u) \/ TickStep(u) \/ Throttled(u) \/ ListFails(u) \/ KillTick(u)
      PROVE  Proceeds(t)
  <2>1. CASE u # t
    <3>1. tick'[t] = tick[t]
      BY <1>1, <1>2, <2>1 DEF TickStep, StartTick, ReadPage, Throttled, ListFails, KillTick, EndTick,
         Retire, RunMicrovm, SuspendVm, Compensate, Go, Become
    <3> QED
      BY <3>1 DEF Proceeds, At
  <2>2. CASE u = t /\ (StartTick(t) \/ Throttled(t) \/ ListFails(t) \/ EndTick(t) \/ KillTick(t))
    <3>1. ListFails(t) \/ EndTick(t) \/ KillTick(t) => tick'[t] = Idle
      BY <1>1 DEF ListFails, EndTick, KillTick, Become
    <3>2. StartTick(t) => tick'[t].pc = "list"
      BY <1>1 DEF StartTick, Become, Idle
    <3>3. Throttled(t) => tick'[t] = [tick[t] EXCEPT !.tries = @ + 1] /\ tick[t].pc = "list"
      BY <1>1 DEF Throttled, Become, At
    <3>4. Throttled(t) => tick'[t].pc = "list"
      BY <1>1, <3>3 DEF Tick
    <3>5. Idle.pc # "converge"
      BY DEF Idle
    <3> QED
      BY <2>2, <3>1, <3>2, <3>4, <3>5 DEF Proceeds, At
  <2>3. CASE u = t /\ Retire(t)
    <3>1. /\ tick'[t].todo = tick[t].todo \ {Min(tick[t].todo)}
          /\ tick'[t].version = tick[t].version /\ At(t, "converge")
      BY <1>1, <2>3 DEF Retire, Become, Tick
    <3> QED
      BY <3>1 DEF Proceeds
  <2>4. CASE u = t /\ (RunMicrovm(t) \/ SuspendVm(t) \/ Compensate(t))
    <3>1. tick[t].todo = {}
      BY <1>1, <2>4 DEF RunMicrovm, SuspendVm, Compensate, TickWork, At
    <3>2. tick[t] \in Tick
      BY <1>1
    <3>3. /\ [tick[t] EXCEPT !.want = @ - 1].todo = tick[t].todo
          /\ [tick[t] EXCEPT !.pc = "compensate"].todo = tick[t].todo
          /\ [tick[t] EXCEPT !.pc = "converge", !.want = @ - 1, !.vm = NoVm].todo = tick[t].todo
          /\ \A v : [tick[t] EXCEPT !.pc = "suspend", !.vm = v].todo = tick[t].todo
      BY <3>2 DEF Tick
    <3>4. RunMicrovm(t) => \/ tick'[t] = [tick[t] EXCEPT !.want = @ - 1]
                           \/ \E v : tick'[t] = [tick[t] EXCEPT !.pc = "suspend", !.vm = v]
      BY <1>1 DEF RunMicrovm, Become
    <3>5. SuspendVm(t) => \/ tick'[t] = [tick[t] EXCEPT !.pc = "compensate"]
                          \/ tick'[t] = [tick[t] EXCEPT !.pc = "converge", !.want = @ - 1, !.vm = NoVm]
      BY <1>1 DEF SuspendVm, Go, Become
    <3>6. Compensate(t) => tick'[t] = [tick[t] EXCEPT !.pc = "converge", !.want = @ - 1, !.vm = NoVm]
      BY <1>1 DEF Compensate, Become
    <3>7. tick'[t].todo = tick[t].todo
      BY <2>4, <3>3, <3>4, <3>5, <3>6
    <3> QED
      BY <3>1, <3>7 DEF Proceeds
  <2> QED
    BY <1>2, <2>1, <2>2, <2>3, <2>4 DEF TickStep
<1>3. ASSUME UNCHANGED tick PROVE Proceeds(t)
  BY <1>3 DEF Proceeds, At
<1>4. ASSUME NEW a \in Launches, StartLaunch(a) \/ LaunchStep(a) \/ KillLaunch(a)
      PROVE  UNCHANGED tick
  BY <1>4 DEF LaunchStep, StartLaunch, ClaimWarmVm, TakeVm, FallBack, KillLaunch
<1>5. ASSUME NEW v \in Vms, VmStep(v) PROVE UNCHANGED tick
  BY <1>5 DEF VmStep, VmEnds, JanitorReapsOrphan, ExpireWarmClaim
<1>6. Deploy \/ PassTime \/ UNCHANGED vars => UNCHANGED tick
  BY DEF Deploy, PassTime, vars
<1> QED
  BY <1>2, <1>3, <1>4, <1>5, <1>6 DEF Next

\* The clock does not go back, and a VM that is too old stays so.
LEMMA ClockRuns ==
  ASSUME WorkInv, [Next]_vars
  PROVE  now \in Int /\ now' \in Int /\ now <= now'
<1>1. now \in Int
  BY DEF WorkInv, TypeOK
<1>2. now' = now \/ now' = now + 1
  BY DEF Next, TickStep, StartTick, ReadPage, Throttled, ListFails, KillTick, EndTick, Retire, RunMicrovm,
     SuspendVm, Compensate, LaunchStep, StartLaunch, ClaimWarmVm, TakeVm, FallBack, KillLaunch,
     VmStep, VmEnds, JanitorReapsOrphan, ExpireWarmClaim, Deploy, PassTime, vars
<1> QED
  BY <1>1, <1>2

LEMMA UnfitStaysUnfit ==
  ASSUME WorkInv, [Next]_vars, NEW t \in Ticks, NEW v \in tick[t].todo, NEW c,
         vm[v].state = "ended" \/ ~Usable(v, now, c)
  PROVE  vm'[v].state = "ended" \/ ~Usable(v, now, c)'
<1>0. TypeOK
  BY DEF WorkInv
<1>1. v \in Vms /\ vm[v].born \in Int /\ VmCap \in Int /\ JobNeed \in Int
  <2>1. v \in Vms
    BY <1>0, FieldTypes
  <2> QED
    BY <1>0, <2>1, ConstantTypes DEF TypeOK, Vm
<1>2. CASE vm[v].state = "ended"
  BY <1>2, ListedVmsAge DEF Ages
<1>3. CASE vm[v].state # "ended" /\ ~Usable(v, now, c) /\ vm'[v].state # "ended"
  <2>1. vm'[v].born = vm[v].born /\ vm'[v].version = vm[v].version
    BY <1>3, ListedVmsAge DEF Ages
  <2> QED
    BY <1>1, <1>3, <2>1, ClockRuns DEF Usable, CurrentContent, WarmVmCanServeJob
<1> QED
  BY <1>2, <1>3

LEMMA CondemnedIsUnfitStep ==
  ASSUME WorkInv, CondemnedIsUnfit, [Next]_vars
  PROVE  CondemnedIsUnfit'
<1> SUFFICES ASSUME NEW t \in Ticks, NEW v \in tick'[t].todo, At(t, "converge")'
             PROVE  vm'[v].state = "ended" \/ ~Usable(v, now, tick[t].version)'
  BY DEF CondemnedIsUnfit
<1>1. CASE ~ReadPage(t)
  <2>1. At(t, "converge") /\ v \in tick[t].todo /\ tick'[t].version = tick[t].version
    BY <1>1, TicksProceed DEF Proceeds
  <2>2. vm[v].state = "ended" \/ ~Usable(v, now, tick[t].version)
    BY <2>1 DEF CondemnedIsUnfit
  <2> DEFINE c == tick[t].version
  <2>3. vm'[v].state = "ended" \/ ~(vm'[v].version = c /\ VmCap - (now' - vm'[v].born) >= JobNeed)
    <3> HIDE DEF c
    <3>1. vm[v].state = "ended" \/ ~Usable(v, now, c)
      BY <2>2 DEF c
    <3> QED
      BY <2>1, <3>1, UnfitStaysUnfit DEF Usable, CurrentContent, WarmVmCanServeJob
  <2> QED
    BY <2>1, <2>3 DEF Usable, CurrentContent, WarmVmCanServeJob
<1>2. CASE ReadPage(t)
  <2> DEFINE c == tick[t].version
  <2>1. tick \in [Ticks -> Tick] /\ tick[t].pc = "list" /\ UNCHANGED <<now, vm>>
    BY <1>2 DEF WorkInv, TypeOK, ReadPage, At
  <2>2. PICK found : tick'[t] = Plan(found, c)
    <3>1. PICK found : Become(t, IF tick[t].page = Len(Pages) THEN Plan(found, tick[t].version)
                     ELSE [tick[t] EXCEPT !.todo = found, !.page = @ + 1, !.tries = 1])
      BY <1>2 DEF ReadPage
    <3>2. CASE tick[t].page = Len(Pages)
      BY <2>1, <3>1, <3>2 DEF Become
    <3>3. CASE tick[t].page # Len(Pages)
      <4>1. tick'[t].pc = "list"
        BY <2>1, <3>1, <3>3 DEF Become, Tick
      <4> QED
        BY <4>1 DEF At
    <3> QED
      BY <3>2, <3>3
  <2>3. tick'[t].todo = found \ UsableAmong(found, c) /\ tick'[t].version = c
    BY <2>2, PlanFields
  <2> HIDE DEF c
  <2>4. ~Usable(v, now, c)
    BY <2>3 DEF UsableAmong
  <2> QED
    BY <2>1, <2>3, <2>4 DEF Usable, CurrentContent, WarmVmCanServeJob
<1> QED
  BY <1>1, <1>2

THEOREM CondemnedStayUnfit == Spec => []CondemnedIsUnfit
<1>1. Init => CondemnedIsUnfit
  BY DEF Init, CondemnedIsUnfit, At, Idle
<1> QED
  BY <1>1, CondemnedIsUnfitStep, WorkInvariant, PTL DEF Spec

(***************************************************************************)
(* A launch takes a VM that a tick has condemned only when the two read    *)
(* their clock or their configuration at different times (convergeLabel,   *)
(* tryWarmPath): neither asks the other, and any number of ticks, launches *)
(* and deployments may interleave.                                         *)
(***************************************************************************)
THEOREM LaunchesShunTheCondemned == Spec => LaunchShunsTheCondemned
<1> DEFINE Shuns(a, t) ==
      launch[a].pc = "claim" /\ launch'[a].vm \in Vms /\ At(t, "converge")
        /\ launch'[a].vm \in tick[t].todo
        => launch[a].version # tick[t].version \/ launch[a].stamp < now
<1>1. ASSUME WorkInv, CondemnedIsUnfit, [Next]_vars, NEW a \in Launches, NEW t \in Ticks
      PROVE  Shuns(a, t)
  <2> SUFFICES ASSUME launch[a].pc = "claim", launch'[a].vm \in Vms, At(t, "converge"),
                      launch'[a].vm \in tick[t].todo, launch[a].version = tick[t].version
               PROVE  launch[a].stamp < now
    OBVIOUS
  <2> DEFINE v == launch'[a].vm
  <2>0. /\ launch \in [Launches -> Launch] /\ now \in Int
        /\ LaunchWork(a) /\ launch[a].stamp <= now
    BY <1>1 DEF WorkInv, TypeOK
  <2>1. launch \in [Launches -> Launch] /\ launch[a].vm = NoVm /\ NoVm \notin Vms
        /\ launch[a].stamp \in Int /\ now \in Int /\ launch[a].stamp <= now
    BY <2>0, ConstantTypes DEF LaunchWork, Launch
  <2>2. ClaimWarmVm(a)
    <3>1. launch'[a].vm # launch[a].vm
      BY <2>1
    <3>2. ASSUME NEW b \in Launches, StartLaunch(b) \/ LaunchStep(b) \/ KillLaunch(b), b # a
          PROVE  FALSE
      BY <2>1, <3>1, <3>2 DEF LaunchStep, StartLaunch, ClaimWarmVm, TakeVm, FallBack, KillLaunch, LaunchOver
    <3>3. launch[a].pc = "claim" => ~StartLaunch(a) /\ ~TakeVm(a) /\ ~FallBack(a)
      BY DEF StartLaunch, TakeVm, FallBack
    <3>4. ~KillLaunch(a)
      BY <2>1, <3>1 DEF KillLaunch, LaunchOver, NotLaunching
    <3>5. UNCHANGED launch => FALSE
      BY <3>1
    <3>6. ASSUME NEW u \in Ticks, StartTick(u) \/ TickStep(u) \/ Throttled(u) \/ ListFails(u) \/ KillTick(u)
          PROVE  UNCHANGED launch
      BY <3>6 DEF TickStep, StartTick, ReadPage, Throttled, ListFails, KillTick, EndTick, Retire, RunMicrovm,
         SuspendVm, Compensate
    <3>7. ASSUME NEW u \in Vms, VmStep(u) PROVE UNCHANGED launch
      BY <3>7 DEF VmStep, VmEnds, JanitorReapsOrphan, ExpireWarmClaim
    <3>8. Deploy \/ PassTime \/ UNCHANGED vars => UNCHANGED launch
      BY DEF Deploy, PassTime, vars
    <3>9. ~UNCHANGED launch
      BY <3>5
    <3>10. \E b \in Launches : StartLaunch(b) \/ LaunchStep(b) \/ KillLaunch(b)
      BY <1>1, <3>9, <3>6, <3>7, <3>8 DEF Next
    <3>11. StartLaunch(a) \/ LaunchStep(a) \/ KillLaunch(a)
      BY <3>2, <3>10
    <3> QED
      BY <3>3, <3>4, <3>11 DEF LaunchStep
  <2> DEFINE free == {x \in Vms : /\ Suspended(x) /\ Usable(x, launch[a].stamp, launch[a].version)
                                  /\ ClaimAbsent(x)}
  <2>3. free # {} /\ v = Min(free)
    <3>1. \/ free # {} /\ launch' = [launch EXCEPT ![a] = [NotLaunching EXCEPT !.pc = "resume", !.vm = Min(free)]]
          \/ LaunchOver(a)
      BY <2>2 DEF ClaimWarmVm
    <3>2. ~LaunchOver(a)
      BY <2>1 DEF LaunchOver, NotLaunching
    <3> HIDE DEF free
    <3> QED
      BY <2>1, <3>1, <3>2 DEF NotLaunching
  <2>4. v \in free
    BY <2>3, ConstantTypes, MinIsMember
  <2>5. vm[v].state # "ended" /\ Usable(v, launch[a].stamp, launch[a].version)
    BY <2>4 DEF Suspended
  <2>6. ~Usable(v, now, launch[a].version)
    <3>1. v \in tick[t].todo /\ At(t, "converge") /\ launch[a].version = tick[t].version
      OBVIOUS
    <3> HIDE DEF v
    <3>2. vm[v].state = "ended" \/ ~Usable(v, now, tick[t].version)
      BY <1>1, <3>1 DEF CondemnedIsUnfit
    <3> QED
      BY <2>5, <3>1, <3>2
  <2> QED
    BY <2>1, <2>5, <2>6 DEF Usable
<1>2. WorkInv /\ CondemnedIsUnfit /\ [Next]_vars
        => [\A a \in Launches, t \in Ticks : Shuns(a, t)]_vars
  BY <1>1
<1> HIDE DEF Shuns
<1>3. Spec => [][\A a \in Launches, t \in Ticks : Shuns(a, t)]_vars
  BY <1>2, WorkInvariant, CondemnedStayUnfit, PTL DEF Spec
<1> QED
  BY <1>3 DEF LaunchShunsTheCondemned, Shuns


-----------------------------------------------------------------------------
(* The bound on the pool.                                                  *)

\* What a tick has read of the listing, and the ticks that are reading.
Read(t) == UNION {Pages[i] : i \in 1..(tick[t].page - 1)}
Listing == {t \in Ticks : At(t, "list")}

\* Of the stock, what all these ticks have missed: it came after they read its page.
MissedBy(S) == {v \in Stock : \A t \in S : v \in Read(t) /\ v \notin tick[t].todo}

(***************************************************************************)
(* PoolIsBounded is not inductive: it does not see that a tick about to    *)
(* count the pool will add at most what its count leaves of the target.    *)
(* A tick that is still listing has missed some VMs, and those, together   *)
(* with the slots, leave room for its whole target; so they do for every   *)
(* set of ticks that are listing at once.                                  *)
(***************************************************************************)
RoomFor(S) ==
  Cardinality(MissedBy(S)) + Cardinality(Slots) <= Target * (Cardinality(Ticks) - Cardinality(S))
RoomForListings == \A S \in SUBSET Listing : RoomFor(S)

LEMMA Counted ==
  ASSUME NEW A \in SUBSET Vms, NEW B \in SUBSET (Ticks \X (1..Target))
  PROVE  /\ IsFiniteSet(A) /\ Cardinality(A) \in Nat
         /\ IsFiniteSet(B) /\ Cardinality(B) \in Nat
<1>1. IsFiniteSet(A) /\ Cardinality(A) \in Nat
  BY ConstantTypes, FS_Subset, FS_CardinalityType
<1>2. IsFiniteSet(1..Target)
  BY ConstantTypes, FS_Interval
<1>3. IsFiniteSet(Ticks \X (1..Target))
  BY <1>2, ConstantTypes, FS_Product
<1> QED
  BY <1>1, <1>3, FS_Subset, FS_CardinalityType

LEMMA RoomTyped ==
  /\ \A S : MissedBy(S) \subseteq Vms /\ MissedBy(S)' \subseteq Vms
  /\ Slots \subseteq Ticks \X (1..Target) /\ Slots' \subseteq Ticks \X (1..Target)
  /\ \A S \in SUBSET Ticks : IsFiniteSet(S) /\ Cardinality(S) \in Nat
  /\ Cardinality(Ticks) \in Nat /\ Target \in Nat
<1>1. \A S : MissedBy(S) \subseteq Vms /\ MissedBy(S)' \subseteq Vms
  BY DEF MissedBy, Stock
<1>2. Slots \subseteq Ticks \X (1..Target) /\ Slots' \subseteq Ticks \X (1..Target)
  BY DEF Slots
<1>3. \A S \in SUBSET Ticks : IsFiniteSet(S) /\ Cardinality(S) \in Nat
  BY ConstantTypes, FS_Subset, FS_CardinalityType
<1> QED
  BY <1>1, <1>2, <1>3, ConstantTypes

LEMMA RoomKept ==
  ASSUME NEW S \in SUBSET Ticks, RoomFor(S), MissedBy(S)' \subseteq MissedBy(S), Slots' \subseteq Slots
  PROVE  RoomFor(S)'
<1> DEFINE A == MissedBy(S)   B == Slots   A1 == MissedBy(S)'   B1 == Slots'
           r == Target * (Cardinality(Ticks) - Cardinality(S))
<1>1. /\ IsFiniteSet(A) /\ IsFiniteSet(B) /\ Cardinality(A) \in Nat /\ Cardinality(B) \in Nat
      /\ Cardinality(A1) \in Nat /\ Cardinality(B1) \in Nat
  BY RoomTyped, Counted
<1>2. Cardinality(A1) <= Cardinality(A) /\ Cardinality(B1) <= Cardinality(B)
  BY <1>1, FS_Subset
<1>3. r \in Int
  <2>1. Cardinality(Ticks) \in Int /\ Cardinality(S) \in Int /\ Target \in Int
    BY RoomTyped
  <2> QED
    BY <2>1
<1>4. Cardinality(A) + Cardinality(B) <= r
  BY DEF RoomFor
<1>5. Cardinality(A1) + Cardinality(B1) <= r
  <2> HIDE DEF A, B, A1, B1, r
  <2> QED
    BY <1>1, <1>2, <1>3, <1>4
<1> QED
  BY <1>5 DEF RoomFor

\* A VM takes the place of a slot.
LEMMA RoomKeptBySwap ==
  ASSUME NEW S \in SUBSET Ticks, RoomFor(S), NEW v, NEW s \in Slots,
         MissedBy(S)' \subseteq MissedBy(S) \cup {v}, Slots' \subseteq Slots \ {s}
  PROVE  RoomFor(S)'
<1> DEFINE A == MissedBy(S)   B == Slots   A1 == MissedBy(S)'   B1 == Slots'
           r == Target * (Cardinality(Ticks) - Cardinality(S))
<1>1. /\ IsFiniteSet(A) /\ IsFiniteSet(B) /\ Cardinality(A) \in Nat /\ Cardinality(B) \in Nat
      /\ Cardinality(A1) \in Nat /\ Cardinality(B1) \in Nat
  BY RoomTyped, Counted
<1>2. Cardinality(A1) <= Cardinality(A) + 1
  <2>0. /\ IsFiniteSet(A \cup {v})
        /\ Cardinality(A \cup {v}) = IF v \in A THEN Cardinality(A) ELSE Cardinality(A) + 1
    BY <1>1, FS_AddElement
  <2>1. IsFiniteSet(A \cup {v}) /\ Cardinality(A \cup {v}) <= Cardinality(A) + 1
    <3> HIDE DEF A
    <3> QED
      BY <1>1, <2>0
  <2>2. Cardinality(A1) <= Cardinality(A \cup {v})
    BY <2>1, FS_Subset
  <2>3. Cardinality(A \cup {v}) \in Nat
    BY <2>1, FS_CardinalityType
  <2> HIDE DEF A, A1
  <2> QED
    BY <1>1, <2>1, <2>2, <2>3
<1>3. Cardinality(B1) <= Cardinality(B) - 1
  <2>1. IsFiniteSet(B \ {s}) /\ Cardinality(B \ {s}) = Cardinality(B) - 1
    BY <1>1, FS_RemoveElement
  <2>2. Cardinality(B1) <= Cardinality(B \ {s})
    BY <2>1, FS_Subset
  <2> QED
    BY <2>1, <2>2
<1>4. r \in Int
  <2>1. Cardinality(Ticks) \in Int /\ Cardinality(S) \in Int /\ Target \in Int
    BY RoomTyped
  <2> QED
    BY <2>1
<1>5. Cardinality(A) + Cardinality(B) <= r
  BY DEF RoomFor
<1>6. Cardinality(A1) + Cardinality(B1) <= r
  <2> HIDE DEF A, B, A1, B1, r
  <2> QED
    BY <1>1, <1>2, <1>3, <1>4, <1>5
<1> QED
  BY <1>6 DEF RoomFor

-----------------------------------------------------------------------------
\* A tick that is listing was listing, and has read nothing since.
StillReads(t) ==
  At(t, "list")' => At(t, "list") /\ tick'[t].page = tick[t].page /\ tick'[t].todo = tick[t].todo

\* No slot opens, and no tick begins or continues its listing.
Settles == \A t \in Ticks : tick'[t].want <= tick[t].want /\ StillReads(t)

LEMMA SettledListings ==
  ASSUME Settles, NEW S \in SUBSET Listing', NEW X, Stock' \subseteq Stock \cup X
  PROVE  S \in SUBSET Listing /\ S \in SUBSET Ticks /\ MissedBy(S)' \subseteq MissedBy(S) \cup X
<1>1. \A t \in S : t \in Ticks /\ At(t, "list")'
  BY DEF Listing
<1>2. \A t \in S : At(t, "list") /\ tick'[t].page = tick[t].page /\ tick'[t].todo = tick[t].todo
  BY <1>1 DEF Settles, StillReads
<1>3. \A t \in S : Read(t)' = Read(t)
  BY <1>2 DEF Read
<1>4. S \in SUBSET Listing /\ S \in SUBSET Ticks
  BY <1>1, <1>2 DEF Listing
<1>5. ASSUME NEW v \in MissedBy(S)', v \notin X PROVE v \in MissedBy(S)
  <2>1. v \in Stock /\ \A t \in S : v \in Read(t)' /\ v \notin tick'[t].todo
    BY <1>5 DEF MissedBy
  <2> QED
    BY <1>2, <1>3, <2>1 DEF MissedBy
<1>6. \A v \in MissedBy(S)' : v \in MissedBy(S) \/ v \in X
  BY <1>5
<1>7. MissedBy(S)' \subseteq MissedBy(S) \cup X
  BY <1>6
<1> QED
  BY <1>4, <1>7

LEMMA SettledSlots ==
  ASSUME WorkInv, WorkInv', Settles
  PROVE  Slots' \subseteq Slots
<1>1. \A t \in Ticks : tick[t].want \in Int /\ tick'[t].want \in Int
  <2>1. tick \in [Ticks -> Tick] /\ tick' \in [Ticks -> Tick]
    BY DEF WorkInv, TypeOK
  <2>2. \A r \in Tick : r.want \in Int
    BY ConstantTypes DEF Tick
  <2> QED
    BY <2>1, <2>2
<1> QED
  BY <1>1 DEF Settles, Slots

LEMMA EasedKeepsRoom ==
  ASSUME WorkInv, WorkInv', RoomForListings, Settles, Stock' \subseteq Stock
  PROVE  RoomForListings'
<1> SUFFICES ASSUME NEW S \in SUBSET Listing' PROVE RoomFor(S)'
  BY DEF RoomForListings
<1>1. S \in SUBSET Listing /\ S \in SUBSET Ticks /\ MissedBy(S)' \subseteq MissedBy(S) \cup {}
  BY SettledListings
<1> QED
  BY <1>1, SettledSlots, RoomKept DEF RoomForListings

LEMMA FilledKeepsRoom ==
  ASSUME WorkInv, WorkInv', RoomForListings, Settles, NEW u \in Ticks, NEW v,
         tick'[u].want < tick[u].want, Stock' \subseteq Stock \cup {v}
  PROVE  RoomForListings'
<1> SUFFICES ASSUME NEW S \in SUBSET Listing' PROVE RoomFor(S)'
  BY DEF RoomForListings
<1>1. S \in SUBSET Listing /\ S \in SUBSET Ticks /\ MissedBy(S)' \subseteq MissedBy(S) \cup {v}
  BY SettledListings
<1> DEFINE s == <<u, tick[u].want>>
<1>2. tick[u].want \in 1..Target /\ tick'[u].want \in Int
  <2>1. tick \in [Ticks -> Tick] /\ tick' \in [Ticks -> Tick]
    BY DEF WorkInv, TypeOK
  <2>2. \A r \in Tick : r.want \in 0..Target
    BY DEF Tick
  <2> QED
    BY <2>1, <2>2, ConstantTypes
<1>3. s \in Slots
  BY <1>2 DEF Slots
<1>4. s \notin Slots'
  BY <1>2 DEF Slots
<1> QED
  BY <1>1, <1>3, <1>4, SettledSlots, RoomKeptBySwap DEF RoomForListings

\* What keeps a VM out of the stock keeps it out, save for the VMs of X.
LEMMA StockKept ==
  ASSUME NEW X,
         \A w \in Vms \ X : Suspended(w)' => Suspended(w) /\ (w \in spared => w \in spared'),
         \A t \in Ticks : \A w \in Vms \ X :
           Suspended(w)' /\ w \notin spared' =>
             /\ At(t, "converge") /\ w \in tick[t].todo => At(t, "converge")' /\ w \in tick'[t].todo
             /\ tick[t].vm = w => tick'[t].vm = w
  PROVE  Stock' \subseteq Stock \cup X
<1> SUFFICES ASSUME NEW w \in Stock', w \notin X PROVE w \in Stock
  OBVIOUS
<1>1. w \in Vms /\ Suspended(w)' /\ w \notin spared' /\ ~Condemned(w)' /\ \A t \in Ticks : tick'[t].vm # w
  BY DEF Stock
<1>2. Suspended(w) /\ w \notin spared
  BY <1>1
<1>3. ~Condemned(w)
  BY <1>1 DEF Condemned
<1>4. \A t \in Ticks : tick[t].vm # w
  BY <1>1
<1> QED
  BY <1>1, <1>2, <1>3, <1>4 DEF Stock

\* Ending a VM, wherever it was.
LEMMA EndKeepsStock ==
  ASSUME TypeOK, NEW v, EndVm(v), UNCHANGED tick, spared' = spared \/ spared' = spared \ {v}
  PROVE  Stock' \subseteq Stock
<1>1. \A w \in Vms : w # v => vm'[w] = vm[w]
  BY DEF EndVm, TypeOK
<1>2. v \in Vms => ~Suspended(v)'
  BY DEF EndVm, TypeOK, Ended, Suspended
<1>3. \A w \in Vms \ {} : Suspended(w)' => Suspended(w) /\ (w \in spared => w \in spared')
  BY <1>1, <1>2 DEF Suspended
<1>4. \A t \in Ticks : \A w \in Vms \ {} :
        Suspended(w)' /\ w \notin spared' =>
          /\ At(t, "converge") /\ w \in tick[t].todo => At(t, "converge")' /\ w \in tick'[t].todo
          /\ tick[t].vm = w => tick'[t].vm = w
  BY DEF At
<1>5. Stock' \subseteq Stock \cup {}
  BY <1>3, <1>4, StockKept
<1> QED
  BY <1>5

-----------------------------------------------------------------------------
(* The ticks' steps: each settles the listings, and either keeps the stock *)
(* as it was or gives it the VM of the slot that it closes.                *)

\* A step of one tick.
Only(t) == \A u \in Ticks \ {t} : tick'[u] = tick[u]

LEMMA OnlyOne ==
  ASSUME WorkInv, NEW t \in Ticks, NEW r, tick' = [tick EXCEPT ![t] = r]
  PROVE  tick'[t] = r /\ Only(t)
  BY DEF WorkInv, TypeOK, Only

LEMMA SettledBy ==
  ASSUME WorkInv, NEW t \in Ticks, Only(t), tick'[t].want <= tick[t].want, StillReads(t)
  PROVE  Settles
<1>1. \A u \in Ticks : tick[u].want \in Int
  BY FieldTypes, ConstantTypes DEF WorkInv
<1>2. ASSUME NEW u \in Ticks \ {t} PROVE tick'[u].want <= tick[u].want /\ StillReads(u)
  BY <1>1 DEF StillReads, At, Only
<1> QED
  BY <1>2 DEF Settles

LEMMA StockKeptBy ==
  ASSUME NEW X, NEW t \in Ticks, Only(t),
         \A w \in Vms \ X : Suspended(w)' => Suspended(w) /\ (w \in spared => w \in spared'),
         \A w \in Vms \ X : Suspended(w)' /\ w \notin spared' =>
           /\ At(t, "converge") /\ w \in tick[t].todo => At(t, "converge")' /\ w \in tick'[t].todo
           /\ tick[t].vm = w => tick'[t].vm = w
  PROVE  Stock' \subseteq Stock \cup X
<1>1. ASSUME NEW u \in Ticks, NEW w \in Vms \ X, Suspended(w)', w \notin spared'
      PROVE  /\ At(u, "converge") /\ w \in tick[u].todo => At(u, "converge")' /\ w \in tick'[u].todo
             /\ tick[u].vm = w => tick'[u].vm = w
  <2>1. CASE u = t
    BY <1>1, <2>1
  <2>2. CASE u # t
    BY <2>2 DEF At, Only
  <2> QED
    BY <2>1, <2>2
<1> QED
  BY <1>1, StockKept

LEMMA RetireKeepsRoom ==
  ASSUME WorkInv, WorkInv', RoomForListings, NEW t \in Ticks, Retire(t)
  PROVE  RoomForListings'
<1>1. /\ TypeOK /\ TickWork(t) /\ tick[t] \in Tick /\ tick[t].want \in Int /\ At(t, "converge")
      /\ tick[t].todo \subseteq Vms /\ tick[t].todo # {}
  BY FieldTypes, ConstantTypes DEF WorkInv, Retire
<1>2. PICK v \in Vms : v = Min(tick[t].todo)
  BY <1>1, ConstantTypes, MinIsMember
<1>3. tick'[t] = [tick[t] EXCEPT !.todo = @ \ {v}] /\ Only(t)
  <2>1. tick' = [tick EXCEPT ![t] = [tick[t] EXCEPT !.todo = @ \ {v}]]
    BY <1>2 DEF Retire, Become
  <2> QED
    BY <2>1, OnlyOne
<1>4. /\ tick'[t].pc = "converge" /\ tick'[t].todo = tick[t].todo \ {v}
      /\ tick'[t].want = tick[t].want /\ tick'[t].vm = tick[t].vm
  BY <1>1, <1>3 DEF Tick, At
<1>5. \/ EndVm(v) /\ spared' = spared \ {v}
      \/ UNCHANGED vm /\ spared' = spared \cup {v}
  BY <1>2 DEF Retire
<1>6. \A w \in Vms : Suspended(w)' => Suspended(w) /\ (w \in spared => w \in spared')
                                      /\ (w = v => w \in spared')
  <2>1. CASE EndVm(v) /\ spared' = spared \ {v}
    <3>1. ~Suspended(v)' /\ \A w \in Vms \ {v} : vm'[w] = vm[w]
      BY <1>1, <2>1 DEF EndVm, TypeOK, Ended, Suspended
    <3> QED
      BY <2>1, <3>1 DEF Suspended
  <2>2. CASE UNCHANGED vm /\ spared' = spared \cup {v}
    BY <2>2 DEF Suspended
  <2> QED
    BY <1>5, <2>1, <2>2
<1>7. Stock' \subseteq Stock \cup {}
  <2>1. \A w \in Vms \ {} : Suspended(w)' /\ w \notin spared' =>
          /\ At(t, "converge") /\ w \in tick[t].todo => At(t, "converge")' /\ w \in tick'[t].todo
          /\ tick[t].vm = w => tick'[t].vm = w
    BY <1>4, <1>6 DEF At
  <2> QED
    BY <1>3, <1>6, <2>1, StockKeptBy
<1>8. Settles
  <2>1. StillReads(t)
    BY <1>4 DEF StillReads, At
  <2>2. tick'[t].want <= tick[t].want
    BY <1>1, <1>4
  <2> QED
    BY <1>3, <2>1, <2>2, SettledBy
<1> QED
  BY <1>7, <1>8, EasedKeepsRoom

LEMMA ListStepsKeepRoom ==
  ASSUME WorkInv, WorkInv', RoomForListings, NEW t \in Ticks,
         Throttled(t) \/ ListFails(t) \/ EndTick(t) \/ KillTick(t)
  PROVE  RoomForListings'
<1>1. /\ TypeOK /\ TickWork(t) /\ tick[t] \in Tick /\ tick[t].want \in Int /\ tick[t].want >= 0
      /\ tick[t].todo \subseteq Vms /\ NoVm \notin Vms
  BY FieldTypes, ConstantTypes DEF WorkInv
<1>2. UNCHANGED vm
  BY DEF Throttled, ListFails, EndTick, KillTick
<1>3. CASE Throttled(t)
  <2>1. tick'[t] = [tick[t] EXCEPT !.tries = @ + 1] /\ Only(t) /\ UNCHANGED spared /\ At(t, "list")
    <3>1. tick' = [tick EXCEPT ![t] = [tick[t] EXCEPT !.tries = @ + 1]]
      BY <1>3 DEF Throttled, Become
    <3> QED
      BY <1>3, <3>1, OnlyOne DEF Throttled
  <2>2. /\ tick'[t].todo = tick[t].todo /\ tick'[t].want = tick[t].want /\ tick'[t].vm = tick[t].vm
        /\ tick'[t].page = tick[t].page
    BY <1>1, <2>1 DEF Tick
  <2>3. Settles
    <3>1. StillReads(t)
      BY <2>1, <2>2 DEF StillReads
    <3>2. tick'[t].want <= tick[t].want
      BY <1>1, <2>2
    <3> QED
      BY <2>1, <3>1, <3>2, SettledBy
  <2>4. \A w \in Vms \ {} : Suspended(w)' => Suspended(w) /\ (w \in spared => w \in spared')
    BY <1>2, <2>1 DEF Suspended
  <2>5. ~At(t, "converge")
    BY <2>1 DEF At
  <2>6. Stock' \subseteq Stock \cup {}
    BY <2>1, <2>2, <2>4, <2>5, StockKeptBy
  <2> QED
    BY <2>3, <2>6, EasedKeepsRoom
<1>4. CASE ListFails(t) \/ EndTick(t) \/ KillTick(t)
  <2>1. tick'[t] = Idle /\ Only(t)
    <3>1. tick' = [tick EXCEPT ![t] = Idle]
      BY <1>4 DEF ListFails, EndTick, KillTick, Become
    <3> QED
      BY <3>1, OnlyOne
  <2>2. Settles
    <3>1. StillReads(t)
      BY <2>1, IdleTyped DEF StillReads, At
    <3> QED
      BY <1>1, <2>1, <3>1, IdleTyped, SettledBy
  <2>3. spared \subseteq spared'
    BY <1>4 DEF ListFails, EndTick, KillTick
  <2>4. \A w \in tick[t].todo : At(t, "converge") /\ Suspended(w) => w \in spared'
    BY <1>4 DEF ListFails, EndTick, KillTick, At
  <2>5. \A w \in Vms : Suspended(w)' => Suspended(w) /\ (w \in spared => w \in spared')
    BY <1>2, <2>3 DEF Suspended
  <2>6. CASE tick[t].pc \notin {"suspend", "compensate"}
    <3>1. tick[t].vm = NoVm
      BY <1>1, <2>6 DEF TickWork
    <3>2. \A w \in Vms \ {} : Suspended(w)' /\ w \notin spared' =>
            /\ At(t, "converge") /\ w \in tick[t].todo => At(t, "converge")' /\ w \in tick'[t].todo
            /\ tick[t].vm = w => tick'[t].vm = w
      BY <1>1, <2>4, <2>5, <3>1
    <3>3. Stock' \subseteq Stock \cup {}
      BY <2>1, <2>5, <3>2, StockKeptBy
    <3> QED
      BY <2>2, <3>3, EasedKeepsRoom
  <2>7. CASE tick[t].pc \in {"suspend", "compensate"}
    <3>1. PICK v : v = tick[t].vm
      OBVIOUS
    <3>2. ~At(t, "converge") /\ tick[t].want > 0
      BY <1>1, <2>7 DEF TickWork, At
    <3>3. \A w \in Vms \ {v} : Suspended(w)' /\ w \notin spared' =>
            /\ At(t, "converge") /\ w \in tick[t].todo => At(t, "converge")' /\ w \in tick'[t].todo
            /\ tick[t].vm = w => tick'[t].vm = w
      BY <3>1, <3>2
    <3>4. Stock' \subseteq Stock \cup {v}
      BY <2>1, <2>5, <3>3, StockKeptBy
    <3>5. tick'[t].want < tick[t].want
      BY <1>1, <2>1, <3>2, IdleTyped
    <3> QED
      BY <2>2, <3>4, <3>5, FilledKeepsRoom
  <2> QED
    BY <2>6, <2>7
<1> QED
  BY <1>3, <1>4

LEMMA RunMicrovmKeepsRoom ==
  ASSUME WorkInv, WorkInv', RoomForListings, NEW t \in Ticks, RunMicrovm(t)
  PROVE  RoomForListings'
<1>1. TypeOK /\ TickWork(t) /\ tick[t] \in Tick /\ tick[t].want \in Int /\ NoVm \notin Vms
  BY FieldTypes, ConstantTypes DEF WorkInv
<1>2. tick[t].vm = NoVm /\ tick[t].todo = {}
  BY <1>1 DEF TickWork, At, RunMicrovm
<1>3. Only(t) /\ tick'[t].pc # "list" /\ tick'[t].want <= tick[t].want
  <2> DEFINE less == [tick[t] EXCEPT !.want = @ - 1]
             filling(v) == [tick[t] EXCEPT !.pc = "suspend", !.vm = v]
  <2>1. \/ tick' = [tick EXCEPT ![t] = less]
        \/ \E v \in Vms : tick' = [tick EXCEPT ![t] = filling(v)]
    BY Zenon DEF RunMicrovm, Become
  <2>2. less.pc = "converge" /\ less.want = tick[t].want - 1
    BY <1>1 DEF Tick, At, RunMicrovm
  <2>3. \A v \in Vms : filling(v).pc = "suspend" /\ filling(v).want = tick[t].want
    BY <1>1 DEF Tick
  <2> HIDE DEF less, filling
  <2>4. CASE tick' = [tick EXCEPT ![t] = less]
    <3>1. tick'[t] = less /\ Only(t)
      BY <2>4, OnlyOne
    <3> QED
      BY <1>1, <2>2, <3>1
  <2>5. ASSUME NEW v \in Vms, tick' = [tick EXCEPT ![t] = filling(v)]
        PROVE  Only(t) /\ tick'[t].pc # "list" /\ tick'[t].want <= tick[t].want
    <3>1. tick'[t] = filling(v) /\ Only(t)
      BY <2>5, OnlyOne
    <3> QED
      BY <1>1, <2>3, <3>1
  <2> QED
    BY <2>1, <2>4, <2>5
<1>4. \/ UNCHANGED <<vm, spared>>
      \/ \E v \in Vms :
           /\ vm' = [vm EXCEPT ![v] = [state |-> "running", born |-> now,
                                       version |-> image, armed |-> FALSE]]
           /\ spared' = spared \ {v}
  BY DEF RunMicrovm
<1>5. \A w \in Vms \ {} : Suspended(w)' => Suspended(w) /\ (w \in spared => w \in spared')
  <2>1. CASE UNCHANGED <<vm, spared>>
    BY <2>1 DEF Suspended
  <2>2. ASSUME NEW v \in Vms, spared' = spared \ {v},
               vm' = [vm EXCEPT ![v] = [state |-> "running", born |-> now,
                                        version |-> image, armed |-> FALSE]]
        PROVE  \A w \in Vms : Suspended(w)' => Suspended(w) /\ (w \in spared => w \in spared')
    <3>1. vm'[v].state = "running" /\ \A w \in Vms \ {v} : vm'[w] = vm[w]
      BY <1>1, <2>2 DEF TypeOK
    <3> QED
      BY <2>2, <3>1 DEF Suspended
  <2> QED
    BY <1>4, <2>1, <2>2
<1>6. \A w \in Vms \ {} : Suspended(w)' /\ w \notin spared' =>
        /\ At(t, "converge") /\ w \in tick[t].todo => At(t, "converge")' /\ w \in tick'[t].todo
        /\ tick[t].vm = w => tick'[t].vm = w
  BY <1>1, <1>2
<1>7. Stock' \subseteq Stock \cup {}
  BY <1>3, <1>5, <1>6, StockKeptBy
<1>8. StillReads(t)
  BY <1>3 DEF StillReads, At
<1>9. Settles
  BY <1>3, <1>8, SettledBy
<1> QED
  BY <1>7, <1>9, EasedKeepsRoom

LEMMA FillStepsKeepRoom ==
  ASSUME WorkInv, WorkInv', RoomForListings, NEW t \in Ticks, SuspendVm(t) \/ Compensate(t)
  PROVE  RoomForListings'
<1>1. /\ TypeOK /\ TickWork(t) /\ tick[t] \in Tick /\ tick[t].want \in Int
      /\ tick[t].pc \in {"suspend", "compensate"}
  BY FieldTypes, ConstantTypes DEF WorkInv, SuspendVm, Compensate, At
<1>2. PICK v \in Vms : v = tick[t].vm
  BY <1>1 DEF TickWork
<1>3. tick[t].todo = {}
  BY <1>1 DEF TickWork
<1>4. /\ Only(t)
      /\ \/ tick'[t] = [tick[t] EXCEPT !.pc = "converge", !.want = @ - 1, !.vm = NoVm]
         \/ tick'[t] = [tick[t] EXCEPT !.pc = "compensate"]
  <2> DEFINE next == [tick[t] EXCEPT !.pc = "converge", !.want = @ - 1, !.vm = NoVm]
             failed == [tick[t] EXCEPT !.pc = "compensate"]
  <2>1. tick' = [tick EXCEPT ![t] = next] \/ tick' = [tick EXCEPT ![t] = failed]
    BY DEF SuspendVm, Compensate, Go, Become
  <2> HIDE DEF next, failed
  <2>2. (tick'[t] = next \/ tick'[t] = failed) /\ Only(t)
    BY <2>1, OnlyOne
  <2> QED
    BY <2>2 DEF next, failed
<1>5. \/ tick'[t].pc = "converge" /\ tick'[t].want = tick[t].want - 1 /\ tick'[t].vm = NoVm
      \/ tick'[t].pc = "compensate" /\ tick'[t].want = tick[t].want /\ tick'[t].vm = v
  BY <1>1, <1>2, <1>4 DEF Tick
<1>6. \/ EndVm(v)
      \/ UNCHANGED vm
      \/ vm' = [vm EXCEPT ![v].state = "suspended"]
  BY <1>2 DEF SuspendVm, Compensate
<1>7. spared' = spared \/ spared' = spared \cup {v}
  BY <1>2 DEF SuspendVm, Compensate
<1>8. \A w \in Vms \ {v} : Suspended(w)' => Suspended(w) /\ (w \in spared => w \in spared')
  <2>1. \A w \in Vms \ {v} : vm'[w] = vm[w]
    BY <1>1, <1>6 DEF EndVm, TypeOK
  <2> QED
    BY <1>7, <2>1 DEF Suspended
<1>9. Stock' \subseteq Stock \cup {v}
  <2>1. \A w \in Vms \ {v} : Suspended(w)' /\ w \notin spared' =>
          /\ At(t, "converge") /\ w \in tick[t].todo => At(t, "converge")' /\ w \in tick'[t].todo
          /\ tick[t].vm = w => tick'[t].vm = w
    BY <1>2, <1>3
  <2> QED
    BY <1>4, <1>8, <2>1, StockKeptBy
<1>10. StillReads(t)
  BY <1>5 DEF StillReads, At
<1>11. Settles
  BY <1>1, <1>4, <1>5, <1>10, SettledBy
<1>12. CASE tick'[t].want = tick[t].want - 1
  <2>1. tick'[t].want < tick[t].want
    BY <1>1, <1>12
  <2> QED
    BY <1>9, <1>11, <2>1, FilledKeepsRoom
<1>13. CASE tick'[t].vm = v
  <2>1. v \notin Stock'
    BY <1>13 DEF Stock
  <2> QED
    BY <1>9, <1>11, <2>1, EasedKeepsRoom
<1> QED
  BY <1>5, <1>12, <1>13

\* A tick that begins has read no page, so it has missed nothing yet.
LEMMA StartTickKeepsRoom ==
  ASSUME WorkInv, WorkInv', RoomForListings, NEW t \in Ticks, StartTick(t)
  PROVE  RoomForListings'
<1>1. tick[t].want = 0 /\ tick[t].vm = NoVm /\ tick[t].pc = "idle"
  BY DEF WorkInv, TickWork, StartTick, At
<1>2. /\ tick'[t].pc = "list" /\ tick'[t].page = 1 /\ tick'[t].want = 0 /\ tick'[t].vm = NoVm
      /\ Only(t) /\ UNCHANGED <<vm, spared>>
  <2>1. tick' = [tick EXCEPT ![t] = [Idle EXCEPT !.pc = "list", !.version = image]]
    BY DEF StartTick, Become
  <2>2. tick'[t] = [Idle EXCEPT !.pc = "list", !.version = image] /\ Only(t)
    BY <2>1, OnlyOne
  <2> QED
    BY <2>2 DEF Idle, StartTick
<1>3. Slots' \subseteq Slots
  <2>1. \A u \in Ticks : tick'[u].want = tick[u].want
    BY <1>1, <1>2 DEF Only
  <2> QED
    BY <2>1 DEF Slots
<1>4. Stock' \subseteq Stock \cup {}
  <2>1. \A w \in Vms \ {} : Suspended(w)' => Suspended(w) /\ (w \in spared => w \in spared')
    BY <1>2 DEF Suspended
  <2>2. ~At(t, "converge")
    BY <1>1 DEF At
  <2> QED
    BY <1>1, <1>2, <2>1, <2>2, StockKeptBy
<1> SUFFICES ASSUME NEW S \in SUBSET Listing' PROVE RoomFor(S)'
  BY DEF RoomForListings
<1>5. \A u \in S \ {t} : u \in Listing /\ Read(u)' = Read(u) /\ tick'[u].todo = tick[u].todo
  BY <1>2 DEF Listing, At, Read, Only
<1>6. CASE t \notin S
  <2>1. S \in SUBSET Listing /\ S \in SUBSET Ticks
    BY <1>5, <1>6 DEF Listing
  <2>2. \A v \in MissedBy(S)' : v \in MissedBy(S)
    BY <1>4, <1>5, <1>6 DEF MissedBy
  <2>3. MissedBy(S)' \subseteq MissedBy(S)
    BY <2>2
  <2> QED
    BY <1>3, <2>1, <2>3, RoomKept DEF RoomForListings
<1>7. CASE t \in S
  <2>1. MissedBy(S)' = {}
    <3>1. Read(t)' = {}
      BY <1>2 DEF Read
    <3> QED
      BY <1>7, <3>1 DEF MissedBy
  <2>2. \A u \in S : u \in Ticks /\ tick'[u].want = 0
    <3>1. \A u \in S : u \in Ticks /\ tick'[u].pc = "list"
      BY DEF Listing, At
    <3> QED
      BY <3>1 DEF WorkInv, TickWork
  <2>3. Slots' \subseteq (Ticks \ S) \X (1..Target)
    <3>1. \A s \in Slots' : s[1] \in Ticks /\ s[2] \in 1..Target /\ s[2] <= tick'[s[1]].want
                            /\ s = <<s[1], s[2]>>
      BY DEF Slots
    <3>2. \A s \in Slots' : s[1] \notin S
      BY <2>2, <3>1, ConstantTypes
    <3> QED
      BY <3>1, <3>2
  <2>4. /\ IsFiniteSet(Ticks \ S) /\ Cardinality(Ticks \ S) = Cardinality(Ticks) - Cardinality(S)
        /\ Cardinality(Ticks \ S) \in Nat
    <3>1. S \subseteq Ticks /\ S \cap Ticks = S
      BY <2>2
    <3>2. IsFiniteSet(Ticks \ S) /\ Cardinality(Ticks \ S) = Cardinality(Ticks) - Cardinality(Ticks \cap S)
      BY ConstantTypes, FS_Difference
    <3>3. Ticks \cap S = S
      BY <3>1
    <3> QED
      BY <3>2, <3>3, FS_CardinalityType
  <2>5. Cardinality(Slots') <= Target * (Cardinality(Ticks) - Cardinality(S))
    <3>1. IsFiniteSet(1..Target) /\ Cardinality(1..Target) = Target
      BY ConstantTypes, FS_Interval
    <3>2. /\ IsFiniteSet((Ticks \ S) \X (1..Target))
          /\ Cardinality((Ticks \ S) \X (1..Target)) = Cardinality(Ticks \ S) * Cardinality(1..Target)
      BY <2>4, <3>1, FS_Product
    <3>3. Cardinality(Slots') <= Cardinality((Ticks \ S) \X (1..Target))
      BY <2>3, <3>2, FS_Subset
    <3>4. Cardinality(Slots') <= Cardinality(Ticks \ S) * Target
      BY <3>1, <3>2, <3>3
    <3> DEFINE n == Cardinality(Ticks \ S)
    <3>5. n * Target = Target * n
      <4>1. n \in Int /\ Target \in Int
        BY <2>4, ConstantTypes
      <4> HIDE DEF n
      <4> QED
        BY <4>1
    <3> QED
      BY <2>4, <3>4, <3>5
  <2>6. Cardinality({}) = 0 /\ Cardinality(Slots') \in Nat
    BY FS_EmptySet, RoomTyped, Counted
  <2>7. Cardinality(MissedBy(S)') + Cardinality(Slots') = Cardinality(Slots')
    BY <2>1, <2>6
  <2> QED
    BY <2>5, <2>7 DEF RoomFor
<1> QED
  BY <1>6, <1>7

\* What a page adds to what the tick knows; the rest of the step is the plan.
LEMMA PageFacts ==
  ASSUME WorkInv, NEW t \in Ticks, ReadPage(t)
  PROVE  \E missed \in SUBSET SuspendedOn(t), found \in SUBSET Vms :
           /\ found = tick[t].todo \cup (SuspendedOn(t) \ missed)
           /\ spared' = spared \cup missed /\ UNCHANGED vm /\ Only(t)
           /\ IF tick[t].page = Len(Pages)
                THEN /\ tick'[t].pc = "converge" /\ tick'[t].vm = NoVm
                     /\ tick'[t].todo = found \ UsableAmong(found, tick[t].version)
                     /\ tick'[t].want = PlanConvergence(Cardinality(UsableAmong(found, tick[t].version)))
                ELSE /\ tick'[t].pc = "list" /\ tick'[t].todo = found /\ tick'[t].page = tick[t].page + 1
                     /\ tick'[t].want = tick[t].want /\ tick'[t].vm = tick[t].vm
<1>1. PICK missed \in SUBSET SuspendedOn(t) :
        /\ spared' = spared \cup missed
        /\ LET found == tick[t].todo \cup (SuspendedOn(t) \ missed) IN
           Become(t, IF tick[t].page = Len(Pages) THEN Plan(found, tick[t].version)
                     ELSE [tick[t] EXCEPT !.todo = found, !.page = @ + 1, !.tries = 1])
  BY DEF ReadPage
<1>2. PICK found : found = tick[t].todo \cup (SuspendedOn(t) \ missed)
  OBVIOUS
<1>3. /\ tick[t] \in Tick /\ tick[t].pc = "list" /\ tick[t].todo \subseteq Vms
      /\ SuspendedOn(t) \subseteq Vms /\ UNCHANGED vm
  BY FieldTypes, ConstantTypes DEF WorkInv, ReadPage, At, SuspendedOn
<1>4. found \in SUBSET Vms
  BY <1>2, <1>3
<1>5. CASE tick[t].page = Len(Pages)
  <2>1. tick' = [tick EXCEPT ![t] = Plan(found, tick[t].version)]
    BY <1>1, <1>2, <1>5 DEF Become
  <2>2. tick'[t] = Plan(found, tick[t].version) /\ Only(t)
    BY <2>1, OnlyOne
  <2>3. /\ tick'[t].pc = "converge" /\ tick'[t].vm = NoVm
        /\ tick'[t].todo = found \ UsableAmong(found, tick[t].version)
        /\ tick'[t].want = PlanConvergence(Cardinality(UsableAmong(found, tick[t].version)))
    BY <2>2, PlanFields
  <2> QED
    BY <1>1, <1>2, <1>3, <1>4, <1>5, <2>2, <2>3
<1>6. CASE tick[t].page # Len(Pages)
  <2> DEFINE r == [tick[t] EXCEPT !.todo = found, !.page = @ + 1, !.tries = 1]
  <2>1. tick' = [tick EXCEPT ![t] = r]
    BY <1>1, <1>2, <1>6 DEF Become
  <2>2. /\ r.pc = "list" /\ r.todo = found /\ r.page = tick[t].page + 1
        /\ r.want = tick[t].want /\ r.vm = tick[t].vm
    BY <1>3 DEF Tick
  <2> HIDE DEF r
  <2>3. tick'[t] = r /\ Only(t)
    BY <2>1, OnlyOne
  <2> QED
    BY <1>1, <1>2, <1>3, <1>4, <1>6, <2>2, <2>3
<1> QED
  BY <1>5, <1>6

\* The plan's count and its slots together are one target, unless the count has reached it.
LEMMA PlanIsOneTarget ==
  ASSUME NEW A \in SUBSET Vms, NEW B \in SUBSET Vms, NEW C \in SUBSET (Ticks \X (1..Target)),
         NEW A1 \in SUBSET (A \cup B), NEW u \in Ticks, Cardinality(A) < Target,
         NEW C1 \in SUBSET (C \cup ({u} \X (1..PlanConvergence(Cardinality(A))))),
         NEW r \in Int, Cardinality(B) + Cardinality(C) <= r
  PROVE  Cardinality(A1) + Cardinality(C1) <= r + Target
<1> DEFINE n == Cardinality(A)
           w == PlanConvergence(n)
           D == {u} \X (1..w)
<1>1. /\ IsFiniteSet(A) /\ n \in Nat /\ IsFiniteSet(B) /\ Cardinality(B) \in Nat
      /\ IsFiniteSet(C) /\ Cardinality(C) \in Nat
  BY Counted
<1>2. w \in Nat /\ w = Target - n
  BY <1>1, ConstantTypes DEF PlanConvergence
<1>3. IsFiniteSet(D) /\ Cardinality(D) = w
  <2> HIDE DEF w
  <2>1. IsFiniteSet(1..w) /\ Cardinality(1..w) = w
    BY <1>2, FS_Interval
  <2>2. IsFiniteSet({u}) /\ Cardinality({u}) = 1
    BY FS_Singleton
  <2>3. IsFiniteSet(D) /\ Cardinality(D) = Cardinality({u}) * Cardinality(1..w)
    BY <2>1, <2>2, FS_Product
  <2>4. Cardinality(D) = 1 * w
    BY <2>1, <2>2, <2>3
  <2> QED
    BY <1>2, <2>3, <2>4
<1>4. IsFiniteSet(A1) /\ Cardinality(A1) \in Nat /\ Cardinality(A1) <= n + Cardinality(B)
  <2>1. /\ IsFiniteSet(A \cup B) /\ IsFiniteSet(A \cap B)
        /\ Cardinality(A \cup B) = Cardinality(A) + Cardinality(B) - Cardinality(A \cap B)
    BY <1>1, FS_Union, FS_Intersection
  <2>2. Cardinality(A \cap B) \in Nat /\ Cardinality(A \cup B) \in Nat
    BY <2>1, FS_CardinalityType
  <2>3. IsFiniteSet(A1) /\ Cardinality(A1) <= Cardinality(A \cup B)
    BY <2>1, FS_Subset
  <2>4. Cardinality(A1) \in Nat
    BY <2>3, FS_CardinalityType
  <2> QED
    BY <1>1, <2>1, <2>2, <2>3, <2>4
<1>5. IsFiniteSet(C1) /\ Cardinality(C1) \in Nat /\ Cardinality(C1) <= Cardinality(C) + w
  <2> HIDE DEF D, w
  <2>1. /\ IsFiniteSet(C \cup D) /\ IsFiniteSet(C \cap D)
        /\ Cardinality(C \cup D) = Cardinality(C) + Cardinality(D) - Cardinality(C \cap D)
    BY <1>1, <1>3, FS_Union, FS_Intersection
  <2>2. Cardinality(C \cap D) \in Nat /\ Cardinality(C \cup D) \in Nat
    BY <2>1, FS_CardinalityType
  <2>3. C1 \subseteq C \cup D
    BY DEF D, w
  <2>4. IsFiniteSet(C1) /\ Cardinality(C1) <= Cardinality(C \cup D)
    BY <2>1, <2>3, FS_Subset
  <2>5. Cardinality(C1) \in Nat
    BY <2>4, FS_CardinalityType
  <2> QED
    BY <1>1, <1>2, <1>3, <2>1, <2>2, <2>4, <2>5
<1> HIDE DEF n, w, D
<1> QED
  BY <1>1, <1>2, <1>4, <1>5, ConstantTypes

LEMMA OneMoreListing ==
  ASSUME NEW S \in SUBSET Ticks, NEW t \in Ticks \ S
  PROVE  Target * (Cardinality(Ticks) - Cardinality(S \cup {t})) + Target
           = Target * (Cardinality(Ticks) - Cardinality(S))
<1>1. Cardinality(S \cup {t}) = Cardinality(S) + 1
  BY RoomTyped, FS_AddElement
<1>2. Cardinality(Ticks) \in Int /\ Cardinality(S) \in Int /\ Target \in Int
  BY RoomTyped
<1>3. \A a, b, c \in Int : a * (b - (c + 1)) + a = a * (b - c)
  OBVIOUS
<1> QED
  BY <1>1, <1>2, <1>3

LEMMA ReadPageKeepsRoom ==
  ASSUME WorkInv, WorkInv', RoomForListings, NEW t \in Ticks, ReadPage(t)
  PROVE  RoomForListings'
<1> DEFINE usable(found) == UsableAmong(found, tick[t].version)
<1>1. PICK missed \in SUBSET SuspendedOn(t), found \in SUBSET Vms :
           /\ found = tick[t].todo \cup (SuspendedOn(t) \ missed)
           /\ spared' = spared \cup missed /\ UNCHANGED vm /\ Only(t)
           /\ IF tick[t].page = Len(Pages)
                THEN /\ tick'[t].pc = "converge" /\ tick'[t].vm = NoVm
                     /\ tick'[t].todo = found \ usable(found)
                     /\ tick'[t].want = PlanConvergence(Cardinality(usable(found)))
                ELSE /\ tick'[t].pc = "list" /\ tick'[t].todo = found /\ tick'[t].page = tick[t].page + 1
                     /\ tick'[t].want = tick[t].want /\ tick'[t].vm = tick[t].vm
  BY PageFacts
<1>2. At(t, "list") /\ tick[t].want = 0 /\ tick[t].vm = NoVm /\ NoVm \notin Vms
      /\ tick[t].page \in 1..Len(Pages)
  BY FieldTypes, ConstantTypes DEF WorkInv, TickWork, ReadPage, At
<1>3. Stock' \subseteq Stock
  <2>1. \A w \in Vms \ {} : Suspended(w)' => Suspended(w) /\ (w \in spared => w \in spared')
    BY <1>1 DEF Suspended
  <2>2. ~At(t, "converge")
    BY <1>2 DEF At
  <2>3. Stock' \subseteq Stock \cup {}
    BY <1>1, <1>2, <2>1, <2>2, StockKeptBy
  <2> QED
    BY <2>3
<1>4. \A v \in Stock' : v \in Pages[tick[t].page] => v \in found
  <2> SUFFICES ASSUME NEW v \in Stock', v \in Pages[tick[t].page] PROVE v \in found
    OBVIOUS
  <2>1. Suspended(v) /\ v \notin spared'
    BY <1>1 DEF Stock, Suspended
  <2> QED
    BY <1>1, <2>1 DEF SuspendedOn
<1> SUFFICES ASSUME NEW S \in SUBSET Listing' PROVE RoomFor(S)'
  BY DEF RoomForListings
<1>5. \A u \in S \ {t} : u \in Listing /\ Read(u)' = Read(u) /\ tick'[u].todo = tick[u].todo
  BY <1>1 DEF Listing, At, Read, Only
<1>6. S \in SUBSET Listing /\ S \in SUBSET Ticks
  BY <1>2, <1>5 DEF Listing
<1>7. CASE tick[t].page # Len(Pages)
  <2>1. Slots' \subseteq Slots
    <3>1. \A u \in Ticks : tick'[u].want = tick[u].want
      BY <1>1, <1>7 DEF Only
    <3> QED
      BY <3>1 DEF Slots
  <2>2. \A v \in MissedBy(S)' : t \in S => v \in Read(t) /\ v \notin tick[t].todo
    <3> SUFFICES ASSUME NEW v \in MissedBy(S)', t \in S
                 PROVE  v \in Read(t) /\ v \notin tick[t].todo
      OBVIOUS
    <3>1. v \in Stock' /\ v \in Read(t)' /\ v \notin tick'[t].todo
      BY DEF MissedBy
    <3>2. v \notin found
      BY <1>1, <1>7, <3>1
    <3>3. v \notin Pages[tick[t].page]
      BY <1>4, <3>1, <3>2
    <3>4. PICK i \in 1..(tick'[t].page - 1) : v \in Pages[i]
      BY <3>1 DEF Read
    <3>5. i \in 1..(tick[t].page - 1)
      BY <1>1, <1>2, <1>7, <3>3, <3>4, ConstantTypes
    <3>6. v \in Read(t)
      BY <3>4, <3>5 DEF Read
    <3> QED
      BY <1>1, <3>2, <3>6
  <2>3. \A v \in MissedBy(S)' : v \in MissedBy(S)
    BY <1>3, <1>5, <2>2 DEF MissedBy
  <2>4. MissedBy(S)' \subseteq MissedBy(S)
    BY <2>3
  <2> QED
    BY <1>6, <2>1, <2>4, RoomKept DEF RoomForListings
<1>8. CASE tick[t].page = Len(Pages)
  <2>1. t \notin S
    BY <1>1, <1>8 DEF Listing, At
  <2>2. \A u \in Ticks \ {t} : tick'[u].want = tick[u].want
    BY <1>1 DEF Only
  <2> DEFINE n == Cardinality(usable(found))
  <2>3. usable(found) \subseteq Vms /\ n \in Nat
    <3>1. usable(found) \subseteq Vms
      BY DEF UsableAmong
    <3> HIDE DEF usable
    <3> QED
      BY <3>1, CountTypes
  <2>4. CASE n >= Target
    <3>1. tick'[t].want = 0
      <4>1. ~(n < Target)
        BY <2>3, <2>4, ConstantTypes
      <4> HIDE DEF usable
      <4> QED
        BY <1>1, <1>8, <4>1 DEF PlanConvergence
    <3>2. \A u \in Ticks : tick'[u].want = tick[u].want
      BY <1>2, <2>2, <3>1
    <3>3. Slots' \subseteq Slots
      BY <3>2 DEF Slots
    <3>4. \A v \in MissedBy(S)' : v \in MissedBy(S)
      BY <1>3, <1>5, <2>1 DEF MissedBy
    <3>5. MissedBy(S)' \subseteq MissedBy(S)
      BY <3>4
    <3> QED
      BY <1>6, <3>3, <3>5, RoomKept DEF RoomForListings
  <2>5. CASE n < Target
    <3>1. RoomFor(S \cup {t})
      <4>1. S \cup {t} \in SUBSET Listing
        BY <1>2, <1>6 DEF Listing
      <4> QED
        BY <4>1 DEF RoomForListings
    <3>2. \A v \in MissedBy(S)' : v \in usable(found) \/ v \in MissedBy(S \cup {t})
      <4> SUFFICES ASSUME NEW v \in MissedBy(S)', v \notin usable(found)
                   PROVE  v \in MissedBy(S \cup {t})
        OBVIOUS
      <4>1. v \in Stock' /\ v \in Stock /\ v \in Vms /\ ~Condemned(v)'
        BY <1>3 DEF MissedBy, Stock
      <4>2. v \notin found
        <5>1. v \notin tick'[t].todo
          BY <1>1, <1>8, <4>1 DEF Condemned, At
        <5> QED
          BY <1>1, <1>8, <5>1
      <4>3. v \notin Pages[tick[t].page] /\ v \notin tick[t].todo
        BY <1>1, <1>4, <4>1, <4>2
      <4>4. PICK i \in 1..Len(Pages) : v \in Pages[i]
        BY <4>1, ConstantTypes DEF Vms
      <4>5. i \in 1..(tick[t].page - 1)
        BY <1>2, <1>8, <4>3, <4>4, ConstantTypes
      <4>6. v \in Read(t)
        BY <4>4, <4>5 DEF Read
      <4>7. \A u \in S : v \in Read(u) /\ v \notin tick[u].todo
        BY <1>5, <2>1 DEF MissedBy
      <4> QED
        BY <4>1, <4>3, <4>6, <4>7 DEF MissedBy
    <3>3. \A s \in Slots' : s \in Slots \/ s \in {t} \X (1..PlanConvergence(n))
      <4> SUFFICES ASSUME NEW s \in Slots', s \notin Slots
                   PROVE  s \in {t} \X (1..PlanConvergence(n))
        OBVIOUS
      <4>1. s \in Ticks \X (1..Target) /\ s[2] <= tick'[s[1]].want /\ ~(s[2] <= tick[s[1]].want)
        BY DEF Slots
      <4>2. s[1] = t
        BY <2>2, <4>1
      <4>3. s[2] \in 1..PlanConvergence(n)
        <5>1. s[2] \in Int /\ 1 <= s[2] /\ s[2] <= PlanConvergence(n)
          <6>1. s[2] \in 1..Target /\ s[2] <= tick'[t].want
            BY <4>1, <4>2
          <6>2. tick'[t].want = PlanConvergence(n)
            BY <1>1, <1>8
          <6> HIDE DEF n
          <6> QED
            BY <6>1, <6>2, ConstantTypes
        <5>2. PlanConvergence(n) \in Int
          BY <2>3, ConstantTypes DEF PlanConvergence
        <5> HIDE DEF n
        <5> QED
          BY <5>1, <5>2
      <4> HIDE DEF n
      <4> QED
        BY <4>1, <4>2, <4>3
    <3> DEFINE r == Target * (Cardinality(Ticks) - Cardinality(S \cup {t}))
               B == MissedBy(S \cup {t})
    <3>4. r \in Int /\ Cardinality(B) + Cardinality(Slots) <= r
      <4>1. S \cup {t} \in SUBSET Ticks
        BY <1>6
      <4>2. Cardinality(Ticks) \in Int /\ Cardinality(S \cup {t}) \in Int /\ Target \in Int
        BY <4>1, RoomTyped
      <4> QED
        BY <3>1, <4>2 DEF RoomFor
    <3>5. Cardinality(MissedBy(S)') + Cardinality(Slots') <= r + Target
      <4>1. MissedBy(S)' \in SUBSET (usable(found) \cup B)
        <5> HIDE DEF usable
        <5>1. MissedBy(S)' \subseteq usable(found) \cup B
          BY <3>2
        <5> QED
          BY <5>1
      <4>2. Slots' \in SUBSET (Slots \cup ({t} \X (1..PlanConvergence(Cardinality(usable(found))))))
        BY <3>3
      <4>3. B \in SUBSET Vms /\ Slots \in SUBSET (Ticks \X (1..Target))
        BY RoomTyped
      <4> HIDE DEF r, B, usable
      <4> QED
        BY <2>3, <2>5, <3>4, <4>1, <4>2, <4>3, PlanIsOneTarget
    <3> QED
      BY <1>6, <2>1, <3>5, OneMoreListing DEF RoomFor
  <2> QED
    BY <2>3, <2>4, <2>5, ConstantTypes
<1> QED
  BY <1>7, <1>8

-----------------------------------------------------------------------------
(* The steps of everybody else can only take VMs from the stock.           *)

LEMMA SettledWhenTicksRest ==
  ASSUME WorkInv, UNCHANGED tick
  PROVE  Settles
<1>1. \A t \in Ticks : tick[t].want \in Int
  BY FieldTypes, ConstantTypes DEF WorkInv
<1> QED
  BY <1>1 DEF Settles, StillReads, At

LEMMA OthersKeepStock ==
  ASSUME WorkInv, UNCHANGED tick, spared' = spared,
         \A w \in Vms : Suspended(w)' => Suspended(w)
  PROVE  Stock' \subseteq Stock
<1>1. \A w \in Vms \ {} : Suspended(w)' => Suspended(w) /\ (w \in spared => w \in spared')
  OBVIOUS
<1>2. \A t \in Ticks : \A w \in Vms \ {} :
        Suspended(w)' /\ w \notin spared' =>
          /\ At(t, "converge") /\ w \in tick[t].todo => At(t, "converge")' /\ w \in tick'[t].todo
          /\ tick[t].vm = w => tick'[t].vm = w
  BY DEF At
<1>3. Stock' \subseteq Stock \cup {}
  BY <1>1, <1>2, StockKept
<1> QED
  BY <1>3

LEMMA LaunchStepsKeepRoom ==
  ASSUME WorkInv, WorkInv', RoomForListings, NEW a \in Launches,
         StartLaunch(a) \/ LaunchStep(a) \/ KillLaunch(a)
  PROVE  RoomForListings'
<1>1. TypeOK /\ UNCHANGED <<tick, spared>>
  BY DEF WorkInv, LaunchStep, StartLaunch, ClaimWarmVm, TakeVm, FallBack, KillLaunch
<1>2. PICK v : v = launch[a].vm
  OBVIOUS
<1>3. \/ UNCHANGED vm
      \/ EndVm(v)
      \/ vm' = [vm EXCEPT ![v].state = "running", ![v].armed = TRUE]
  BY <1>2 DEF LaunchStep, StartLaunch, ClaimWarmVm, TakeVm, FallBack, KillLaunch
<1>4. Stock' \subseteq Stock
  <2>1. CASE UNCHANGED vm
    BY <1>1, <2>1, OthersKeepStock DEF Suspended
  <2>2. CASE EndVm(v)
    BY <1>1, <2>2, EndKeepsStock
  <2>3. CASE vm' = [vm EXCEPT ![v].state = "running", ![v].armed = TRUE]
    <3>1. \A w \in Vms : w # v => vm'[w] = vm[w]
      BY <1>1, <2>3 DEF TypeOK
    <3>2. v \in Vms => vm'[v].state = "running"
      <4> DEFINE f == [vm EXCEPT ![v].state = "running"]
      <4>1. vm' = [f EXCEPT ![v].armed = TRUE]
        BY <2>3
      <4>2. v \in Vms => f[v].state = "running" /\ f[v] \in Vm /\ DOMAIN f = Vms
        BY <1>1 DEF TypeOK, Vm
      <4> HIDE DEF f
      <4>3. v \in Vms => vm'[v] = [f[v] EXCEPT !.armed = TRUE]
        BY <4>1, <4>2
      <4>4. v \in Vms => [f[v] EXCEPT !.armed = TRUE].state = "running"
        BY <4>2 DEF Vm
      <4> QED
        BY <4>3, <4>4
    <3>3. \A w \in Vms : Suspended(w)' => Suspended(w)
      BY <3>1, <3>2 DEF Suspended
    <3> QED
      BY <1>1, <3>3, OthersKeepStock
  <2> QED
    BY <1>3, <2>1, <2>2, <2>3
<1> QED
  BY <1>1, <1>4, SettledWhenTicksRest, EasedKeepsRoom

LEMMA OtherStepsKeepRoom ==
  ASSUME WorkInv, WorkInv', RoomForListings,
         Deploy \/ PassTime \/ UNCHANGED vars \/ \E v \in Vms : VmStep(v)
  PROVE  RoomForListings'
<1>1. TypeOK /\ UNCHANGED tick
  BY DEF WorkInv, Deploy, PassTime, vars, VmStep, VmEnds, JanitorReapsOrphan, ExpireWarmClaim
<1>2. Stock' \subseteq Stock
  <2>1. CASE Deploy \/ PassTime \/ UNCHANGED vars
    <3>1. UNCHANGED <<vm, spared>>
      BY <2>1 DEF Deploy, PassTime, vars
    <3> QED
      BY <1>1, <3>1, OthersKeepStock DEF Suspended
  <2>2. ASSUME NEW v \in Vms, VmStep(v) PROVE Stock' \subseteq Stock
    <3>1. CASE VmEnds(v) \/ JanitorReapsOrphan(v)
      <4>1. EndVm(v)
        BY Zenon, <3>1 DEF VmEnds, JanitorReapsOrphan
      <4>2. spared' = spared \ {v}
        BY Zenon, <3>1 DEF VmEnds, JanitorReapsOrphan
      <4> QED
        BY <1>1, <4>1, <4>2, EndKeepsStock
    <3>2. CASE ExpireWarmClaim(v)
      BY <1>1, <3>2, OthersKeepStock DEF ExpireWarmClaim, Suspended
    <3> QED
      BY <2>2, <3>1, <3>2 DEF VmStep
  <2> QED
    BY <2>1, <2>2
<1> QED
  BY <1>1, <1>2, SettledWhenTicksRest, EasedKeepsRoom

LEMMA RoomForListingsStep ==
  ASSUME WorkInv, WorkInv', RoomForListings, [Next]_vars
  PROVE  RoomForListings'
<1>1. ASSUME NEW t \in Ticks, StartTick(t) \/ TickStep(t) \/ Throttled(t) \/ ListFails(t) \/ KillTick(t)
      PROVE  RoomForListings'
  BY <1>1, StartTickKeepsRoom, ReadPageKeepsRoom, RetireKeepsRoom, RunMicrovmKeepsRoom,
     FillStepsKeepRoom, ListStepsKeepRoom DEF TickStep
<1>2. ASSUME NEW a \in Launches, StartLaunch(a) \/ LaunchStep(a) \/ KillLaunch(a)
      PROVE  RoomForListings'
  BY <1>2, LaunchStepsKeepRoom
<1> QED
  BY <1>1, <1>2, OtherStepsKeepRoom DEF Next

LEMMA RoomForListingsInit == Init => RoomForListings
<1> SUFFICES ASSUME Init PROVE RoomForListings
  OBVIOUS
<1>1. Stock = {} /\ Slots = {} /\ Listing = {}
  <2>1. \A t \in Ticks : tick[t].pc = "idle" /\ tick[t].want = 0
    BY DEF Init, Idle
  <2>2. Listing = {}
    BY <2>1 DEF Listing, At
  <2>3. Slots = {}
    BY <2>1, ConstantTypes DEF Slots
  <2>4. Stock = {}
    BY DEF Init, Stock, Suspended, Ended
  <2> QED
    BY <2>2, <2>3, <2>4
<1> SUFFICES ASSUME NEW S \in SUBSET Listing PROVE RoomFor(S)
  BY DEF RoomForListings
<1>2. S = {} /\ MissedBy(S) = {}
  BY <1>1 DEF MissedBy
<1>3. Cardinality({}) = 0 /\ Cardinality(Ticks) \in Nat /\ Target \in Nat
  BY FS_EmptySet, RoomTyped
<1>4. 0 <= Target * Cardinality(Ticks)
  <2>1. \A a, b \in Nat : 0 <= a * b
    OBVIOUS
  <2> QED
    BY <1>3, <2>1
<1>5. Cardinality(Ticks) - 0 = Cardinality(Ticks)
  BY <1>3
<1>6. Cardinality(MissedBy(S)) + Cardinality(Slots) = 0
  <2>1. Cardinality(MissedBy(S)) = 0 /\ Cardinality(Slots) = 0
    BY Zenon, <1>1, <1>2, <1>3
  <2> QED
    BY <2>1
<1>7. Cardinality(Ticks) - Cardinality(S) = Cardinality(Ticks)
  BY <1>2, <1>3, <1>5
<1> QED
  BY <1>4, <1>6, <1>7 DEF RoomFor

(***************************************************************************)
(* The pool, with what is on its way to it, never exceeds one target for   *)
(* each tick that may overlap (convergeLabel, planConvergence), whatever   *)
(* their number, the target, the pages, and the order in which ticks list, *)
(* retire, fill, fail and are killed.                                      *)
(***************************************************************************)
THEOREM PoolStaysBounded == Spec => []PoolIsBounded
<1>1. RoomForListings => PoolIsBounded
  <2> SUFFICES ASSUME RoomFor({}) PROVE PoolIsBounded
    BY DEF RoomForListings
  <2>1. MissedBy({}) = Stock
    BY DEF MissedBy
  <2>2. Cardinality({}) = 0 /\ Cardinality(Ticks) \in Nat
    BY FS_EmptySet, RoomTyped
  <2>3. Cardinality(Ticks) - Cardinality({}) = Cardinality(Ticks)
    BY <2>2
  <2> QED
    BY <2>1, <2>3 DEF RoomFor, PoolIsBounded
<1>2. Spec => []RoomForListings
  BY RoomForListingsInit, RoomForListingsStep, WorkInvariant, PTL DEF Spec
<1> QED
  BY <1>1, <1>2, PTL
=============================================================================
