----------------------------- MODULE LaunchLease -----------------------------
(***************************************************************************)
(* What the launch claim promises, without tokens, clocks or a table: each *)
(* job is free, held by one launch attempt, or launched by one.  A job     *)
(* passes from one attempt to another only through free, and a launched    *)
(* job is not launched again while its record lasts.                       *)
(***************************************************************************)
CONSTANTS Jobs, Attempts

VARIABLE lease

Free == <<"free">>
Held(a) == <<"held", a>>
Launched(a) == <<"launched", a>>

Leases ==
  {Free} \cup {Held(a) : a \in Attempts} \cup {Launched(a) : a \in Attempts}

Init == lease = [j \in Jobs |-> Free]

Acquire(j, a) == lease[j] = Free /\ lease' = [lease EXCEPT ![j] = Held(a)]

\* The attempt fails, gives up or dies.
Abandon(j, a) == lease[j] = Held(a) /\ lease' = [lease EXCEPT ![j] = Free]

Launch(j, a) == lease[j] = Held(a) /\ lease' = [lease EXCEPT ![j] = Launched(a)]

\* The record of the launch expires.
Forget(j, a) == lease[j] = Launched(a) /\ lease' = [lease EXCEPT ![j] = Free]

Next ==
  \E j \in Jobs, a \in Attempts :
    Acquire(j, a) \/ Abandon(j, a) \/ Launch(j, a) \/ Forget(j, a)

Spec == Init /\ [][Next]_lease

TypeOK == lease \in [Jobs -> Leases]

=============================================================================
