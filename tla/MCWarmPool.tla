------------------------------ MODULE MCWarmPool ------------------------------
(***************************************************************************)
(* WarmPool for TLC: three VM ids that a listing returns on two pages.      *)
(***************************************************************************)
EXTENDS WarmPool

TwoPages == <<{1}, {2, 3}>>

=============================================================================
