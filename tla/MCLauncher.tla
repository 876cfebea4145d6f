------------------------------ MODULE MCLauncher ------------------------------
(***************************************************************************)
(* Launcher for TLC: its attempts and its cold VMs are interchangeable.    *)
(***************************************************************************)
EXTENDS Launcher, TLC

Symmetry == Permutations(Attempts) \cup Permutations(Vms \ Pool)
=============================================================================
