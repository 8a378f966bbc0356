------------------------------ MODULE MCSimulator ------------------------------
(* Instances of Simulator for TLC: nothing but the constants, in the cfg. *)
EXTENDS Simulator
=============================================================================
