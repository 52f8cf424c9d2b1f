----------------------------- MODULE MCVehicle -----------------------------
(***************************************************************************)
(* Instances of Vehicle for TLC: up to four parts and three SIGINTs.       *)
(***************************************************************************)
EXTENDS Vehicle, TLC
=============================================================================
