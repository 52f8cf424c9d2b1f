------------------------------ MODULE MCTiming ------------------------------
(***************************************************************************)
(* Timing with seconds of three milliseconds of two nanoseconds.           *)
(***************************************************************************)
EXTENDS Timing
=============================================================================
