---------------------------- MODULE MCLockedMap ----------------------------
(***************************************************************************)
(* LockedMap for TLC.                                                      *)
(***************************************************************************)
EXTENDS LockedMap
=============================================================================
