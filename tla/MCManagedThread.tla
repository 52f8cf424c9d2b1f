-------------------------- MODULE MCManagedThread --------------------------
(***************************************************************************)
(* Instances of ManagedThread for TLC: a few callers and the thread.       *)
(***************************************************************************)
EXTENDS ManagedThread, TLC

\* The callers are interchangeable (used where no liveness is checked).
CallerSymmetry == Permutations(Callers)
=============================================================================
