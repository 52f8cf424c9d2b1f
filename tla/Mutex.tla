------------------------------- MODULE Mutex -------------------------------
(***************************************************************************)
(* donkeycar::concurrency::Mutex, a recursive pthread mutex                *)
(* (include/mutex.h, src/mutex.cpp): its owner and how often the owner has *)
(* locked it.                                                              *)
(***************************************************************************)
EXTENDS Integers
CONSTANT NoThread
VARIABLES owner, depth

\* Mutant: the call is missing.
lock_none(t) == owner' = t /\ depth' = 1

\* Mutex::lock blocks while another thread owns the mutex.
lock(t) ==
    /\ owner \in {NoThread, t}
    /\ owner' = t
    /\ depth' = depth + 1

\* Mutex::unlock ignores that pthread_mutex_unlock may refuse (EPERM).
unlock(t) ==
    IF owner = t
    THEN /\ depth' = depth - 1
         /\ owner' = IF depth = 1 THEN NoThread ELSE owner
    ELSE UNCHANGED <<owner, depth>>
=============================================================================
