------------------------------- MODULE Event -------------------------------
(***************************************************************************)
(* donkeycar::concurrency::Event, a pthread condition variable             *)
(* (include/event.h, src/event.cpp).                                       *)
(*                                                                         *)
(* `waiters' is the set of threads blocked in pthread_cond_timedwait.  A   *)
(* thread that has left the set has been woken and still has to reacquire  *)
(* the mutex it passed to wait.                                            *)
(***************************************************************************)
VARIABLE waiters

(***************************************************************************)
(* Event::trigger_all.  Despite its name it calls pthread_cond_signal: one *)
(* waiter, any one of them, is woken, and nothing is remembered when       *)
(* nobody waits.                                                           *)
(***************************************************************************)
AfterTrigger(W) == IF W = {} THEN {W} ELSE {W \ {t} : t \in W}

\* Mutant: the signal is lost.
trigger_all_lost == UNCHANGED waiters

trigger_all == waiters' \in AfterTrigger(waiters)

\* Event::wait(mutex, timeout_ms): thread t releases the mutex and blocks.
wait(t) == waiters' = waiters \cup {t}

\* trigger_all followed by wait without giving up the mutex in between.
trigger_all_and_wait(t) ==
    \E W \in AfterTrigger(waiters) : waiters' = W \cup {t}

\* pthread_cond_timedwait returns without a signal: ETIMEDOUT, or a
\* spurious wake-up.
timeout(t) ==
    /\ t \in waiters
    /\ waiters' = waiters \ {t}
=============================================================================
