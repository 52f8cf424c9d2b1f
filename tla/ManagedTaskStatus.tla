------------------------ MODULE ManagedTaskStatus ------------------------
(***************************************************************************)
(* donkeycar::concurrency::ManagedTaskStatus, the state machine shared by  *)
(* a managed thread and the threads that supervise it                      *)
(* (include/managed-task-status.h, src/managed-task-status.cpp).           *)
(*                                                                         *)
(* Every method holds m_mutex from its first to its last line and gives it *)
(* up only inside Event::wait, and m_state is touched by no other code.    *)
(* What a method does between taking m_mutex and returning or waiting is   *)
(* therefore one step here, and m_mutex itself is never held between two   *)
(* steps.                                                                  *)
(*                                                                         *)
(* NDEBUG is the build: TRUE when assert() is compiled away (Release,      *)
(* RelWithDebInfo), FALSE when it is not (Debug, the default, and          *)
(* Coverage).                                                              *)
(***************************************************************************)
EXTENDS Event

CONSTANTS Task,      \* the managed thread
          NDEBUG     \* whether assert() is compiled away

ASSUME BuildAssumption == NDEBUG \in BOOLEAN

MTSSM_RUNNING       == "RUNNING"
MTSSM_REQUEST_PAUSE == "REQUEST_PAUSE"
MTSSM_PAUSED        == "PAUSED"
MTSSM_REQUEST_RUN   == "REQUEST_RUN"
MTSSM_REQUEST_EXIT  == "REQUEST_EXIT"

MTSSM == {MTSSM_RUNNING, MTSSM_REQUEST_PAUSE, MTSSM_PAUSED,
          MTSSM_REQUEST_RUN, MTSSM_REQUEST_EXIT}

VARIABLES m_state,
          inside     \* inside[t]: the method in whose wait loop t is, or "out"

status == <<m_state, waiters, inside>>

StatusOK(Threads) ==
    /\ m_state \in MTSSM
    /\ waiters \subseteq Threads
    /\ inside \in [Threads -> {"out", "pause", "resume", "wait_to_run"}]

\* The constructor: running or paused, as its second argument says.
StatusInit(Threads) ==
    /\ m_state \in {MTSSM_RUNNING, MTSSM_PAUSED}
    /\ waiters = {}
    /\ inside = [t \in Threads |-> "out"]

\* The observers, one read of m_state under m_mutex each.
is_paused     == m_state = MTSSM_PAUSED
is_running    == m_state = MTSSM_RUNNING
request_pause == m_state = MTSSM_REQUEST_PAUSE

\* t has been woken in the wait loop of the given method.
Awake(t, method) ==
    /\ inside[t] = method
    /\ t \notin waiters

Return(t)       == inside' = [inside EXCEPT ![t] = "out"]
Block(t, method) == inside' = [inside EXCEPT ![t] = method]

-----------------------------------------------------------------------------
(***************************************************************************)
(* pause_task_blocking and resume_task_blocking: the part before the wait  *)
(* loop (which returns at once when there is nothing to do), and one turn  *)
(* of the loop.                                                            *)
(***************************************************************************)
\* Mutant: the second assert is missing.
pause_asserts_one ==
    NDEBUG \/ m_state # MTSSM_REQUEST_RUN

pause_asserts  ==
    NDEBUG \/ m_state \notin {MTSSM_REQUEST_RUN, MTSSM_REQUEST_EXIT}

resume_asserts ==
    NDEBUG \/ m_state \notin {MTSSM_REQUEST_PAUSE, MTSSM_REQUEST_EXIT}

pause_task_blocking(t) ==
    /\ pause_asserts
    /\ \/ /\ m_state = MTSSM_PAUSED
          /\ UNCHANGED status
       \/ /\ m_state # MTSSM_PAUSED
          /\ m_state' = MTSSM_REQUEST_PAUSE
          /\ trigger_all_and_wait(t)
          /\ Block(t, "pause")

\* Mutant: `if' instead of `while', the state is not looked at again.
pause_wait_if(t) ==
    /\ Awake(t, "pause")
    /\ Return(t)
    /\ UNCHANGED <<m_state, waiters>>

pause_wait_loop(t) ==
    /\ Awake(t, "pause")
    /\ UNCHANGED m_state
    /\ \/ /\ m_state = MTSSM_PAUSED
          /\ Return(t)
          /\ UNCHANGED waiters
       \/ /\ m_state # MTSSM_PAUSED
          /\ wait(t)
          /\ UNCHANGED inside

\* Mutant: no trigger_all before the wait.
resume_task_no_trigger(t) ==
    /\ resume_asserts
    /\ \/ /\ m_state = MTSSM_RUNNING
          /\ UNCHANGED status
       \/ /\ m_state # MTSSM_RUNNING
          /\ m_state' = MTSSM_REQUEST_RUN
          /\ wait(t)
          /\ Block(t, "resume")

resume_task_blocking(t) ==
    /\ resume_asserts
    /\ \/ /\ m_state = MTSSM_RUNNING
          /\ UNCHANGED status
       \/ /\ m_state # MTSSM_RUNNING
          /\ m_state' = MTSSM_REQUEST_RUN
          /\ trigger_all_and_wait(t)
          /\ Block(t, "resume")

\* Mutant: `if' instead of `while'.
resume_wait_if(t) ==
    /\ Awake(t, "resume")
    /\ Return(t)
    /\ UNCHANGED <<m_state, waiters>>

resume_wait_loop(t) ==
    /\ Awake(t, "resume")
    /\ UNCHANGED m_state
    /\ \/ /\ m_state = MTSSM_RUNNING
          /\ Return(t)
          /\ UNCHANGED waiters
       \/ /\ m_state # MTSSM_RUNNING
          /\ wait(t)
          /\ UNCHANGED inside

\* Mutant: no trigger_all.
set_exit_flag_no_trigger ==
    /\ m_state' = MTSSM_REQUEST_EXIT
    /\ UNCHANGED <<waiters, inside>>

set_exit_flag_blocking ==
    /\ m_state' = MTSSM_REQUEST_EXIT
    /\ trigger_all
    /\ UNCHANGED inside

-----------------------------------------------------------------------------
(***************************************************************************)
(* wait_to_run, called by the managed thread.  The first operator is a     *)
(* call, or a turn of the wait loop, that returns the value should_run;    *)
(* the second one that blocks.  The tests that precede the wait loop are   *)
(* not repeated in it: a thread that is already waiting looks only for     *)
(* REQUEST_EXIT and REQUEST_RUN.                                           *)
(***************************************************************************)
\* Mutant: acknowledges the pause and returns true.
wait_to_run_pause_runs(should_run) ==
    /\ inside[Task] = "out"
    /\ should_run
    /\ m_state = MTSSM_REQUEST_PAUSE
    /\ m_state' = MTSSM_PAUSED
    /\ trigger_all
    /\ Return(Task)

wait_to_run_returns(should_run) ==
    /\ inside[Task] = "out" \/ Awake(Task, "wait_to_run")
    /\ Return(Task)
    /\ \/ /\ should_run
          /\ m_state = MTSSM_RUNNING
          /\ inside[Task] = "out"
          /\ UNCHANGED <<m_state, waiters>>
       \/ /\ ~should_run
          /\ m_state = MTSSM_REQUEST_EXIT
          /\ UNCHANGED <<m_state, waiters>>
       \/ /\ ~should_run
          /\ m_state = MTSSM_REQUEST_PAUSE
          /\ inside[Task] = "out"
          /\ m_state' = MTSSM_PAUSED
          /\ trigger_all
       \/ /\ should_run
          /\ m_state = MTSSM_REQUEST_RUN
          /\ m_state' = MTSSM_RUNNING
          /\ trigger_all

wait_to_run_blocks ==
    /\ UNCHANGED m_state
    /\ wait(Task)
    /\ Block(Task, "wait_to_run")
    /\ \/ /\ inside[Task] = "out"
          /\ m_state = MTSSM_PAUSED
       \/ /\ Awake(Task, "wait_to_run")
          /\ m_state \notin {MTSSM_REQUEST_RUN, MTSSM_REQUEST_EXIT}

\* A timed wait of any method runs out, or is woken spuriously.
wait_times_out(t) ==
    /\ timeout(t)
    /\ UNCHANGED <<m_state, inside>>
=============================================================================
