--------------------------- MODULE ManagedThread ---------------------------
(***************************************************************************)
(* donkeycar::concurrency::ManagedThread: one object, its managed thread,  *)
(* and the threads that call its methods (include/managed-thread.h,        *)
(* src/managed-thread.cpp), composed with its ManagedTaskStatus.           *)
(*                                                                         *)
(* m_mutex_pause_resume is held across the blocking calls of the status    *)
(* object and across std::thread::join, so it is a variable.  A method     *)
(* takes it and runs up to its first wait, or to its end, in one step;     *)
(* m_should_exit is a std::atomic that is also accessed without the lock,  *)
(* so each access outside the lock is a step of its own.                   *)
(*                                                                         *)
(* The code calls itself from outside: `life' is what the callers know of  *)
(* the object, and Permitted is the order in which they call its methods.  *)
(* Env lists the ways in which they go beyond the plain order, start,      *)
(* suspend and resume, graceful_exit, join, destructor:                    *)
(*   "override"         the derived class overrides should_exit(), which   *)
(*                      some thread makes TRUE at some time                *)
(*   "racing_exit"      graceful_exit while other calls are in progress    *)
(*   "early_join"       join before anyone called graceful_exit            *)
(*   "restart"          start again after join                             *)
(*   "double_start"     start of a started thread                          *)
(*   "destroy_running"  destruction of a thread nobody has joined          *)
(*   "any_order"        any call at any time before the destruction begins:*)
(*                      suspend, resume or join before start, two starts at*)
(*                      once, calls after graceful_exit or join            *)
(***************************************************************************)
EXTENDS ManagedTaskStatus

CONSTANTS Callers,   \* the threads that call the methods of the object
          None,      \* no thread
          Env        \* the liberties the callers take

Liberties == {"override", "racing_exit", "early_join", "restart",
              "double_start", "destroy_running", "any_order"}

ASSUME ThreadAssumption ==
    /\ Task \notin Callers
    /\ None \notin Callers \cup {Task}
    /\ Env \subseteq Liberties

Threads == Callers \cup {Task}

VARIABLES m_should_exit,
          m_mutex_pause_resume,  \* the thread that holds it, or None
          pc,           \* where each thread is; "none": m_thread not joinable
          wants_exit,   \* what the derived class's should_exit() returns
          derived,      \* FALSE once the derived class's destructor has run
          life,         \* the object's life as its callers know it
          crashed       \* "no", or how the process was terminated

vars == <<m_state, waiters, inside, m_should_exit, m_mutex_pause_resume, pc,
          wants_exit, derived, life, crashed>>

CallerPc == {"idle", "start", "suspend", "resume", "graceful_exit",
             "exit_lock", "join", "joining"}
TaskPc   == {"none", "top", "check", "ask", "graceful_exit", "exit_lock",
             "wait_to_run", "run_check", "update", "done"}
Life     == {"created", "started", "exiting", "exited", "joined",
             "destroying", "destroyed"}

PcOK ==
    /\ pc \in [Threads -> CallerPc \cup TaskPc]
    /\ pc[Task] \in TaskPc
    /\ \A c \in Callers : pc[c] \in CallerPc

(***************************************************************************)
(* Type correctness.  A caller is only ever at a point of the methods it   *)
(* calls and the managed thread at a point of task(): start leaves the loop*)
(* to the new thread, and graceful_exit, which both execute, returns each  *)
(* to its own caller.                                                      *)
(***************************************************************************)
TypeOK ==
    /\ StatusOK(Threads)
    /\ m_should_exit \in BOOLEAN
    /\ m_mutex_pause_resume \in Threads \cup {None}
    /\ PcOK
    /\ wants_exit \in BOOLEAN
    /\ derived \in BOOLEAN
    /\ life \in Life
    /\ crashed \in {"no", "assert", "terminate", "pure virtual call"}

\* The constructor, with either value of start_paused.
Init ==
    /\ StatusInit(Threads)
    /\ m_should_exit = FALSE
    /\ m_mutex_pause_resume = None
    /\ pc = [t \in Threads |-> IF t = Task THEN "none" ELSE "idle"]
    /\ wants_exit = FALSE
    /\ derived = TRUE
    /\ life = "created"
    /\ crashed = "no"

Goto(t, from, to) ==
    /\ pc[t] = from
    /\ pc' = [pc EXCEPT ![t] = to]

Unlocked == m_mutex_pause_resume = None

joinable == pc[Task] # "none"

\* The virtual call: ManagedThread::should_exit once the derived part is gone.
should_exit == derived /\ wants_exit

-----------------------------------------------------------------------------
(***************************************************************************)
(* The callers.                                                            *)
(***************************************************************************)
AllIdle == \A c \in Callers : pc[c] = "idle"

Permitted(op) ==
    \/ /\ op = "start"
       /\ AllIdle
       /\ \/ life = "created"
          \/ life = "joined"  /\ "restart" \in Env
          \/ life = "started" /\ "double_start" \in Env
    \/ /\ op \in {"suspend", "resume"}
       /\ life = "started"
    \/ /\ op = "graceful_exit"
       /\ life \in {"created", "started", "exiting", "exited", "joined"}
       /\ AllIdle \/ "racing_exit" \in Env
    \/ /\ op = "join"
       /\ \/ life \in {"exited", "joined"}
          \/ life = "started" /\ "early_join" \in Env
    \/ /\ "any_order" \in Env
       /\ life \notin {"destroying", "destroyed"}

Call(c, op) ==
    /\ Goto(c, "idle", op)
    /\ Permitted(op)
    /\ life' = IF op = "graceful_exit" THEN "exiting" ELSE life
    /\ UNCHANGED <<status, m_should_exit, m_mutex_pause_resume, wants_exit,
                   derived, crashed>>

\* The derived class's destructor has run, ~ManagedThread begins.
Destroy(c) ==
    /\ AllIdle
    /\ \/ life \in {"created", "joined"}
       \/ "destroy_running" \in Env /\ life \in {"started", "exited"}
    /\ Goto(c, "idle", "graceful_exit")
    /\ derived' = FALSE
    /\ life' = "destroying"
    /\ UNCHANGED <<status, m_should_exit, m_mutex_pause_resume, wants_exit,
                   crashed>>

\* The condition an overridden should_exit() tests becomes true.
WantExit ==
    /\ "override" \in Env
    /\ ~wants_exit
    /\ wants_exit' = TRUE
    /\ UNCHANGED <<status, m_should_exit, m_mutex_pause_resume, pc, derived,
                   life, crashed>>

-----------------------------------------------------------------------------
(***************************************************************************)
(* The methods.                                                            *)
(***************************************************************************)
Crash(how) ==
    /\ crashed' = how
    /\ UNCHANGED <<status, m_mutex_pause_resume, pc, wants_exit, derived, life>>

\* Mutant: calls task() instead of making a thread that does.
start_runs_task(c) ==
    /\ Goto(c, "start", "top")
    /\ Unlocked
    /\ ~joinable
    /\ m_should_exit' = FALSE
    /\ m_mutex_pause_resume' = c
    /\ UNCHANGED <<status, wants_exit, derived, life, crashed>>

start(c) ==
    /\ pc[c] = "start"
    /\ Unlocked
    /\ m_should_exit' = FALSE
    /\ \/ /\ ~joinable
          /\ pc' = [pc EXCEPT ![c] = "idle", ![Task] = "top"]
          /\ life' = IF life \in {"created", "joined"} THEN "started" ELSE life
          /\ UNCHANGED <<status, m_mutex_pause_resume, wants_exit, derived,
                         crashed>>
       \/ \* the assert, or the assignment to a joinable std::thread
          /\ joinable
          /\ Crash(IF NDEBUG THEN "terminate" ELSE "assert")

\* Mutant: the lock is not held across the wait.
ReturnsUnlocked(c, op) ==
    /\ m_mutex_pause_resume' = None
    /\ IF inside'[c] = "out"
       THEN Goto(c, op, "idle")
       ELSE pc[c] = op /\ UNCHANGED pc

\* The status method just entered, or left, by c decides on the lock.
ReturnsOrHolds(c, op) ==
    IF inside'[c] = "out"
    THEN /\ Goto(c, op, "idle")
         /\ m_mutex_pause_resume' = None
    ELSE /\ pc[c] = op
         /\ m_mutex_pause_resume' = c
         /\ UNCHANGED pc

suspend(c) ==
    /\ pc[c] = "suspend"
    /\ UNCHANGED m_should_exit
    /\ \/ /\ Unlocked
          /\ pause_task_blocking(c)
          /\ ReturnsOrHolds(c, "suspend")
          /\ UNCHANGED <<wants_exit, derived, life, crashed>>
       \/ /\ pause_wait_loop(c)
          /\ ReturnsOrHolds(c, "suspend")
          /\ UNCHANGED <<wants_exit, derived, life, crashed>>
       \/ /\ Unlocked
          /\ ~pause_asserts
          /\ Crash("assert")

resume(c) ==
    /\ pc[c] = "resume"
    /\ UNCHANGED m_should_exit
    /\ \/ /\ Unlocked
          /\ resume_task_blocking(c)
          /\ ReturnsOrHolds(c, "resume")
          /\ UNCHANGED <<wants_exit, derived, life, crashed>>
       \/ /\ resume_wait_loop(c)
          /\ ReturnsOrHolds(c, "resume")
          /\ UNCHANGED <<wants_exit, derived, life, crashed>>
       \/ /\ Unlocked
          /\ ~resume_asserts
          /\ Crash("assert")

\* Mutant: the flag is not set.
graceful_exit_no_flag(t) ==
    /\ Goto(t, "graceful_exit", "exit_lock")
    /\ UNCHANGED <<status, m_should_exit, m_mutex_pause_resume, wants_exit,
                   derived, life, crashed>>

\* graceful_exit, first line: outside the lock.
graceful_exit_flag(t) ==
    /\ Goto(t, "graceful_exit", "exit_lock")
    /\ m_should_exit' = TRUE
    /\ UNCHANGED <<status, m_mutex_pause_resume, wants_exit, derived, life,
                   crashed>>

\* Where graceful_exit returns to: task(), ~ManagedThread, or a plain caller.
AfterExit(t) ==
    CASE t = Task -> "wait_to_run"
      [] t # Task /\ life = "destroying" -> "join"
      [] OTHER -> "idle"

\* graceful_exit, the rest: under the lock.
graceful_exit_locked(t) ==
    /\ Goto(t, "exit_lock", AfterExit(t))
    /\ Unlocked
    /\ set_exit_flag_blocking
    /\ life' = IF t # Task /\ life = "exiting" THEN "exited" ELSE life
    /\ UNCHANGED <<m_should_exit, m_mutex_pause_resume, wants_exit, derived,
                   crashed>>

JoinedLife == IF life = "destroying" THEN "destroyed" ELSE "joined"

\* join: holds the lock while std::thread::join waits for task() to return.
join(c) ==
    /\ UNCHANGED <<status, m_should_exit, wants_exit, derived, crashed>>
    /\ \/ /\ Goto(c, "join", "idle")
          /\ Unlocked
          /\ ~joinable
          /\ life' = JoinedLife
          /\ UNCHANGED m_mutex_pause_resume
       \/ /\ Goto(c, "join", "joining")
          /\ Unlocked
          /\ joinable
          /\ m_mutex_pause_resume' = c
          /\ UNCHANGED life
       \/ /\ pc[c] = "joining"
          /\ pc[Task] = "done"
          /\ pc' = [pc EXCEPT ![c] = "idle", ![Task] = "none"]
          /\ m_mutex_pause_resume' = None
          /\ life' = JoinedLife

-----------------------------------------------------------------------------
(***************************************************************************)
(* task(), the loop the managed thread runs.                               *)
(***************************************************************************)
task_while ==
    /\ Goto(Task, "top", IF m_should_exit THEN "done" ELSE "check")
    /\ UNCHANGED <<status, m_should_exit, m_mutex_pause_resume, wants_exit,
                   derived, life, crashed>>

\* if (!m_should_exit && should_exit()) graceful_exit(), two reads
task_check ==
    /\ \/ Goto(Task, "check", IF m_should_exit THEN "wait_to_run" ELSE "ask")
       \/ Goto(Task, "ask",
               IF should_exit THEN "graceful_exit" ELSE "wait_to_run")
    /\ UNCHANGED <<status, m_should_exit, m_mutex_pause_resume, wants_exit,
                   derived, life, crashed>>

task_wait_to_run ==
    /\ \/ /\ Goto(Task, "wait_to_run", "run_check")
          /\ wait_to_run_returns(TRUE)
       \/ /\ Goto(Task, "wait_to_run", "top")
          /\ wait_to_run_returns(FALSE)
       \/ /\ pc[Task] = "wait_to_run"
          /\ wait_to_run_blocks
          /\ UNCHANGED pc
    /\ UNCHANGED <<m_should_exit, m_mutex_pause_resume, wants_exit, derived,
                   life, crashed>>

\* should_run && !m_should_exit && !should_exit()
task_run_check ==
    /\ Goto(Task, "run_check",
            IF m_should_exit \/ should_exit THEN "top" ELSE "update")
    /\ UNCHANGED <<status, m_should_exit, m_mutex_pause_resume, wants_exit,
                   derived, life, crashed>>

\* update(), the derived class's work, runs to its end; it is pure virtual
\* in ManagedThread.
task_update ==
    /\ UNCHANGED m_should_exit
    /\ \/ /\ derived
          /\ Goto(Task, "update", "top")
          /\ UNCHANGED <<status, m_mutex_pause_resume, wants_exit, derived,
                         life, crashed>>
       \/ /\ ~derived
          /\ pc[Task] = "update"
          /\ Crash("pure virtual call")

-----------------------------------------------------------------------------
CallerStep(c) ==
    /\ crashed = "no"
    /\ \/ start(c)
       \/ suspend(c)
       \/ resume(c)
       \/ graceful_exit_flag(c)
       \/ graceful_exit_locked(c)
       \/ join(c)

TaskStep ==
    /\ crashed = "no"
    /\ \/ task_while
       \/ task_check
       \/ graceful_exit_flag(Task)
       \/ graceful_exit_locked(Task)
       \/ task_wait_to_run
       \/ task_run_check
       \/ task_update

Timeout(t) ==
    /\ crashed = "no"
    /\ wait_times_out(t)
    /\ UNCHANGED <<m_should_exit, m_mutex_pause_resume, pc, wants_exit,
                   derived, life, crashed>>

Environment ==
    /\ crashed = "no"
    /\ \/ \E c \in Callers :
              \/ \E op \in {"start", "suspend", "resume", "graceful_exit",
                            "join"} : Call(c, op)
              \/ Destroy(c)
       \/ WantExit

\* The object is gone, or the process is.
Terminated ==
    /\ life = "destroyed" \/ crashed # "no"
    /\ UNCHANGED vars

Next ==
    \/ \E c \in Callers : CallerStep(c)
    \/ TaskStep
    \/ \E t \in Threads : Timeout(t)
    \/ Environment
    \/ Terminated

Spec == Init /\ [][Next]_vars

(***************************************************************************)
(* Every thread that can take a step of a method takes it eventually, and  *)
(* update() returns.  Nobody has to make a call, and no timeout has to     *)
(* fire: what is shown under this fairness does not depend on timeouts.    *)
(***************************************************************************)
Fairness ==
    /\ WF_vars(TaskStep)
    /\ \A c \in Callers : WF_vars(CallerStep(c))

FairSpec == Spec /\ Fairness

-----------------------------------------------------------------------------
(***************************************************************************)
(* Properties.                                                             *)
(***************************************************************************)

(***************************************************************************)
(* While is_paused() is true the thread neither executes update() nor is   *)
(* committed to executing it: "during the graceful exit, update should not *)
(* be executing" (tests/test-managed-thread.cpp) rests on this, and so     *)
(* does every use of suspend() to get exclusive access to a part's data.   *)
(***************************************************************************)
PausedMeansQuiet ==
    is_paused => pc[Task] \notin {"run_check", "update"}

(***************************************************************************)
(* A request is pending only while the caller who made it still holds      *)
(* m_mutex_pause_resume and waits for it in the matching method.  So the   *)
(* first asserts of pause_task_blocking (no REQUEST_RUN) and of            *)
(* resume_task_blocking (no REQUEST_PAUSE) can never fail, whatever the    *)
(* callers do and in either build.                                         *)
(***************************************************************************)
RequestsHaveOwner ==
    /\ m_state = MTSSM_REQUEST_PAUSE =>
           \E c \in Callers : /\ m_mutex_pause_resume = c
                              /\ inside[c] = "pause"
    /\ m_state = MTSSM_REQUEST_RUN =>
           \E c \in Callers : /\ m_mutex_pause_resume = c
                              /\ inside[c] = "resume"

(***************************************************************************)
(* No thread sleeps through what it waits for: a thread still blocked in   *)
(* Event::wait waits for a state the machine is not in.  This is what the  *)
(* trigger_all after every assignment to m_state is for; without it the    *)
(* thread would sleep until its timeout.  (Debug build.)                   *)
(***************************************************************************)
NobodySleepsThrough ==
    \A t \in waiters :
        \/ inside[t] = "pause"       /\ m_state = MTSSM_REQUEST_PAUSE
        \/ inside[t] = "resume"      /\ m_state = MTSSM_REQUEST_RUN
        \/ inside[t] = "wait_to_run" /\ m_state = MTSSM_PAUSED

(***************************************************************************)
(* Two threads never wait on the event at the same time, so                *)
(* pthread_cond_signal, which Event::trigger_all calls, wakes as many      *)
(* threads as the broadcast its name promises.  (Debug build.)             *)
(***************************************************************************)
AtMostOneWaiter ==
    \A t, u \in waiters : t = u

(***************************************************************************)
(* The process is not terminated by a failed assert, by an assignment to a *)
(* joinable std::thread or by a call of the pure virtual update().         *)
(***************************************************************************)
NoCrash == crashed = "no"

(***************************************************************************)
(* A request to exit is never taken back: no later suspend or resume       *)
(* overwrites REQUEST_EXIT.  (Debug build, where the asserts stop them.)   *)
(***************************************************************************)
ExitIsFinal ==
    [][m_state = MTSSM_REQUEST_EXIT => m_state' = MTSSM_REQUEST_EXIT]_vars

(***************************************************************************)
(* Whoever takes m_mutex_pause_resume gives it back: suspend, resume and   *)
(* join return once they have the lock, without the help of a timeout.     *)
(***************************************************************************)
LockIsReleased ==
    \A c \in Callers : m_mutex_pause_resume = c ~> m_mutex_pause_resume # c

(***************************************************************************)
(* Once graceful_exit has returned, the managed thread leaves task(),      *)
(* whether it was working, pausing, paused or resuming.                    *)
(***************************************************************************)
ExitStopsTask ==
    life = "exited" ~> pc[Task] \in {"done", "none"}

-----------------------------------------------------------------------------
(***************************************************************************)
(* The inductive invariant behind the safety properties.                   *)
(*                                                                         *)
(* LockInv: which threads can be in which wait loop, and that a caller in  *)
(* one, or in std::thread::join, holds m_mutex_pause_resume.               *)
(* RequestInv: while a caller waits, the state machine stays on the edge   *)
(* the caller put it on.                                                   *)
(***************************************************************************)
LockInv ==
    /\ inside[Task] \in {"out", "wait_to_run"}
    /\ inside[Task] = "wait_to_run" => pc[Task] = "wait_to_run"
    /\ \A c \in Callers :
           /\ inside[c] \in {"out", "pause", "resume"}
           /\ inside[c] = "pause"  => pc[c] = "suspend"
           /\ inside[c] = "resume" => pc[c] = "resume"
           /\ inside[c] # "out" \/ pc[c] = "joining" =>
                  m_mutex_pause_resume = c

RequestInv ==
    /\ RequestsHaveOwner
    /\ \A c \in Callers :
           /\ inside[c] = "pause"  => m_state \in {MTSSM_REQUEST_PAUSE,
                                                   MTSSM_PAUSED}
           /\ inside[c] = "resume" => m_state \in {MTSSM_REQUEST_RUN,
                                                   MTSSM_RUNNING}

SafeInv == TypeOK /\ LockInv /\ RequestInv /\ PausedMeansQuiet

(***************************************************************************)
(* What the asserts add: an exit request is never overwritten, so a thread *)
(* asked to resume has been paused, and one that waits in wait_to_run is   *)
(* told nothing but to resume or to exit.                                  *)
(***************************************************************************)
QuietInv ==
    /\ m_state = MTSSM_REQUEST_RUN => pc[Task] \notin {"run_check", "update"}
    /\ inside[Task] = "wait_to_run" =>
           m_state \in {MTSSM_PAUSED, MTSSM_REQUEST_RUN, MTSSM_REQUEST_EXIT}

DebugInv == SafeInv /\ QuietInv /\ NobodySleepsThrough

-----------------------------------------------------------------------------
(***************************************************************************)
(* The managed thread implements WorkPermit.  A pause that is requested    *)
(* and not acknowledged still lets the thread work; a resume that is not   *)
(* acknowledged does not.  The permit is the TRUE that wait_to_run         *)
(* returned, until task() comes round to its loop condition.               *)
(***************************************************************************)
ModeOf(s) ==
    CASE s \in {MTSSM_RUNNING, MTSSM_REQUEST_PAUSE} -> "run"
      [] s \in {MTSSM_PAUSED, MTSSM_REQUEST_RUN}    -> "quiet"
      [] OTHER                                      -> "exit"

Permit == INSTANCE WorkPermit WITH
    mode   <- ModeOf(m_state),
    permit <- pc[Task] \in {"run_check", "update"},
    call   <- [c \in Callers |->
                  IF pc[c] \in {"suspend", "resume"} THEN pc[c] ELSE "none"]

(***************************************************************************)
(* ManagedThread keeps the promise of WorkPermit in the Debug build,       *)
(* whatever liberties its callers take.                                    *)
(***************************************************************************)
ImplementsWorkPermit == Permit!Spec
=============================================================================
