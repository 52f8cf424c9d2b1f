------------------------------ MODULE Vehicle ------------------------------
(***************************************************************************)
(* donkeycar::Vehicle and the life of its parts: start_blocking, stop, the *)
(* SIGINT handler, and the destructors (include/vehicle.h, src/vehicle.cpp,*)
(* include/parts/part.hpp, app/main.cpp).                                  *)
(*                                                                         *)
(* Parts are 1..N in the order of m_parts; those in Threaded have a        *)
(* managed thread.  Thread 0 is the main thread, thread p the one of part  *)
(* p.  The handler runs stop() on top of the thread it interrupts, so what *)
(* executes is a frame: frame t is the handler on thread t, and the frame  *)
(* Base is main() itself, which is stopped while frame 0 is active.        *)
(*                                                                         *)
(* A part's managed thread is seen as ManagedThread shows it to its        *)
(* callers: task() is one step from the loop condition to wait_to_run and  *)
(* one step from there, through update(), back to the loop condition.  No  *)
(* part of the vehicle is ever suspended, so MTSSM_REQUEST_PAUSE does not  *)
(* occur.  m_mutex_pause_resume and m_mutex are recursive, and whether a   *)
(* frame holds one follows from where it is.                               *)
(*                                                                         *)
(* The kernel delivers SIGINT to the main thread unless it is blocked there*)
(* (it is while the main thread executes the handler), and then to some    *)
(* part's thread.  Phases lists when SIGINT may arrive:                    *)
(*   "adding"    before start_blocking sets m_running                      *)
(*   "starting"  while start_blocking starts the parts                     *)
(*   "running"   in the loop of start_blocking                             *)
(*   "handling"  on a part's thread, while the main thread, in which       *)
(*               SIGINT is then blocked, executes the handler              *)
(***************************************************************************)
EXTENDS Naturals

CONSTANTS N,           \* the number of parts
          Threaded,    \* the parts constructed with threaded = true
          NDEBUG,      \* whether assert() is compiled away
          Phases,      \* when SIGINT may arrive
          MaxSignals   \* how many SIGINTs arrive at most

ASSUME VehicleAssumption ==
    /\ N \in Nat
    /\ Threaded \subseteq 1..N
    /\ NDEBUG \in BOOLEAN
    /\ Phases \subseteq {"adding", "starting", "running", "handling"}
    /\ MaxSignals \in Nat

Part    == 1..N
Main    == 0
Base    == N + 1
Thread  == 0..N
Frame   == 0..(N + 1)

ThreadOf(f) == IF f = Base THEN Main ELSE f

VARIABLES m_running,
          at,             \* at[f]: where frame f is
          part,           \* part[f]: the part its loop over m_parts is at
          m_state,        \* of each part's ManagedTaskStatus
          m_should_exit,  \* of each part
          thread,         \* thread[p]: where the thread of p is, or "none"
          derived,        \* derived[p]: its own destructor has not run yet
          signals,        \* how many SIGINTs have been delivered
          crashed

vars == <<m_running, at, part, m_state, m_should_exit, thread, derived,
          signals, crashed>>
partVars == <<m_state, m_should_exit, thread, derived>>

BaseAt    == {"adding", "start", "resume", "resume_locked", "resume_wait",
              "loop", "destroy", "exit_flag", "exit_lock", "join", "joining",
              "end"}
HandlerAt == {"idle", "stop", "shutdown", "exit_flag", "exit_lock", "join",
              "joining"}

(***************************************************************************)
(* Type correctness: the handler is never where only main() can be, and    *)
(* the loops over m_parts never run past its end.                          *)
(***************************************************************************)
TypeOK ==
    /\ m_running \in BOOLEAN
    /\ at \in [Frame -> BaseAt \cup HandlerAt]
    /\ at[Base] \in BaseAt
    /\ \A t \in Thread : at[t] \in HandlerAt
    /\ part \in [Frame -> 0..(N + 1)]
    /\ m_state \in [Part -> {"RUNNING", "PAUSED", "REQUEST_RUN",
                             "REQUEST_EXIT"}]
    /\ m_should_exit \in [Part -> BOOLEAN]
    /\ thread \in [Part -> {"none", "top", "wait_to_run", "done"}]
    /\ derived \in [Part -> BOOLEAN]
    /\ signals \in 0..MaxSignals
    /\ crashed \in {"no", "assert", "terminate", "pure virtual call"}

\* Every Part is constructed with start_paused = true.
Init ==
    /\ m_running = FALSE
    /\ at = [f \in Frame |-> IF f = Base THEN "adding" ELSE "idle"]
    /\ part = [f \in Frame |-> 0]
    /\ m_state = [p \in Part |-> "PAUSED"]
    /\ m_should_exit = [p \in Part |-> FALSE]
    /\ thread = [p \in Part |-> "none"]
    /\ derived = [p \in Part |-> TRUE]
    /\ signals = 0
    /\ crashed = "no"

\* The frame that executes: main() is stopped while the handler is on top.
Runs(f) == crashed = "no" /\ (f = Base => at[Main] = "idle")

Goto(f, from, to) ==
    /\ Runs(f)
    /\ at[f] = from
    /\ at' = [at EXCEPT ![f] = to]

\* Frame f goes on with the part after the one it is at.
NextPart(f, from, to) ==
    /\ Goto(f, from, to)
    /\ part' = [part EXCEPT ![f] = @ + 1]

Crash(how) ==
    /\ crashed' = how
    /\ UNCHANGED <<m_running, at, part, partVars, signals>>

\* The threads that hold m_mutex_pause_resume of part p, and m_mutex.
HoldsLock(p) ==
    {ThreadOf(f) : f \in {g \in Frame :
        part[g] = p /\ at[g] \in {"resume_locked", "resume_wait", "joining"}}}
HoldsMutex(p) ==
    {ThreadOf(f) : f \in {g \in Frame : part[g] = p /\ at[g] = "resume_locked"}}

\* Both mutexes are recursive: a frame never waits for its own thread.
CanLock(f, p)  == HoldsLock(p) \subseteq {ThreadOf(f)}
CanEnter(f, p) == HoldsMutex(p) \subseteq {ThreadOf(f)}

joinable(p) == thread[p] # "none"

\* How many elements m_parts has: all of them once start_blocking is called.
Added == IF at[Base] = "adding" THEN part[Base] ELSE N

-----------------------------------------------------------------------------
(***************************************************************************)
(* main(): the parts are added, started and run.                           *)
(***************************************************************************)
add ==
    /\ part[Base] < N
    /\ NextPart(Base, "adding", "adding")
    /\ UNCHANGED <<m_running, partVars, signals, crashed>>

start_blocking ==
    /\ part[Base] = N
    /\ Goto(Base, "adding", "start")
    /\ m_running' = TRUE
    /\ part' = [part EXCEPT ![Base] = 1]
    /\ UNCHANGED <<partVars, signals, crashed>>

\* The for loop: Part::start, which only a threaded part obeys, up to and
\* with ManagedThread::start.  Its assert that the thread is not joinable is
\* a guard here: the runs that check for deadlock show it always holds.
start_part ==
    LET p == part[Base] IN
    /\ at[Base] = "start"
    /\ p \in Part
    /\ \/ /\ p \notin Threaded
          /\ NextPart(Base, "start", "start")
          /\ UNCHANGED <<m_running, partVars, signals, crashed>>
       \/ /\ p \in Threaded
          /\ ~joinable(p)
          /\ CanLock(Base, p)
          /\ Goto(Base, "start", "resume")
          /\ m_should_exit' = [m_should_exit EXCEPT ![p] = FALSE]
          /\ thread' = [thread EXCEPT ![p] = "top"]
          /\ UNCHANGED <<m_running, part, m_state, derived, signals, crashed>>

start_done ==
    /\ part[Base] > N
    /\ Goto(Base, "start", "loop")
    /\ UNCHANGED <<m_running, part, partVars, signals, crashed>>

\* ManagedThread::resume takes m_mutex_pause_resume, and
\* resume_task_blocking takes m_mutex ...
resume_enter ==
    LET p == part[Base] IN
    /\ Goto(Base, "resume", "resume_locked")
    /\ CanLock(Base, p) /\ CanEnter(Base, p)
    /\ UNCHANGED <<m_running, part, partVars, signals, crashed>>

\* ... asserts that nobody wants to exit, and requests and waits (a part is
\* resumed once, so it is never RUNNING here and there is no early return),
resume_request ==
    LET p == part[Base] IN
    /\ at[Base] = "resume_locked"
    /\ Runs(Base)
    /\ m_state[p] # "RUNNING"
    /\ \/ /\ NDEBUG \/ m_state[p] # "REQUEST_EXIT"
          /\ Goto(Base, "resume_locked", "resume_wait")
          /\ m_state' = [m_state EXCEPT ![p] = "REQUEST_RUN"]
          /\ UNCHANGED <<m_running, part, m_should_exit, thread, derived,
                         signals, crashed>>
       \/ /\ ~NDEBUG /\ m_state[p] = "REQUEST_EXIT"
          /\ Crash("assert")

\* Mutant: does not wait for the acknowledgement.
resume_return_at_once ==
    /\ NextPart(Base, "resume_wait", "start")
    /\ UNCHANGED <<m_running, partVars, signals, crashed>>

\* until the thread has acknowledged.
resume_return ==
    /\ NextPart(Base, "resume_wait", "start")
    /\ m_state[part[Base]] = "RUNNING"
    /\ UNCHANGED <<m_running, partVars, signals, crashed>>

\* update_parts and throttle, which leave the life of the parts alone.
loop ==
    /\ m_running
    /\ Goto(Base, "loop", "loop")
    /\ UNCHANGED <<m_running, part, partVars, signals, crashed>>

\* start_blocking returns, main() returns, ~Vehicle destroys m_parts.
loop_done ==
    /\ ~m_running
    /\ Goto(Base, "loop", "destroy")
    /\ part' = [part EXCEPT ![Base] = 1]
    /\ UNCHANGED <<m_running, partVars, signals, crashed>>

\* The destructor of a part's own class, then ~ManagedThread begins.
destroy_part ==
    LET p == part[Base] IN
    /\ p \in Part
    /\ Goto(Base, "destroy", "exit_flag")
    /\ derived' = [derived EXCEPT ![p] = FALSE]
    /\ UNCHANGED <<m_running, part, m_state, m_should_exit, thread, signals,
                   crashed>>

destroy_done ==
    /\ part[Base] > N
    /\ Goto(Base, "destroy", "end")
    /\ UNCHANGED <<m_running, part, partVars, signals, crashed>>

-----------------------------------------------------------------------------
(***************************************************************************)
(* SIGINT and Vehicle::stop, in the frame of the interrupted thread t.     *)
(***************************************************************************)
Phase(t) ==
    IF t # Main THEN "handling"
    ELSE CASE at[Base] = "adding" -> "adding"
           [] at[Base] = "loop"   -> "running"
           [] at[Base] \in {"start", "resume", "resume_locked",
                            "resume_wait"} -> "starting"
           [] OTHER -> "over"

\* The kernel prefers the main thread, unless SIGINT is blocked there.
signal_handler(t) ==
    /\ Phase(t) \in Phases
    /\ signals < MaxSignals
    /\ t # Main => thread[t] \in {"top", "wait_to_run"} /\ at[Main] # "idle"
    /\ Goto(t, "idle", "stop")
    /\ signals' = signals + 1
    /\ UNCHANGED <<m_running, part, partVars, crashed>>

\* Mutant: the loop is not told to end.
stop_keeps_running(t) ==
    /\ Goto(t, "stop", "shutdown")
    /\ part' = [part EXCEPT ![t] = 1]
    /\ UNCHANGED <<m_running, partVars, signals, crashed>>

stop(t) ==
    /\ Goto(t, "stop", "shutdown")
    /\ m_running' = FALSE
    /\ part' = [part EXCEPT ![t] = 1]
    /\ UNCHANGED <<partVars, signals, crashed>>

\* Mutant: the parts are not shut down.
shutdown_none(t) ==
    /\ Goto(t, "shutdown", "idle")
    /\ UNCHANGED <<m_running, part, partVars, signals, crashed>>

\* Mutant: the loop goes on while i <= m_parts.size(), one part too far.
shutdown_one_more(t) ==
    /\ \/ /\ part[t] \in Threaded /\ part[t] <= Added
          /\ Goto(t, "shutdown", "exit_flag")
          /\ UNCHANGED part
       \/ /\ part[t] \notin Threaded /\ part[t] <= Added + 1
          /\ NextPart(t, "shutdown", "shutdown")
       \/ /\ part[t] > Added + 1
          /\ Goto(t, "shutdown", "idle")
          /\ UNCHANGED part
    /\ UNCHANGED <<m_running, partVars, signals, crashed>>

\* The for loop: Part::shutdown, which only a threaded part obeys.
shutdown(t) ==
    /\ \/ /\ part[t] \in Threaded /\ part[t] <= Added
          /\ Goto(t, "shutdown", "exit_flag")
          /\ UNCHANGED part
       \/ /\ part[t] \notin Threaded /\ part[t] <= Added
          /\ NextPart(t, "shutdown", "shutdown")
       \/ /\ part[t] > Added
          /\ Goto(t, "shutdown", "idle")
          /\ UNCHANGED part
    /\ UNCHANGED <<m_running, partVars, signals, crashed>>

-----------------------------------------------------------------------------
(***************************************************************************)
(* graceful_exit and join, called by Part::shutdown in a handler and by    *)
(* ~ManagedThread in main().                                               *)
(***************************************************************************)
graceful_exit_flag(f) ==
    /\ Goto(f, "exit_flag", "exit_lock")
    /\ m_should_exit' = [m_should_exit EXCEPT ![part[f]] = TRUE]
    /\ UNCHANGED <<m_running, part, m_state, thread, derived, signals, crashed>>

graceful_exit_locked(f) ==
    /\ Goto(f, "exit_lock", "join")
    /\ CanLock(f, part[f]) /\ CanEnter(f, part[f])
    /\ m_state' = [m_state EXCEPT ![part[f]] = "REQUEST_EXIT"]
    /\ UNCHANGED <<m_running, part, m_should_exit, thread, derived, signals,
                   crashed>>

AfterJoin(f) == IF f = Base THEN "destroy" ELSE "shutdown"

\* Mutant: returns without waiting for the thread.
join_at_once(f) ==
    /\ NextPart(f, "join", AfterJoin(f))
    /\ CanLock(f, part[f])
    /\ UNCHANGED <<m_running, partVars, signals, crashed>>

join(f) ==
    LET p == part[f] IN
    \/ /\ NextPart(f, "join", AfterJoin(f))
       /\ CanLock(f, p)
       /\ ~joinable(p)
       /\ UNCHANGED <<m_running, partVars, signals, crashed>>
    \/ /\ Goto(f, "join", "joining")
       /\ CanLock(f, p)
       /\ joinable(p)
       /\ ThreadOf(f) # p
       /\ UNCHANGED <<m_running, part, partVars, signals, crashed>>
    \/ \* a thread that joins itself: std::system_error, not caught
       /\ Runs(f) /\ at[f] = "join"
       /\ CanLock(f, p)
       /\ ThreadOf(f) = p
       /\ Crash("terminate")
    \/ /\ NextPart(f, "joining", AfterJoin(f))
       /\ thread[p] = "done"
       /\ thread' = [thread EXCEPT ![p] = "none"]
       /\ UNCHANGED <<m_running, m_state, m_should_exit, derived, signals,
                      crashed>>

-----------------------------------------------------------------------------
(***************************************************************************)
(* The managed thread of part p.                                           *)
(***************************************************************************)
task_while(p) ==
    /\ Runs(p) /\ at[p] = "idle"
    /\ thread[p] = "top"
    /\ thread' = [thread EXCEPT ![p] = IF m_should_exit[p] THEN "done"
                                       ELSE "wait_to_run"]
    /\ UNCHANGED <<m_running, at, part, m_state, m_should_exit, derived,
                   signals, crashed>>

\* Mutant: a request to resume is not acknowledged.
task_wait_to_run_no_ack(p) ==
    /\ Runs(p) /\ at[p] = "idle"
    /\ thread[p] = "wait_to_run"
    /\ CanEnter(p, p)
    /\ m_state[p] # "PAUSED"
    /\ thread' = [thread EXCEPT ![p] = "top"]
    /\ UNCHANGED <<m_running, at, part, m_state, m_should_exit, derived,
                   signals, crashed>>

task_wait_to_run(p) ==
    /\ Runs(p) /\ at[p] = "idle"
    /\ thread[p] = "wait_to_run"
    /\ CanEnter(p, p)
    /\ m_state[p] # "PAUSED"
    /\ LET update == m_state[p] # "REQUEST_EXIT" /\ ~m_should_exit[p] IN
       \/ /\ update => derived[p]
          /\ thread' = [thread EXCEPT ![p] = "top"]
          /\ m_state' = IF m_state[p] = "REQUEST_RUN"
                        THEN [m_state EXCEPT ![p] = "RUNNING"] ELSE m_state
          /\ UNCHANGED <<m_running, at, part, m_should_exit, derived, signals,
                         crashed>>
       \/ /\ update /\ ~derived[p]
          /\ Crash("pure virtual call")

-----------------------------------------------------------------------------
MainStep ==
    \/ add \/ start_blocking \/ start_part \/ start_done
    \/ resume_enter \/ resume_request \/ resume_return
    \/ loop \/ loop_done \/ destroy_part \/ destroy_done

ExitStep(f) ==
    graceful_exit_flag(f) \/ graceful_exit_locked(f) \/ join(f)

FrameStep(f) ==
    \/ f = Base /\ MainStep
    \/ f \in Thread /\ (stop(f) \/ shutdown(f))
    \/ ExitStep(f)

TaskStep(p) == task_while(p) \/ task_wait_to_run(p)

\* main() has returned, or the process is gone.
Terminated ==
    /\ at[Base] = "end" \/ crashed # "no"
    /\ UNCHANGED vars

Next ==
    \/ \E f \in Frame : FrameStep(f)
    \/ \E p \in Part : TaskStep(p)
    \/ \E t \in Thread : signal_handler(t)
    \/ Terminated

Spec == Init /\ [][Next]_vars

\* Every frame and every thread that can go on does; no SIGINT has to come.
Fairness ==
    /\ \A f \in Frame : WF_vars(FrameStep(f))
    /\ \A p \in Part : WF_vars(TaskStep(p))

FairSpec == Spec /\ Fairness

-----------------------------------------------------------------------------
(***************************************************************************)
(* Properties.                                                             *)
(***************************************************************************)

(***************************************************************************)
(* While the loop of start_blocking goes on and no handler is at work,     *)
(* every threaded part has a live thread in state RUNNING that has not     *)
(* been asked to exit: update_parts never reads the cached output of a     *)
(* part that is not being updated.  In either build, in every phase.       *)
(***************************************************************************)
LoopMeansRunning ==
    at[Base] = "loop" /\ m_running /\ (\A t \in Thread : at[t] = "idle") =>
        \A p \in Threaded : /\ m_state[p] = "RUNNING"
                            /\ ~m_should_exit[p]
                            /\ thread[p] \in {"top", "wait_to_run"}

(***************************************************************************)
(* When the destructors of the parts run, no part has a thread any more:   *)
(* update() is never called on a part that is being destroyed.             *)
(***************************************************************************)
JoinedBeforeDestroyed ==
    at[Base] = "destroy" => \A p \in Part : thread[p] = "none"

(***************************************************************************)
(* When stop(), in a handler on the main thread, has gone through m_parts, *)
(* every threaded part that was added has been told to exit and has no     *)
(* thread: also the one whose start() or resume() was interrupted, and     *)
(* although other SIGINTs were handled on the parts' threads meanwhile.    *)
(***************************************************************************)
StopLeavesNoThread ==
    at[Main] = "shutdown" /\ part[Main] > Added =>
        \A p \in Threaded :
            p <= Added => m_state[p] = "REQUEST_EXIT" /\ thread[p] = "none"

(***************************************************************************)
(* No assert fails, no thread joins itself, and no pure virtual update()   *)
(* is called.                                                              *)
(***************************************************************************)
NoCrash == crashed = "no"

(***************************************************************************)
(* SIGINT makes start_blocking return and the program end.                 *)
(***************************************************************************)
SigintEndsProgram ==
    signals > 0 ~> at[Base] = "end"

(***************************************************************************)
(* Part::start returns: the resume it ends with is acknowledged.           *)
(***************************************************************************)
ResumeReturns ==
    at[Base] = "resume_wait" ~> at[Base] # "resume_wait"
=============================================================================
