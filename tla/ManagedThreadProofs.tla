------------------------ MODULE ManagedThreadProofs ------------------------
(***************************************************************************)
(* Proofs about ManagedThread, for every set of callers and every set of   *)
(* liberties they take.                                                    *)
(***************************************************************************)
EXTENDS ManagedThread, TLAPS

(***************************************************************************)
(* Type correctness.                                                       *)
(***************************************************************************)

\* A caller moves to a point of a method.
LEMMA CallerGoto ==
    ASSUME PcOK, NEW c \in Callers, NEW to \in CallerPc,
           pc' = [pc EXCEPT ![c] = to]
    PROVE  PcOK'
BY ThreadAssumption DEF PcOK, Threads

\* The managed thread moves to a point of task().
LEMMA TaskGoto ==
    ASSUME PcOK, NEW to \in TaskPc, pc' = [pc EXCEPT ![Task] = to]
    PROVE  PcOK'
BY ThreadAssumption DEF PcOK, Threads

\* Nobody moves.
LEMMA NoGoto == PcOK /\ UNCHANGED pc => PcOK'
BY DEF PcOK

\* trigger_all wakes a waiter or nobody: it adds none.
LEMMA TriggerWakes == \A W : \A V \in AfterTrigger(W) : V \subseteq W
BY DEF AfterTrigger

\* Whether a method returns or waits, the caller stays where it may be.
LEMMA ReturnsOrHoldsType ==
    ASSUME PcOK, NEW c \in Callers, NEW op, ReturnsOrHolds(c, op)
    PROVE  PcOK' /\ m_mutex_pause_resume' \in {c, None}
<1>1. "idle" \in CallerPc
    BY DEF CallerPc
<1>2. CASE UNCHANGED pc
    BY <1>2, NoGoto DEF ReturnsOrHolds
<1>3. CASE pc' = [pc EXCEPT ![c] = "idle"]
    BY <1>1, <1>3, CallerGoto DEF ReturnsOrHolds
<1> QED
    BY <1>2, <1>3 DEF ReturnsOrHolds, Goto

\* The methods of the status object keep its types.
LEMMA StatusType ==
    ASSUME StatusOK(Threads), NEW t \in Threads,
           \/ pause_task_blocking(t)
           \/ pause_wait_loop(t)
           \/ resume_task_blocking(t)
           \/ resume_wait_loop(t)
           \/ set_exit_flag_blocking
           \/ t = Task /\ wait_to_run_returns(TRUE)
           \/ t = Task /\ wait_to_run_returns(FALSE)
           \/ t = Task /\ wait_to_run_blocks
           \/ wait_times_out(t)
           \/ UNCHANGED status
    PROVE  StatusOK(Threads)'
<1> USE DEF StatusOK
<1>1. m_state' \in MTSSM
    BY DEF MTSSM, pause_task_blocking, pause_wait_loop, resume_task_blocking,
       resume_wait_loop, set_exit_flag_blocking, wait_to_run_returns,
       wait_to_run_blocks, wait_times_out, status
<1>2. waiters' \subseteq Threads
    BY TriggerWakes
    DEF pause_task_blocking, pause_wait_loop, resume_task_blocking,
        resume_wait_loop, set_exit_flag_blocking, wait_to_run_returns,
        wait_to_run_blocks, wait_times_out, status, trigger_all, wait,
        trigger_all_and_wait, timeout
<1>3. inside' \in [Threads -> {"out", "pause", "resume", "wait_to_run"}]
    BY DEF pause_task_blocking, pause_wait_loop, resume_task_blocking,
       resume_wait_loop, set_exit_flag_blocking, wait_to_run_returns,
       wait_to_run_blocks, wait_times_out, status, Return, Block
<1> QED
    BY <1>1, <1>2, <1>3

\* The constructor establishes the types.
LEMMA InitType == Init => TypeOK
BY ThreadAssumption
   DEF Init, StatusInit, TypeOK, StatusOK, PcOK, Threads, MTSSM,
       MTSSM_RUNNING, MTSSM_PAUSED, CallerPc, TaskPc, Life

\* Every step of a caller, of task() or of the environment keeps the types.
LEMMA TypeStep == TypeOK /\ [Next]_vars => TypeOK'
<1> SUFFICES ASSUME TypeOK, [Next]_vars PROVE TypeOK'
    OBVIOUS
<1> USE ThreadAssumption DEF TypeOK
<1>0. Callers \subseteq Threads /\ Task \in Threads
    BY DEF Threads
<1>1. ASSUME NEW c \in Callers, start(c) PROVE TypeOK'
    <2>1. PcOK'
        BY <1>1 DEF start, Crash, PcOK, CallerPc, TaskPc, Threads
    <2> QED
        BY <1>0, <1>1, <2>1, StatusType DEF start, Crash, Life
<1>2. ASSUME NEW c \in Callers, suspend(c) PROVE TypeOK'
    BY <1>0, <1>2, StatusType, ReturnsOrHoldsType, NoGoto DEF suspend, Crash
<1>3. ASSUME NEW c \in Callers, resume(c) PROVE TypeOK'
    BY <1>0, <1>3, StatusType, ReturnsOrHoldsType, NoGoto DEF resume, Crash
<1>4. ASSUME NEW t \in Threads, graceful_exit_flag(t) PROVE TypeOK'
    <2>1. "exit_lock" \in CallerPc \cap TaskPc
        BY DEF CallerPc, TaskPc
    <2>2. PcOK'
        BY <1>4, <2>1, CallerGoto, TaskGoto
        DEF graceful_exit_flag, Goto, Threads
    <2> QED
        BY <1>4, <2>2, StatusType DEF graceful_exit_flag
<1>5. ASSUME NEW t \in Threads, graceful_exit_locked(t) PROVE TypeOK'
    <2>1. IF t = Task THEN AfterExit(t) \in TaskPc ELSE AfterExit(t) \in CallerPc
        BY DEF AfterExit, CallerPc, TaskPc
    <2>2. PcOK'
        BY <1>5, <2>1, CallerGoto, TaskGoto
        DEF graceful_exit_locked, Goto, Threads
    <2> QED
        BY <1>5, <2>2, StatusType DEF graceful_exit_locked, Life
<1>6. ASSUME NEW c \in Callers, join(c) PROVE TypeOK'
    <2>1. PcOK'
        BY <1>6 DEF join, Goto, PcOK, CallerPc, TaskPc, Threads
    <2>2. m_mutex_pause_resume' \in Threads \cup {None}
        BY <1>0, <1>6 DEF join
    <2> QED
        BY <1>0, <1>6, <2>1, <2>2, StatusType DEF join, JoinedLife, Life
<1>7. CASE task_while \/ task_check \/ task_run_check
    <2>1. PcOK'
        BY <1>7, TaskGoto
        DEF task_while, task_check, task_run_check, Goto, TaskPc
    <2> QED
        BY <1>0, <1>7, <2>1, StatusType
        DEF task_while, task_check, task_run_check
<1>8. CASE task_wait_to_run
    <2>1. {"run_check", "top"} \subseteq TaskPc
        BY DEF TaskPc
    <2>2. PcOK'
        BY <1>8, <2>1, TaskGoto, NoGoto DEF task_wait_to_run, Goto
    <2> QED
        BY <1>0, <1>8, <2>2, StatusType DEF task_wait_to_run
<1>9. CASE task_update
    <2>1. "top" \in TaskPc
        BY DEF TaskPc
    <2>2. PcOK'
        BY <1>9, <2>1, TaskGoto, NoGoto DEF task_update, Goto, Crash
    <2> QED
        BY <1>0, <1>9, <2>2, StatusType DEF task_update, Crash
<1>10. ASSUME NEW t \in Threads, Timeout(t) PROVE TypeOK'
    BY <1>10, StatusType, NoGoto DEF Timeout
<1>11. CASE Environment
    <2>1. ASSUME NEW c \in Callers,
                 NEW op \in {"start", "suspend", "resume", "graceful_exit",
                             "join"},
                 Call(c, op)
          PROVE  TypeOK'
        <3>1. op \in CallerPc
            BY DEF CallerPc
        <3>2. PcOK'
            BY <2>1, <3>1, CallerGoto DEF Call, Goto
        <3> QED
            BY <1>0, <2>1, <3>2, StatusType DEF Call, Life
    <2>2. ASSUME NEW c \in Callers, Destroy(c) PROVE TypeOK'
        <3>1. "graceful_exit" \in CallerPc
            BY DEF CallerPc
        <3>2. PcOK'
            BY <2>2, <3>1, CallerGoto DEF Destroy, Goto
        <3> QED
            BY <1>0, <2>2, <3>2, StatusType DEF Destroy, Life
    <2>3. CASE WantExit
        BY <1>0, <2>3, StatusType, NoGoto DEF WantExit
    <2> QED
        BY <1>11, <2>1, <2>2, <2>3 DEF Environment
<1>12. CASE UNCHANGED vars
    BY <1>0, <1>12, StatusType, NoGoto DEF vars, status
<1> QED
    BY <1>0, <1>1, <1>2, <1>3, <1>4, <1>5, <1>6, <1>7, <1>8, <1>9, <1>10,
       <1>11, <1>12 DEF Next, CallerStep, TaskStep, Terminated

(***************************************************************************)
(* The safety invariant of both builds.                                    *)
(***************************************************************************)
\* The constructor establishes the invariant, whether or not start_paused.
LEMMA InitSafe == Init => SafeInv
<1> SUFFICES ASSUME Init PROVE SafeInv
    OBVIOUS
<1> USE ThreadAssumption DEF Init, StatusInit, Threads
<1>1. LockInv
    BY DEF LockInv
<1>2. RequestInv
    BY DEF RequestInv, RequestsHaveOwner, MTSSM_RUNNING, MTSSM_PAUSED,
           MTSSM_REQUEST_PAUSE, MTSSM_REQUEST_RUN
<1>3. PausedMeansQuiet
    BY DEF PausedMeansQuiet
<1> QED
    BY <1>1, <1>2, <1>3, InitType DEF SafeInv

\* A thread enters a wait loop, or std::thread::join, only with
\* m_mutex_pause_resume, and leaves it before it gives the lock back.
LEMMA LockStep == TypeOK /\ LockInv /\ [Next]_vars => LockInv'
<1> SUFFICES ASSUME TypeOK, LockInv, [Next]_vars PROVE LockInv'
    OBVIOUS
<1> USE ThreadAssumption
    DEF TypeOK, StatusOK, PcOK, Threads, LockInv, status, Goto
<1>1. ASSUME NEW c \in Callers, start(c) PROVE LockInv'
    BY <1>1 DEF start, Crash, joinable
<1>2. ASSUME NEW c \in Callers, suspend(c) PROVE LockInv'
    <2>1. CASE Unlocked /\ pause_task_blocking(c)
               /\ ReturnsOrHolds(c, "suspend")
        <3>1. CASE UNCHANGED status
            BY <1>2, <2>1, <3>1 DEF Unlocked, ReturnsOrHolds
        <3>2. CASE Block(c, "pause")
            BY <1>2, <2>1, <3>2 DEF Unlocked, ReturnsOrHolds, Block
        <3> QED
            BY <2>1, <3>1, <3>2 DEF pause_task_blocking
    <2>2. CASE pause_wait_loop(c) /\ ReturnsOrHolds(c, "suspend")
        BY <1>2, <2>2 DEF pause_wait_loop, ReturnsOrHolds, Return, Awake
    <2> QED
        BY <1>2, <2>1, <2>2 DEF suspend, Crash
<1>3. ASSUME NEW c \in Callers, resume(c) PROVE LockInv'
    <2>1. CASE Unlocked /\ resume_task_blocking(c)
               /\ ReturnsOrHolds(c, "resume")
        <3>1. CASE UNCHANGED status
            BY <1>3, <2>1, <3>1 DEF Unlocked, ReturnsOrHolds
        <3>2. CASE Block(c, "resume")
            BY <1>3, <2>1, <3>2 DEF Unlocked, ReturnsOrHolds, Block
        <3> QED
            BY <2>1, <3>1, <3>2 DEF resume_task_blocking
    <2>2. CASE resume_wait_loop(c) /\ ReturnsOrHolds(c, "resume")
        BY <1>3, <2>2 DEF resume_wait_loop, ReturnsOrHolds, Return, Awake
    <2> QED
        BY <1>3, <2>1, <2>2 DEF resume, Crash
<1>4. ASSUME NEW t \in Threads, graceful_exit_flag(t) PROVE LockInv'
    BY <1>4 DEF graceful_exit_flag
<1>5. ASSUME NEW t \in Threads, graceful_exit_locked(t) PROVE LockInv'
    BY <1>5 DEF graceful_exit_locked, AfterExit, Unlocked,
       set_exit_flag_blocking
<1>6. ASSUME NEW c \in Callers, join(c) PROVE LockInv'
    <2>1. CASE Goto(c, "join", "idle") /\ UNCHANGED m_mutex_pause_resume
        BY <1>6, <2>1 DEF join
    <2>2. CASE Goto(c, "join", "joining") /\ m_mutex_pause_resume' = c
               /\ Unlocked
        BY <1>6, <2>2 DEF join, Unlocked
    <2>3. CASE /\ pc[c] = "joining"
               /\ pc[Task] = "done"
               /\ pc' = [pc EXCEPT ![c] = "idle", ![Task] = "none"]
               /\ m_mutex_pause_resume' = None
        BY <1>6, <2>3 DEF join
    <2> QED
        BY <1>6, <2>1, <2>2, <2>3 DEF join
<1>7. CASE task_while \/ task_check \/ task_run_check
    BY <1>7 DEF task_while, task_check, task_run_check
<1>8. CASE task_wait_to_run
    BY <1>8 DEF task_wait_to_run, wait_to_run_returns, wait_to_run_blocks,
       Block, Return
<1>9. CASE task_update
    BY <1>9 DEF task_update, Crash
<1>10. ASSUME NEW t \in Threads, Timeout(t) PROVE LockInv'
    BY <1>10 DEF Timeout, wait_times_out
<1>11. CASE Environment
    BY <1>11 DEF Environment, Call, Destroy, WantExit
<1>12. CASE UNCHANGED vars
    BY <1>12 DEF vars
<1> QED
    BY <1>1, <1>2, <1>3, <1>4, <1>5, <1>6, <1>7, <1>8, <1>9, <1>10, <1>11,
       <1>12 DEF Next, CallerStep, TaskStep, Terminated

\* Whoever owns the lock owns the request: nobody else moves the state
\* machine away from the edge the owner waits on.
LEMMA RequestStep ==
    TypeOK /\ LockInv /\ RequestInv /\ [Next]_vars => RequestInv'
<1> SUFFICES ASSUME TypeOK, LockInv, RequestInv, [Next]_vars PROVE RequestInv'
    OBVIOUS
<1> USE ThreadAssumption
    DEF TypeOK, StatusOK, Threads, LockInv, RequestInv, RequestsHaveOwner,
        status, MTSSM_RUNNING, MTSSM_PAUSED, MTSSM_REQUEST_PAUSE,
        MTSSM_REQUEST_RUN, MTSSM_REQUEST_EXIT
<1>1. ASSUME NEW c \in Callers, start(c) PROVE RequestInv'
    BY <1>1 DEF start, Crash
<1>2. ASSUME NEW c \in Callers, suspend(c) PROVE RequestInv'
  <2>1. CASE Unlocked /\ pause_task_blocking(c) /\ ReturnsOrHolds(c, "suspend")
      BY <2>1 DEF Unlocked, pause_task_blocking, ReturnsOrHolds, Block, Return
  <2>2. CASE pause_wait_loop(c) /\ ReturnsOrHolds(c, "suspend")
      BY <2>2 DEF pause_wait_loop, ReturnsOrHolds, Return, Block, Awake
  <2>3. CASE Crash("assert")
      BY <2>3 DEF Crash
  <2> QED
      BY <1>2, <2>1, <2>2, <2>3 DEF suspend
<1>3. ASSUME NEW c \in Callers, resume(c) PROVE RequestInv'
  <2>1. CASE Unlocked /\ resume_task_blocking(c) /\ ReturnsOrHolds(c, "resume")
      BY <2>1 DEF Unlocked, resume_task_blocking, ReturnsOrHolds, Block, Return
  <2>2. CASE resume_wait_loop(c) /\ ReturnsOrHolds(c, "resume")
      BY <2>2 DEF resume_wait_loop, ReturnsOrHolds, Return, Block, Awake
  <2>3. CASE Crash("assert")
      BY <2>3 DEF Crash
  <2> QED
      BY <1>3, <2>1, <2>2, <2>3 DEF resume
<1>4. ASSUME NEW t \in Threads, graceful_exit_flag(t) PROVE RequestInv'
    BY <1>4 DEF graceful_exit_flag
<1>5. ASSUME NEW t \in Threads, graceful_exit_locked(t) PROVE RequestInv'
    BY <1>5 DEF graceful_exit_locked, Unlocked, set_exit_flag_blocking
<1>6. ASSUME NEW c \in Callers, join(c) PROVE RequestInv'
    BY <1>6 DEF join, Unlocked, Goto
<1>7. CASE task_while \/ task_check \/ task_run_check
    BY <1>7 DEF task_while, task_check, task_run_check
<1>8. CASE task_wait_to_run
    BY <1>8 DEF task_wait_to_run, wait_to_run_returns, wait_to_run_blocks,
       Block, Return
<1>9. CASE task_update
    BY <1>9 DEF task_update, Crash
<1>10. ASSUME NEW t \in Threads, Timeout(t) PROVE RequestInv'
    BY <1>10 DEF Timeout, wait_times_out
<1>11. CASE Environment
    BY <1>11 DEF Environment, Call, Destroy, WantExit
<1>12. CASE UNCHANGED vars
    BY <1>12 DEF vars
<1> QED
    BY <1>1, <1>2, <1>3, <1>4, <1>5, <1>6, <1>7, <1>8, <1>9, <1>10, <1>11,
       <1>12 DEF Next, CallerStep, TaskStep, Terminated

\* The pause is acknowledged between two executions of update().
LEMMA QuietStep ==
    TypeOK /\ LockInv /\ PausedMeansQuiet /\ [Next]_vars => PausedMeansQuiet'
<1> SUFFICES ASSUME TypeOK, LockInv, PausedMeansQuiet, [Next]_vars
             PROVE  PausedMeansQuiet'
    OBVIOUS
<1> USE ThreadAssumption
    DEF TypeOK, StatusOK, PcOK, Threads, LockInv, PausedMeansQuiet, is_paused,
        status, Goto, MTSSM_RUNNING, MTSSM_PAUSED, MTSSM_REQUEST_PAUSE,
        MTSSM_REQUEST_RUN, MTSSM_REQUEST_EXIT
<1>1. ASSUME NEW c \in Callers, start(c) PROVE PausedMeansQuiet'
    BY <1>1 DEF start, Crash
<1>2. ASSUME NEW c \in Callers, suspend(c) PROVE PausedMeansQuiet'
    BY <1>2 DEF suspend, Crash, pause_task_blocking, pause_wait_loop,
       ReturnsOrHolds
<1>3. ASSUME NEW c \in Callers, resume(c) PROVE PausedMeansQuiet'
    BY <1>3 DEF resume, Crash, resume_task_blocking, resume_wait_loop,
       ReturnsOrHolds
<1>4. ASSUME NEW t \in Threads, graceful_exit_flag(t) PROVE PausedMeansQuiet'
    BY <1>4 DEF graceful_exit_flag
<1>5. ASSUME NEW t \in Threads, graceful_exit_locked(t)
      PROVE  PausedMeansQuiet'
    BY <1>5 DEF graceful_exit_locked, set_exit_flag_blocking
<1>6. ASSUME NEW c \in Callers, join(c) PROVE PausedMeansQuiet'
    BY <1>6 DEF join
<1>7. CASE task_while \/ task_check \/ task_run_check
    BY <1>7 DEF task_while, task_check, task_run_check
<1>8. CASE task_wait_to_run
    BY <1>8 DEF task_wait_to_run, wait_to_run_returns, wait_to_run_blocks
<1>9. CASE task_update
    BY <1>9 DEF task_update, Crash
<1>10. ASSUME NEW t \in Threads, Timeout(t) PROVE PausedMeansQuiet'
    BY <1>10 DEF Timeout, wait_times_out
<1>11. CASE Environment
    BY <1>11 DEF Environment, Call, Destroy, WantExit
<1>12. CASE UNCHANGED vars
    BY <1>12 DEF vars
<1> QED
    BY <1>1, <1>2, <1>3, <1>4, <1>5, <1>6, <1>7, <1>8, <1>9, <1>10, <1>11,
       <1>12 DEF Next, CallerStep, TaskStep, Terminated

\* SafeInv is inductive.
LEMMA SafeStep == SafeInv /\ [Next]_vars => SafeInv'
BY TypeStep, LockStep, RequestStep, QuietStep DEF SafeInv

\* SafeInv is an invariant of both builds.
LEMMA Safe == Spec => []SafeInv
BY InitSafe, SafeStep, PTL DEF Spec

(***************************************************************************)
(* Type correctness: a caller of the object is always at a point of the    *)
(* methods it may call, the managed thread at a point of task().           *)
(***************************************************************************)
THEOREM TypeCorrect == Spec => []TypeOK
<1>1. SafeInv => TypeOK
    BY DEF SafeInv
<1> QED
    BY <1>1, Safe, PTL

(***************************************************************************)
(* While is_paused() is true, update() neither runs nor is about to run,   *)
(* in either build and whatever the callers do.                            *)
(***************************************************************************)
THEOREM PausedThreadIsQuiet == Spec => []PausedMeansQuiet
<1>1. SafeInv => PausedMeansQuiet
    BY DEF SafeInv
<1> QED
    BY <1>1, Safe, PTL

(***************************************************************************)
(* Every pending request belongs to a caller that holds                    *)
(* m_mutex_pause_resume and waits for it, in either build.                 *)
(***************************************************************************)
THEOREM RequestOwnership == Spec => []RequestsHaveOwner
<1>1. SafeInv => RequestsHaveOwner
    BY DEF SafeInv, RequestInv
<1> QED
    BY <1>1, Safe, PTL

(***************************************************************************)
(* The Debug build, in which the asserts stop whoever would overwrite an   *)
(* exit request.                                                           *)
(***************************************************************************)

\* Everybody who sleeps waits for the same edge of the state machine, and
\* there is one thread at each end of it.
LEMMA OneWaiter ==
    TypeOK /\ LockInv /\ NobodySleepsThrough => AtMostOneWaiter
BY DEF TypeOK, StatusOK, Threads, LockInv, NobodySleepsThrough,
       AtMostOneWaiter, MTSSM_REQUEST_PAUSE, MTSSM_REQUEST_RUN, MTSSM_PAUSED

\* Then one signal wakes them all.
LEMMA TriggerClears == AtMostOneWaiter => AfterTrigger(waiters) = {{}}
<1> SUFFICES ASSUME AtMostOneWaiter PROVE AfterTrigger(waiters) = {{}}
    OBVIOUS
<1>1. CASE waiters = {}
    BY <1>1 DEF AfterTrigger
<1>2. ASSUME NEW t \in waiters PROVE AfterTrigger(waiters) = {{}}
    <2>1. waiters = {t}
        BY DEF AtMostOneWaiter
    <2> QED
        BY <2>1 DEF AfterTrigger
<1> QED
    BY <1>1, <1>2

\* Nobody but the managed thread can be waiting when the lock is free.
LEMMA UnlockedWaiters ==
    TypeOK /\ LockInv /\ NobodySleepsThrough /\ Unlocked =>
        waiters \subseteq {Task}
BY ThreadAssumption
   DEF TypeOK, StatusOK, Threads, LockInv, NobodySleepsThrough, Unlocked

\* No request is pending when the lock is free.
LEMMA UnlockedState ==
    RequestInv /\ Unlocked =>
        m_state \notin {MTSSM_REQUEST_PAUSE, MTSSM_REQUEST_RUN}
BY ThreadAssumption DEF RequestInv, RequestsHaveOwner, Unlocked

\* The constructor establishes the stronger invariant.
LEMMA InitDebug == Init => DebugInv
<1> SUFFICES ASSUME Init PROVE DebugInv
    OBVIOUS
<1>1. QuietInv /\ NobodySleepsThrough
    BY DEF Init, StatusInit, QuietInv, NobodySleepsThrough, MTSSM_RUNNING,
       MTSSM_PAUSED, MTSSM_REQUEST_RUN, Threads
<1> QED
    BY <1>1, InitSafe DEF DebugInv

\* Every assignment to m_state wakes whoever waits for it.
LEMMA AwakeStep ==
    ASSUME ~NDEBUG
    PROVE  DebugInv /\ [Next]_vars => NobodySleepsThrough'
<1> SUFFICES ASSUME DebugInv, [Next]_vars PROVE NobodySleepsThrough'
    OBVIOUS
<1>a. AfterTrigger(waiters) = {{}}
    BY OneWaiter, TriggerClears DEF DebugInv, SafeInv
<1>b. Unlocked => /\ waiters \subseteq {Task}
                  /\ m_state \notin {MTSSM_REQUEST_PAUSE, MTSSM_REQUEST_RUN}
    BY UnlockedWaiters, UnlockedState DEF DebugInv, SafeInv
<1> USE ThreadAssumption
    DEF DebugInv, SafeInv, TypeOK, StatusOK, Threads, NobodySleepsThrough,
        status,
        MTSSM_RUNNING, MTSSM_PAUSED, MTSSM_REQUEST_PAUSE, MTSSM_REQUEST_RUN,
        MTSSM_REQUEST_EXIT, MTSSM
<1>1. ASSUME NEW c \in Callers, start(c) PROVE NobodySleepsThrough'
    BY <1>1 DEF start, Crash
<1>2. ASSUME NEW c \in Callers, suspend(c) PROVE NobodySleepsThrough'
    <2>1. CASE pause_task_blocking(c) /\ Unlocked
        BY <1>a, <2>1 DEF pause_task_blocking, trigger_all_and_wait, Block
    <2>2. CASE pause_wait_loop(c)
        BY <2>2 DEF pause_wait_loop, wait, Return, Awake, RequestInv
    <2> QED
        BY <1>2, <2>1, <2>2 DEF suspend, Crash
<1>3. ASSUME NEW c \in Callers, resume(c) PROVE NobodySleepsThrough'
    <2>1. CASE resume_task_blocking(c) /\ Unlocked
        BY <1>a, <2>1 DEF resume_task_blocking, trigger_all_and_wait, Block
    <2>2. CASE resume_wait_loop(c)
        BY <2>2 DEF resume_wait_loop, wait, Return, Awake, RequestInv
    <2> QED
        BY <1>3, <2>1, <2>2 DEF resume, Crash
<1>4. ASSUME NEW t \in Threads, graceful_exit_flag(t)
      PROVE  NobodySleepsThrough'
    BY <1>4 DEF graceful_exit_flag
<1>5. ASSUME NEW t \in Threads, graceful_exit_locked(t)
      PROVE  NobodySleepsThrough'
    BY <1>5, <1>a
    DEF graceful_exit_locked, set_exit_flag_blocking, trigger_all
<1>6. ASSUME NEW c \in Callers, join(c) PROVE NobodySleepsThrough'
    BY <1>6 DEF join
<1>7. CASE task_while \/ task_check \/ task_run_check
    BY <1>7 DEF task_while, task_check, task_run_check
<1>8. CASE task_wait_to_run
    <2>1. ASSUME NEW should_run, wait_to_run_returns(should_run)
          PROVE  NobodySleepsThrough'
        BY <1>a, <2>1 DEF wait_to_run_returns, trigger_all, Return, Awake
    <2>2. CASE wait_to_run_blocks
        BY <2>2 DEF wait_to_run_blocks, wait, Block, Awake, QuietInv
    <2> QED
        BY <1>8, <2>1, <2>2 DEF task_wait_to_run
<1>9. CASE task_update
    BY <1>9 DEF task_update, Crash
<1>10. ASSUME NEW t \in Threads, Timeout(t) PROVE NobodySleepsThrough'
    BY <1>10 DEF Timeout, wait_times_out, timeout
<1>11. CASE Environment
    BY <1>11 DEF Environment, Call, Destroy, WantExit
<1>12. CASE UNCHANGED vars
    BY <1>12 DEF vars
<1> QED
    BY <1>1, <1>2, <1>3, <1>4, <1>5, <1>6, <1>7, <1>8, <1>9, <1>10, <1>11,
       <1>12 DEF Next, CallerStep, TaskStep, Terminated

\* The asserts let a caller resume only a thread that is paused.
LEMMA AskedWhenPaused ==
    ASSUME ~NDEBUG
    PROVE  DebugInv /\ [Next]_vars => QuietInv'
<1> SUFFICES ASSUME DebugInv, [Next]_vars PROVE QuietInv'
    OBVIOUS
<1>b. Unlocked => m_state \notin {MTSSM_REQUEST_PAUSE, MTSSM_REQUEST_RUN}
    BY UnlockedState DEF DebugInv, SafeInv
<1> USE ThreadAssumption
    DEF DebugInv, SafeInv, TypeOK, StatusOK, PcOK, Threads, QuietInv, status,
        Goto, MTSSM_RUNNING, MTSSM_PAUSED, MTSSM_REQUEST_PAUSE,
        MTSSM_REQUEST_RUN, MTSSM_REQUEST_EXIT, MTSSM
<1>1. ASSUME NEW c \in Callers, start(c) PROVE QuietInv'
    BY <1>1 DEF start, Crash
<1>2. ASSUME NEW c \in Callers, suspend(c) PROVE QuietInv'
    <2>1. CASE pause_task_blocking(c) /\ Unlocked
        BY <1>2, <1>b, <2>1
        DEF pause_task_blocking, pause_asserts, Block, ReturnsOrHolds, suspend
    <2>2. CASE pause_wait_loop(c)
        BY <1>2, <2>2
        DEF pause_wait_loop, Return, ReturnsOrHolds, suspend, Crash
    <2> QED
        BY <1>2, <2>1, <2>2 DEF suspend, Crash
<1>3. ASSUME NEW c \in Callers, resume(c) PROVE QuietInv'
    <2>1. CASE resume_task_blocking(c) /\ Unlocked
        BY <1>3, <1>b, <2>1
        DEF resume_task_blocking, resume_asserts, Block, ReturnsOrHolds,
            resume, PausedMeansQuiet, is_paused
    <2>2. CASE resume_wait_loop(c)
        BY <1>3, <2>2
        DEF resume_wait_loop, Return, ReturnsOrHolds, resume, Crash
    <2> QED
        BY <1>3, <2>1, <2>2 DEF resume, Crash
<1>4. ASSUME NEW t \in Threads, graceful_exit_flag(t) PROVE QuietInv'
    BY <1>4 DEF graceful_exit_flag
<1>5. ASSUME NEW t \in Threads, graceful_exit_locked(t) PROVE QuietInv'
    BY <1>5 DEF graceful_exit_locked, set_exit_flag_blocking
<1>6. ASSUME NEW c \in Callers, join(c) PROVE QuietInv'
    BY <1>6 DEF join
<1>7. CASE task_while \/ task_check \/ task_run_check
    BY <1>7 DEF task_while, task_check, task_run_check, LockInv
<1>8. CASE task_wait_to_run
    <2>1. ASSUME NEW should_run, wait_to_run_returns(should_run)
          PROVE  QuietInv'
        BY <1>8, <2>1 DEF wait_to_run_returns, Return, Awake
    <2>2. CASE wait_to_run_blocks
        BY <1>8, <2>2 DEF task_wait_to_run, wait_to_run_blocks, Block, Awake
    <2> QED
        BY <1>8, <2>1, <2>2 DEF task_wait_to_run
<1>9. CASE task_update
    BY <1>9 DEF task_update, Crash
<1>10. ASSUME NEW t \in Threads, Timeout(t) PROVE QuietInv'
    BY <1>10 DEF Timeout, wait_times_out
<1>11. CASE Environment
    BY <1>11 DEF Environment, Call, Destroy, WantExit
<1>12. CASE UNCHANGED vars
    BY <1>12 DEF vars
<1> QED
    BY <1>1, <1>2, <1>3, <1>4, <1>5, <1>6, <1>7, <1>8, <1>9, <1>10, <1>11,
       <1>12 DEF Next, CallerStep, TaskStep, Terminated

\* DebugInv is inductive in the Debug build.
LEMMA DebugStep ==
    ASSUME ~NDEBUG
    PROVE  DebugInv /\ [Next]_vars => DebugInv'
BY SafeStep, AwakeStep, AskedWhenPaused DEF DebugInv

\* DebugInv is an invariant of the Debug build.
LEMMA DebugSafe ==
    ASSUME ~NDEBUG
    PROVE  Spec => []DebugInv
BY InitDebug, DebugStep, PTL DEF Spec

(***************************************************************************)
(* Debug build: a thread that still sleeps on the event waits for a state  *)
(* the machine is not in, so no wake-up is ever lost.                      *)
(***************************************************************************)
THEOREM NoLostWakeup ==
    ASSUME ~NDEBUG
    PROVE  Spec => []NobodySleepsThrough
<1>1. DebugInv => NobodySleepsThrough
    BY DEF DebugInv
<1> QED
    BY <1>1, DebugSafe, PTL

(***************************************************************************)
(* Debug build: at most one thread sleeps on the event, so a signal is as  *)
(* good as a broadcast.                                                    *)
(***************************************************************************)
THEOREM SignalSuffices ==
    ASSUME ~NDEBUG
    PROVE  Spec => []AtMostOneWaiter
<1>1. DebugInv => AtMostOneWaiter
    BY OneWaiter DEF DebugInv, SafeInv
<1> QED
    BY <1>1, DebugSafe, PTL

(***************************************************************************)
(* Debug build: nobody takes a request to exit back.                       *)
(***************************************************************************)
THEOREM ExitRequestStays ==
    ASSUME ~NDEBUG
    PROVE  Spec => ExitIsFinal
<1>1. [Next]_vars =>
          [m_state = MTSSM_REQUEST_EXIT => m_state' = MTSSM_REQUEST_EXIT]_vars
    BY DEF Next, vars, status, MTSSM_RUNNING, MTSSM_PAUSED,
       MTSSM_REQUEST_PAUSE, MTSSM_REQUEST_RUN, MTSSM_REQUEST_EXIT,
       CallerStep, TaskStep, Timeout, Environment, Terminated, Call, Destroy,
       WantExit, Crash, start, suspend, resume, graceful_exit_flag,
       graceful_exit_locked, join, task_while, task_check, task_wait_to_run,
       task_run_check, task_update, pause_asserts, pause_task_blocking,
       pause_wait_loop, resume_asserts, resume_task_blocking,
       resume_wait_loop, set_exit_flag_blocking, wait_to_run_returns,
       wait_to_run_blocks, wait_times_out
<1> QED
    BY <1>1, PTL DEF Spec, ExitIsFinal
=============================================================================
