---------------------- MODULE ManagedThreadRefinement ----------------------
(***************************************************************************)
(* The Debug build of ManagedThread implements WorkPermit: every step of a *)
(* caller, of task(), of a timeout or of the environment is a step of      *)
(* WorkPermit or leaves its variables unchanged.                           *)
(***************************************************************************)
EXTENDS ManagedThreadProofs

\* The refinement mapping, under names of its own.
Mode     == ModeOf(m_state)
Working  == pc[Task] \in {"run_check", "update"}
CallOf   == [c \in Callers |->
                IF pc[c] \in {"suspend", "resume"} THEN pc[c] ELSE "none"]

Stutter == UNCHANGED <<Mode, Working, CallOf>>

\* Nobody enters or leaves suspend or resume.
LEMMA SameCalls ==
    ASSUME \A c \in Callers :
               \/ pc'[c] = pc[c]
               \/ {pc[c], pc'[c]} \cap {"suspend", "resume"} = {}
    PROVE  UNCHANGED CallOf
BY DEF CallOf

\* The managed thread neither takes a permit nor gives one back.
LEMMA SameWork ==
    ASSUME \/ pc'[Task] = pc[Task]
           \/ {pc[Task], pc'[Task]} \cap {"run_check", "update"} = {}
    PROVE  UNCHANGED Working
<1>1. Working \in BOOLEAN /\ Working' \in BOOLEAN
    BY DEF Working
<1>2. Working <=> Working'
    BY DEF Working
<1> QED
    BY <1>1, <1>2

\* A caller leaves suspend or resume.
LEMMA CallEnds ==
    ASSUME TypeOK, NEW c \in Callers, NEW op \in {"suspend", "resume"},
           Goto(c, op, "idle")
    PROVE  /\ CallOf[c] = op
           /\ CallOf' = [CallOf EXCEPT ![c] = "none"]
           /\ UNCHANGED Working
BY ThreadAssumption DEF TypeOK, PcOK, Threads, Goto, CallOf, Working

\* A step of the managed thread leaves the calls alone.
LEMMA TaskKeepsCalls ==
    ASSUME TypeOK, NEW from, NEW to, Goto(Task, from, to)
    PROVE  UNCHANGED CallOf /\ pc[Task] = from /\ pc'[Task] = to
BY ThreadAssumption DEF TypeOK, PcOK, Threads, Goto, CallOf

\* The modes of the five states.
LEMMA Modes ==
    /\ ModeOf(MTSSM_RUNNING) = "run"
    /\ ModeOf(MTSSM_REQUEST_PAUSE) = "run"
    /\ ModeOf(MTSSM_PAUSED) = "quiet"
    /\ ModeOf(MTSSM_REQUEST_RUN) = "quiet"
    /\ ModeOf(MTSSM_REQUEST_EXIT) = "exit"
BY DEF ModeOf, MTSSM_RUNNING, MTSSM_REQUEST_PAUSE, MTSSM_PAUSED,
       MTSSM_REQUEST_RUN, MTSSM_REQUEST_EXIT

\* A constructed ManagedThread has given no permit and has no caller.
LEMMA InitRefines == Init => Permit!Init
<1> SUFFICES ASSUME Init PROVE Permit!Init
    OBVIOUS
<1>1. Mode \in {"run", "quiet"}
    BY Modes DEF Init, StatusInit, Mode
<1>2. Working = FALSE
    BY DEF Init, Threads, Working
<1>3. CallOf = [c \in Callers |-> "none"]
    BY ThreadAssumption DEF Init, Threads, CallOf
<1> QED
    BY <1>1, <1>2, <1>3 DEF Permit!Init, Mode, Working, CallOf

\* Steps that only touch what WorkPermit does not see.
LEMMA StutterSteps ==
    ASSUME TypeOK, UNCHANGED m_state,
           \/ UNCHANGED pc
           \/ \E c \in Callers : \E from, to :
                  /\ Goto(c, from, to)
                  /\ {from, to} \cap {"suspend", "resume"} = {}
           \/ \E from, to :
                  /\ Goto(Task, from, to)
                  /\ {from, to} \cap {"run_check", "update"} = {}
    PROVE  Stutter
<1>1. UNCHANGED Mode
    BY DEF Mode
<1>2. CASE UNCHANGED pc
    BY <1>1, <1>2 DEF Stutter, Working, CallOf
<1>3. ASSUME NEW c \in Callers, NEW from, NEW to, Goto(c, from, to),
             {from, to} \cap {"suspend", "resume"} = {}
      PROVE  Stutter
    <2>1. UNCHANGED CallOf
        BY <1>3, SameCalls DEF TypeOK, PcOK, Threads, Goto
    <2>2. UNCHANGED Working
        BY <1>3, ThreadAssumption DEF TypeOK, PcOK, Threads, Goto, Working
    <2> QED
        BY <1>1, <2>1, <2>2 DEF Stutter
<1>4. ASSUME NEW from, NEW to, Goto(Task, from, to),
             {from, to} \cap {"run_check", "update"} = {}
      PROVE  Stutter
    <2>1. UNCHANGED CallOf /\ pc[Task] = from /\ pc'[Task] = to
        BY <1>4, TaskKeepsCalls
    <2>2. UNCHANGED Working
        BY <1>4, <2>1, SameWork
    <2> QED
        BY <1>1, <2>1, <2>2 DEF Stutter
<1> QED
    BY <1>2, <1>3, <1>4

\* suspend and resume reply, or do nothing WorkPermit sees.
LEMMA SuspendRefines ==
    ASSUME ~NDEBUG, DebugInv, NEW c \in Callers, suspend(c)
    PROVE  Stutter \/ Permit!Reply(c)
<1> USE DEF DebugInv, SafeInv
<1>1. ASSUME inside'[c] = "out", m_state = MTSSM_PAUSED, UNCHANGED m_state,
             ReturnsOrHolds(c, "suspend")
      PROVE  Permit!Reply(c)
    <2>1. /\ CallOf[c] = "suspend"
          /\ CallOf' = [CallOf EXCEPT ![c] = "none"]
          /\ UNCHANGED Working
        BY <1>1, CallEnds DEF ReturnsOrHolds
    <2>2. Mode = "quiet" /\ ~Working /\ UNCHANGED Mode
        BY <1>1, Modes DEF Mode, Working, PausedMeansQuiet, is_paused
    <2> QED
        BY <2>1, <2>2 DEF Permit!Reply, Mode, Working, CallOf
<1>2. CASE Unlocked /\ pause_task_blocking(c) /\ ReturnsOrHolds(c, "suspend")
    <2>1. CASE m_state = MTSSM_PAUSED
        <3>1. inside[c] = "out"
            BY <1>2, ThreadAssumption
            DEF LockInv, Unlocked
        <3> QED
            BY <1>1, <1>2, <2>1, <3>1 DEF pause_task_blocking, status
    <2>2. CASE m_state # MTSSM_PAUSED
        <3>1. m_state = MTSSM_RUNNING /\ m_state' = MTSSM_REQUEST_PAUSE
            BY <1>2, <2>2, UnlockedState
            DEF pause_task_blocking, pause_asserts, TypeOK, StatusOK, MTSSM
        <3>2. UNCHANGED pc
            BY <1>2, <2>2
            DEF pause_task_blocking, Block, ReturnsOrHolds, TypeOK, StatusOK,
                Threads
        <3> QED
            BY <3>1, <3>2, Modes DEF Stutter, Mode, Working, CallOf
    <2> QED
        BY <2>1, <2>2
<1>3. CASE pause_wait_loop(c) /\ ReturnsOrHolds(c, "suspend")
    <2>1. CASE m_state = MTSSM_PAUSED
        BY <1>1, <1>3, <2>1
        DEF pause_wait_loop, Return, TypeOK, StatusOK, Threads
    <2>2. CASE m_state # MTSSM_PAUSED
        BY <1>3, <2>2, StutterSteps
        DEF pause_wait_loop, ReturnsOrHolds, Awake
    <2> QED
        BY <2>1, <2>2
<1>4. CASE Crash("assert")
    BY <1>4, StutterSteps DEF Crash, status
<1> QED
    BY <1>2, <1>3, <1>4, suspend(c) DEF suspend

\* The same for resume.
LEMMA ResumeRefines ==
    ASSUME ~NDEBUG, DebugInv, NEW c \in Callers, resume(c)
    PROVE  Stutter \/ Permit!Reply(c)
<1> USE DEF DebugInv, SafeInv
<1>1. ASSUME inside'[c] = "out", m_state = MTSSM_RUNNING, UNCHANGED m_state,
             ReturnsOrHolds(c, "resume")
      PROVE  Permit!Reply(c)
    <2>1. /\ CallOf[c] = "resume"
          /\ CallOf' = [CallOf EXCEPT ![c] = "none"]
          /\ UNCHANGED Working
        BY <1>1, CallEnds DEF ReturnsOrHolds
    <2>2. Mode = "run" /\ UNCHANGED Mode
        BY <1>1, Modes DEF Mode
    <2> QED
        BY <2>1, <2>2 DEF Permit!Reply, Mode, Working, CallOf
<1>2. CASE Unlocked /\ resume_task_blocking(c) /\ ReturnsOrHolds(c, "resume")
    <2>1. CASE m_state = MTSSM_RUNNING
        <3>1. inside[c] = "out"
            BY <1>2, ThreadAssumption DEF LockInv, Unlocked
        <3> QED
            BY <1>1, <1>2, <2>1, <3>1 DEF resume_task_blocking, status
    <2>2. CASE m_state # MTSSM_RUNNING
        <3>1. m_state = MTSSM_PAUSED /\ m_state' = MTSSM_REQUEST_RUN
            BY <1>2, <2>2, UnlockedState
            DEF resume_task_blocking, resume_asserts, TypeOK, StatusOK, MTSSM
        <3>2. UNCHANGED pc
            BY <1>2, <2>2
            DEF resume_task_blocking, Block, ReturnsOrHolds, TypeOK, StatusOK,
                Threads
        <3> QED
            BY <3>1, <3>2, Modes DEF Stutter, Mode, Working, CallOf
    <2> QED
        BY <2>1, <2>2
<1>3. CASE resume_wait_loop(c) /\ ReturnsOrHolds(c, "resume")
    <2>1. CASE m_state = MTSSM_RUNNING
        BY <1>1, <1>3, <2>1
        DEF resume_wait_loop, Return, TypeOK, StatusOK, Threads
    <2>2. CASE m_state # MTSSM_RUNNING
        BY <1>3, <2>2, StutterSteps
        DEF resume_wait_loop, ReturnsOrHolds, Awake
    <2> QED
        BY <2>1, <2>2
<1>4. CASE Crash("assert")
    BY <1>4, StutterSteps DEF Crash, status
<1> QED
    BY <1>2, <1>3, <1>4, resume(c) DEF resume

\* wait_to_run acknowledges a request, grants a permit, or does nothing
\* WorkPermit sees.
LEMMA WaitToRunRefines ==
    ASSUME DebugInv, task_wait_to_run
    PROVE  Stutter \/ Permit!Grant \/ Permit!Quiesce \/ Permit!Wake
<1> USE DEF DebugInv, SafeInv
<1>0. pc[Task] = "wait_to_run" /\ ~Working
    BY DEF task_wait_to_run, Goto, Working
<1>1. CASE /\ Goto(Task, "wait_to_run", "run_check")
           /\ wait_to_run_returns(TRUE)
    <2>1. UNCHANGED CallOf /\ Working' = TRUE
        <3>1. UNCHANGED CallOf /\ pc'[Task] = "run_check"
            BY <1>1, TaskKeepsCalls
        <3> QED
            BY <3>1 DEF Working
    <2>2. CASE m_state = MTSSM_RUNNING /\ UNCHANGED m_state
        <3>1. Mode = "run" /\ UNCHANGED Mode
            BY <2>2, Modes DEF Mode
        <3> QED
            BY <1>0, <2>1, <3>1 DEF Permit!Grant, Mode, Working, CallOf
    <2>3. CASE m_state = MTSSM_REQUEST_RUN /\ m_state' = MTSSM_RUNNING
        <3>1. Mode = "quiet" /\ Mode' = "run"
            BY <2>3, Modes DEF Mode
        <3>2. \E c \in Callers : CallOf[c] = "resume"
            BY <2>3 DEF RequestInv, RequestsHaveOwner, LockInv, CallOf
        <3> QED
            BY <2>1, <3>1, <3>2
            DEF Permit!Wake, Permit!Asked, Mode, Working, CallOf
    <2> QED
        BY <1>1, <2>2, <2>3 DEF wait_to_run_returns
<1>2. CASE Goto(Task, "wait_to_run", "top") /\ wait_to_run_returns(FALSE)
    <2>1. UNCHANGED CallOf /\ Working' = FALSE
        <3>1. UNCHANGED CallOf /\ pc'[Task] = "top"
            BY <1>2, TaskKeepsCalls
        <3> QED
            BY <3>1 DEF Working
    <2>2. CASE UNCHANGED m_state
        BY <1>2, <2>2, StutterSteps
    <2>3. CASE m_state = MTSSM_REQUEST_PAUSE /\ m_state' = MTSSM_PAUSED
        <3>1. Mode = "run" /\ Mode' = "quiet"
            BY <2>3, Modes DEF Mode
        <3>2. \E c \in Callers : CallOf[c] = "suspend"
            BY <2>3 DEF RequestInv, RequestsHaveOwner, LockInv, CallOf
        <3>3. UNCHANGED Working
            BY <1>0, <2>1 DEF Working
        <3> QED
            BY <1>0, <2>1, <3>1, <3>2, <3>3
            DEF Permit!Quiesce, Permit!Asked, Mode, Working, CallOf
    <2> QED
        BY <1>2, <2>2, <2>3 DEF wait_to_run_returns
<1>3. CASE wait_to_run_blocks /\ UNCHANGED pc
    BY <1>3, StutterSteps DEF wait_to_run_blocks
<1> QED
    BY <1>1, <1>2, <1>3 DEF task_wait_to_run

\* The permit is kept for update() and given back on the way to the loop.
LEMMA WorkRefines ==
    ASSUME DebugInv, task_run_check \/ task_update
    PROVE  Stutter \/ Permit!GiveBack
<1> USE DEF DebugInv, SafeInv
<1>0. Working /\ UNCHANGED Mode
    BY DEF task_run_check, task_update, Goto, Working, Mode, status, Crash
<1>1. CASE \E from : Goto(Task, from, "top")
    <2>1. UNCHANGED CallOf /\ pc'[Task] = "top"
        BY <1>1, TaskKeepsCalls
    <2>2. Working' = FALSE
        BY <2>1 DEF Working
    <2> QED
        BY <1>0, <2>1, <2>2 DEF Permit!GiveBack, Mode, Working, CallOf
<1>2. CASE Goto(Task, "run_check", "update")
    <2>1. UNCHANGED CallOf /\ pc[Task] = "run_check" /\ pc'[Task] = "update"
        BY <1>2, TaskKeepsCalls
    <2>2. UNCHANGED Working
        BY <2>1 DEF Working
    <2> QED
        BY <1>0, <2>1, <2>2 DEF Stutter
<1>3. CASE Crash("pure virtual call")
    BY <1>3, StutterSteps DEF Crash, status
<1> QED
    BY <1>1, <1>2, <1>3 DEF task_run_check, task_update

\* An exit request stops the thread.
LEMMA ExitRefines ==
    ASSUME DebugInv, NEW t \in Threads, graceful_exit_locked(t)
    PROVE  Permit!Stop
<1> USE ThreadAssumption DEF DebugInv, SafeInv
<1>1. Mode' = "exit"
    BY Modes DEF graceful_exit_locked, set_exit_flag_blocking, Mode
<1>2. UNCHANGED CallOf
    BY SameCalls
    DEF graceful_exit_locked, Goto, AfterExit, TypeOK, PcOK, Threads
<1>3. UNCHANGED Working
    BY SameWork
    DEF graceful_exit_locked, Goto, AfterExit, TypeOK, PcOK, Threads
<1> QED
    BY <1>1, <1>2, <1>3 DEF Permit!Stop, Mode, Working, CallOf

\* Entering suspend or resume is asking; the other calls are invisible.
LEMMA EnvironmentRefines ==
    ASSUME DebugInv, Environment
    PROVE  \/ Stutter
           \/ \E c \in Callers, op \in {"suspend", "resume"} : Permit!Ask(c, op)
<1> USE ThreadAssumption DEF DebugInv, SafeInv
<1>1. ASSUME NEW c \in Callers, NEW op \in {"suspend", "resume"}, Call(c, op)
      PROVE  Permit!Ask(c, op)
    <2>1. UNCHANGED Mode /\ UNCHANGED Working
        BY <1>1
        DEF Call, Goto, TypeOK, PcOK, Threads, Mode, Working, status
    <2>2. CallOf[c] = "none" /\ CallOf' = [CallOf EXCEPT ![c] = op]
        BY <1>1 DEF Call, Goto, TypeOK, PcOK, Threads, CallOf
    <2> QED
        BY <2>1, <2>2 DEF Permit!Ask, Mode, Working, CallOf
<1>2. ASSUME NEW c \in Callers, NEW op \in {"start", "graceful_exit", "join"},
             Call(c, op)
      PROVE  Stutter
    BY <1>2, StutterSteps DEF Call, status
<1>3. ASSUME NEW c \in Callers, Destroy(c) PROVE Stutter
    BY <1>3, StutterSteps DEF Destroy, status
<1>4. CASE WantExit
    BY <1>4, StutterSteps DEF WantExit, status
<1> QED
    BY <1>1, <1>2, <1>3, <1>4 DEF Environment

\* Every step is a step of WorkPermit or a stutter.
LEMMA StepRefines ==
    ASSUME ~NDEBUG
    PROVE  DebugInv /\ [Next]_vars => [Permit!Next]_(Permit!vars)
<1> SUFFICES ASSUME DebugInv, [Next]_vars
             PROVE  Stutter \/ Permit!Next
    BY DEF Permit!vars, Stutter, Mode, Working, CallOf
<1> USE DEF DebugInv, SafeInv
<1>1. ASSUME NEW c \in Callers, start(c) PROVE Stutter
    <2>1. UNCHANGED Mode
        BY <1>1 DEF start, Crash, status, Mode
    <2>2. UNCHANGED CallOf
        BY <1>1, ThreadAssumption, SameCalls
        DEF start, Crash, TypeOK, PcOK, Threads
    <2>3. UNCHANGED Working
        BY <1>1, ThreadAssumption, SameWork
        DEF start, joinable, Crash, TypeOK, PcOK, Threads
    <2> QED
        BY <2>1, <2>2, <2>3 DEF Stutter
<1>2. ASSUME NEW c \in Callers, suspend(c) \/ resume(c)
      PROVE  Stutter \/ Permit!Next
    BY <1>2, SuspendRefines, ResumeRefines DEF Permit!Next
<1>3. ASSUME NEW t \in Threads, graceful_exit_flag(t) PROVE Stutter
    BY <1>3, StutterSteps DEF graceful_exit_flag, Threads, status
<1>4. ASSUME NEW t \in Threads, graceful_exit_locked(t) PROVE Permit!Next
    BY <1>4, ExitRefines DEF Permit!Next
<1>5. ASSUME NEW c \in Callers, join(c) PROVE Stutter
    <2>1. CASE pc' = [pc EXCEPT ![c] = "idle", ![Task] = "none"]
               /\ pc[c] = "joining" /\ pc[Task] = "done"
        <3>1. UNCHANGED Mode
            BY <1>5 DEF join, status, Mode
        <3>2. UNCHANGED CallOf
            BY <2>1, ThreadAssumption, SameCalls DEF TypeOK, PcOK, Threads
        <3>3. UNCHANGED Working
            BY <2>1, ThreadAssumption, SameWork DEF TypeOK, PcOK, Threads
        <3> QED
            BY <3>1, <3>2, <3>3 DEF Stutter
    <2> QED
        BY <1>5, <2>1, StutterSteps DEF join, status
<1>6. CASE task_while \/ task_check
    BY <1>6, StutterSteps DEF task_while, task_check, status
<1>7. CASE task_wait_to_run
    BY <1>7, WaitToRunRefines DEF Permit!Next
<1>8. CASE task_run_check \/ task_update
    BY <1>8, WorkRefines DEF Permit!Next
<1>9. ASSUME NEW t \in Threads, Timeout(t) PROVE Stutter
    BY <1>9, StutterSteps DEF Timeout, wait_times_out
<1>10. CASE Environment
    BY <1>10, EnvironmentRefines DEF Permit!Next
<1>11. CASE UNCHANGED vars
    BY <1>11, StutterSteps DEF vars
<1> QED
    BY <1>1, <1>2, <1>3, <1>4, <1>5, <1>6, <1>7, <1>8, <1>9, <1>10, <1>11
    DEF Next, CallerStep, TaskStep, Terminated, Threads

(***************************************************************************)
(* The Debug build of ManagedThread keeps the promise of WorkPermit: with  *)
(* whatever calls in whatever order, suspend returns only when update() is *)
(* not running and will not start until a resume is acknowledged, and no   *)
(* update() starts under a permit given after an exit request.             *)
(***************************************************************************)
THEOREM KeepsWorkPermit ==
    ASSUME ~NDEBUG
    PROVE  Spec => ImplementsWorkPermit
<1> QED
    BY InitRefines, StepRefines, DebugSafe, PTL
    DEF Spec, ImplementsWorkPermit, Permit!Spec
=============================================================================
