------------------------ MODULE ManagedThreadContract ------------------------
(***************************************************************************)
(* What the callers of a ManagedThread have to keep to for the process to  *)
(* survive: which of the liberties in Env are harmless, for every set of   *)
(* callers and in either build.                                            *)
(***************************************************************************)
EXTENDS ManagedThreadProofs

(***************************************************************************)
(* The order in which the callers use the object.                          *)
(***************************************************************************)
\* At most one caller is in a method.
OneCall == \A c, d \in Callers : pc[c] # "idle" /\ pc[d] # "idle" => c = d

\* Before start and after join there is no thread.
LifeInv == life \in {"created", "joined"} => ~joinable

\* start is called once for each thread (without "double_start" and
\* "any_order").
StartInv ==
    \A c \in Callers : pc[c] = "start" =>
        /\ ~joinable
        /\ \A d \in Callers : pc[d] = "start" => d = c

\* The destructor is the last call and finds no thread (without
\* "destroy_running").
DestroyInv ==
    /\ ~derived => life \in {"destroying", "destroyed"}
    /\ life \in {"destroying", "destroyed"} => ~joinable /\ OneCall
    /\ life = "destroyed" => AllIdle
    /\ \A c \in Callers :
           pc[c] = "start" => life \notin {"destroying", "destroyed"}

\* A started thread has not been asked to exit, and calls that need one that
\* is running find it so (without "override", "racing_exit" and "restart").
OrderInv ==
    /\ ~wants_exit
    /\ pc[Task] \notin {"graceful_exit", "exit_lock"}
    /\ life \in {"created", "started"} => m_state # MTSSM_REQUEST_EXIT
    /\ life = "started" => ~m_should_exit /\ pc[Task] \notin {"done", "none"}
    /\ life \in {"created", "exiting"} => OneCall
    /\ \A c \in Callers :
           /\ pc[c] \in {"suspend", "resume"} => life = "started"
           /\ pc[c] = "start" => life = "created"
           /\ pc[c] \in {"graceful_exit", "exit_lock"} =>
                  life \in {"exiting", "destroying"}

\* Callers take none of the liberties that can end the process.  Overriding
\* should_exit(), racing and restarting do so by a failed assert only, so a
\* build without asserts stands them.
Careful ==
    /\ Env \cap {"double_start", "destroy_running", "any_order"} = {}
    /\ NDEBUG \/ Env \cap {"override", "racing_exit", "restart"} = {}

-----------------------------------------------------------------------------
(***************************************************************************)
(* The steps, pointwise.                                                   *)
(***************************************************************************)
PcMove(t, from, to) ==
    /\ pc[t] = from /\ pc'[t] = to
    /\ \A u \in Threads : u # t => pc'[u] = pc[u]

\* Goto moves one thread.
LEMMA GotoMoves ==
    ASSUME TypeOK, NEW t \in Threads, NEW from, NEW to, Goto(t, from, to)
    PROVE  PcMove(t, from, to)
  BY DEF TypeOK, PcOK, Goto, PcMove

\* The managed thread is not one of the callers.
LEMMA ThreadFacts ==
    /\ Task \in Threads /\ Task \notin Callers
    /\ \A c \in Callers : c \in Threads /\ c # Task
  BY ThreadAssumption DEF Threads

\* What no step of a method but these two concerns.
Same == UNCHANGED <<life, derived, wants_exit>>

NotExit == m_state' = MTSSM_REQUEST_EXIT => m_state = MTSSM_REQUEST_EXIT

\* A step of a caller in a method.
CallerMove(c) ==
    \/ /\ pc[c] = "start" /\ ~joinable
       /\ pc'[c] = "idle" /\ pc'[Task] = "top"
       /\ \A d \in Callers : d # c => pc'[d] = pc[d]
       /\ life' = IF life \in {"created", "joined"} THEN "started" ELSE life
       /\ ~m_should_exit' /\ UNCHANGED <<derived, wants_exit, crashed>>
       /\ NotExit
    \/ /\ pc[c] \in {"suspend", "resume"}
       /\ PcMove(c, pc[c], "idle") \/ UNCHANGED pc
       /\ Same /\ UNCHANGED <<m_should_exit, crashed>> /\ NotExit
    \/ /\ pc[c] = "start" /\ joinable /\ UNCHANGED pc /\ Same /\ NotExit
       /\ ~m_should_exit'
    \/ /\ pc[c] \in {"suspend", "resume"} /\ UNCHANGED <<pc, m_should_exit>>
       /\ Same /\ NotExit /\ Unlocked
       /\ \/ pc[c] = "suspend" /\ ~pause_asserts
          \/ pc[c] = "resume" /\ ~resume_asserts
    \/ /\ PcMove(c, "graceful_exit", "exit_lock") /\ Same
       /\ NotExit /\ UNCHANGED crashed
    \/ /\ pc[c] = "exit_lock"
       /\ PcMove(c, "exit_lock", IF life = "destroying" THEN "join" ELSE "idle")
       /\ life' = IF life = "exiting" THEN "exited" ELSE life
       /\ UNCHANGED <<m_should_exit, derived, wants_exit, crashed>>
    \/ /\ PcMove(c, "join", "idle") /\ ~joinable /\ life' = JoinedLife
       /\ UNCHANGED <<m_should_exit, derived, wants_exit, crashed>> /\ NotExit
    \/ /\ PcMove(c, "join", "joining") /\ joinable /\ Same /\ NotExit
       /\ UNCHANGED <<m_should_exit, crashed>>
    \/ /\ pc[c] = "joining" /\ pc[Task] = "done"
       /\ pc'[c] = "idle" /\ pc'[Task] = "none"
       /\ \A d \in Callers : d # c => pc'[d] = pc[d]
       /\ life' = JoinedLife
       /\ UNCHANGED <<m_should_exit, derived, wants_exit, crashed>> /\ NotExit

\* A step of task(), or one that only wakes a waiter.
TaskMove ==
    /\ Same
    /\ \A c \in Callers : pc'[c] = pc[c]
    /\ pc[Task] # "none" <=> pc'[Task] # "none"
    /\ m_should_exit' # m_should_exit => pc[Task] = "graceful_exit"
    /\ pc'[Task] = "done" => pc[Task] = "done" \/ m_should_exit
    /\ pc'[Task] \in {"graceful_exit", "exit_lock"} =>
           wants_exit \/ pc[Task] \in {"graceful_exit", "exit_lock"}
    /\ NotExit \/ pc[Task] = "exit_lock"
    /\ UNCHANGED crashed \/ (pc[Task] = "update" /\ ~derived)

\* A call, or the condition of an overridden should_exit().
EnvMove ==
    /\ UNCHANGED <<m_state, m_should_exit, crashed>>
    /\ \/ \E c \in Callers :
              \/ \E op \in {"start", "suspend", "resume", "graceful_exit",
                            "join"} :
                    /\ PcMove(c, "idle", op) /\ Permitted(op)
                    /\ life' = IF op = "graceful_exit" THEN "exiting" ELSE life
                    /\ UNCHANGED <<derived, wants_exit>>
              \/ /\ PcMove(c, "idle", "graceful_exit") /\ AllIdle
                 /\ \/ life \in {"created", "joined"}
                    \/ "destroy_running" \in Env
                 /\ life' = "destroying" /\ ~derived' /\ UNCHANGED wants_exit
       \/ "override" \in Env /\ UNCHANGED <<pc, life, derived>>

\* Every step is one of these.
LEMMA StepCases ==
    ASSUME TypeOK, [Next]_vars
    PROVE  \/ \E c \in Callers : CallerMove(c)
           \/ TaskMove \/ EnvMove \/ UNCHANGED vars
<1> USE ThreadFacts
<1>p. pc \in [Threads -> CallerPc \cup TaskPc]
    BY DEF TypeOK, PcOK
<1>s. MTSSM_REQUEST_PAUSE # MTSSM_REQUEST_EXIT
      /\ MTSSM_REQUEST_RUN # MTSSM_REQUEST_EXIT
      /\ MTSSM_PAUSED # MTSSM_REQUEST_EXIT /\ MTSSM_RUNNING # MTSSM_REQUEST_EXIT
    BY DEF MTSSM_REQUEST_PAUSE, MTSSM_REQUEST_RUN, MTSSM_PAUSED, MTSSM_RUNNING,
           MTSSM_REQUEST_EXIT
<1>1. ASSUME NEW c \in Callers, start(c) PROVE CallerMove(c)
  <2>1. NotExit
      BY <1>1 DEF start, Crash, status, NotExit
  <2>2. CASE joinable
      BY <1>1, <2>1, <2>2 DEF start, Crash, CallerMove, Same
  <2>3. CASE ~joinable
      BY <1>1, <1>p, <2>1, <2>3 DEF start, CallerMove
  <2> QED
      BY <2>2, <2>3
<1>2. ASSUME NEW c \in Callers, suspend(c) PROVE CallerMove(c)
  <2>1. CASE Unlocked /\ ~pause_asserts /\ Crash("assert")
      BY <1>2, <2>1 DEF suspend, Crash, status, NotExit, Same, CallerMove
  <2>2. CASE /\ pause_task_blocking(c) \/ pause_wait_loop(c)
             /\ ReturnsOrHolds(c, "suspend")
             /\ UNCHANGED <<wants_exit, derived, life, crashed>>
    <3>1. NotExit
        BY <1>s, <2>2
        DEF pause_task_blocking, pause_wait_loop, status, NotExit
    <3>2. PcMove(c, "suspend", "idle") \/ UNCHANGED pc
        BY <2>2, GotoMoves DEF ReturnsOrHolds
    <3> QED
        BY <1>2, <2>2, <3>1, <3>2 DEF suspend, Same, CallerMove
  <2> QED
      BY <1>2, <2>1, <2>2 DEF suspend
<1>3. ASSUME NEW c \in Callers, resume(c) PROVE CallerMove(c)
  <2>1. CASE Unlocked /\ ~resume_asserts /\ Crash("assert")
      BY <1>3, <2>1 DEF resume, Crash, status, NotExit, Same, CallerMove
  <2>2. CASE /\ resume_task_blocking(c) \/ resume_wait_loop(c)
             /\ ReturnsOrHolds(c, "resume")
             /\ UNCHANGED <<wants_exit, derived, life, crashed>>
    <3>1. NotExit
        BY <1>s, <2>2
        DEF resume_task_blocking, resume_wait_loop, status, NotExit
    <3>2. PcMove(c, "resume", "idle") \/ UNCHANGED pc
        BY <2>2, GotoMoves DEF ReturnsOrHolds
    <3> QED
        BY <1>3, <2>2, <3>1, <3>2 DEF resume, Same, CallerMove
  <2> QED
      BY <1>3, <2>1, <2>2 DEF resume
<1>4. ASSUME NEW c \in Callers, graceful_exit_flag(c) PROVE CallerMove(c)
  <2>1. PcMove(c, "graceful_exit", "exit_lock")
      BY <1>4, GotoMoves DEF graceful_exit_flag
  <2> QED
      BY <1>4, <2>1 DEF graceful_exit_flag, status, NotExit, Same, CallerMove
<1>5. ASSUME NEW c \in Callers, graceful_exit_locked(c) PROVE CallerMove(c)
  <2>1. AfterExit(c) = IF life = "destroying" THEN "join" ELSE "idle"
      BY DEF AfterExit
  <2>2. PcMove(c, "exit_lock", IF life = "destroying" THEN "join" ELSE "idle")
      BY <1>5, <2>1, GotoMoves DEF graceful_exit_locked
  <2>3. pc[c] = "exit_lock"
      BY <2>2 DEF PcMove
  <2>4. life' = IF life = "exiting" THEN "exited" ELSE life
      BY <1>5 DEF graceful_exit_locked
  <2> QED
      BY <1>5, <2>2, <2>3, <2>4 DEF graceful_exit_locked, CallerMove
<1>6. ASSUME NEW c \in Callers, join(c) PROVE CallerMove(c)
  <2>0. NotExit /\ UNCHANGED <<m_should_exit, derived, wants_exit, crashed>>
      BY <1>6 DEF join, status, NotExit
  <2>1. CASE Goto(c, "join", "idle") /\ ~joinable /\ life' = JoinedLife
      BY <2>0, <2>1, GotoMoves DEF CallerMove
  <2>2. CASE Goto(c, "join", "joining") /\ joinable /\ UNCHANGED life
      BY <2>0, <2>2, GotoMoves DEF CallerMove, Same
  <2>3. CASE /\ pc[c] = "joining" /\ pc[Task] = "done" /\ life' = JoinedLife
             /\ pc' = [pc EXCEPT ![c] = "idle", ![Task] = "none"]
      BY <1>p, <2>0, <2>3 DEF CallerMove
  <2> QED
      BY <1>6, <2>1, <2>2, <2>3 DEF join
<1>7. ASSUME TaskStep PROVE TaskMove
  <2>1. CASE task_while \/ task_check \/ task_run_check
    <3>1. NotExit /\ Same /\ UNCHANGED <<m_should_exit, crashed>>
        BY <2>1
        DEF task_while, task_check, task_run_check, status, NotExit, Same
    <3>2. PICK from \in {"top", "check", "ask", "run_check"},
               to \in {"done", "check", "wait_to_run", "ask", "graceful_exit",
                       "top", "update"} :
            /\ Goto(Task, from, to)
            /\ to = "done" => m_should_exit
            /\ to = "graceful_exit" => wants_exit
        BY <2>1 DEF task_while, task_check, task_run_check, should_exit
    <3>3. PcMove(Task, from, to)
        BY <3>2, GotoMoves
    <3> QED
        BY <3>1, <3>2, <3>3 DEF TaskMove, PcMove
  <2>2. CASE graceful_exit_flag(Task)
    <3>1. PcMove(Task, "graceful_exit", "exit_lock")
        BY <2>2, GotoMoves DEF graceful_exit_flag
    <3> QED
        BY <2>2, <3>1
        DEF graceful_exit_flag, status, NotExit, Same, TaskMove, PcMove
  <2>3. CASE graceful_exit_locked(Task)
    <3>1. PcMove(Task, "exit_lock", "wait_to_run")
      <4>1. AfterExit(Task) = "wait_to_run"
          BY DEF AfterExit
      <4> QED
          BY <2>3, <4>1, GotoMoves DEF graceful_exit_locked
    <3> QED
        BY <2>3, <3>1 DEF graceful_exit_locked, Same, TaskMove, PcMove
  <2>4. CASE task_wait_to_run
    <3>1. NotExit
        BY <1>s, <2>4
        DEF task_wait_to_run, wait_to_run_returns, wait_to_run_blocks, NotExit
    <3>2. /\ Same /\ UNCHANGED <<m_should_exit, crashed>>
          /\ \/ UNCHANGED pc
             \/ \E to \in {"run_check", "top"} : Goto(Task, "wait_to_run", to)
        BY <2>4 DEF task_wait_to_run, Same
    <3>3. CASE UNCHANGED pc
        BY <3>1, <3>2, <3>3 DEF TaskMove
    <3>4. CASE ~UNCHANGED pc
      <4>1. PICK to \in {"run_check", "top"} : Goto(Task, "wait_to_run", to)
          BY <3>2, <3>4
      <4>2. PcMove(Task, "wait_to_run", to)
          BY <4>1, GotoMoves
      <4> QED
          BY <3>1, <3>2, <4>1, <4>2 DEF TaskMove, PcMove
    <3> QED
        BY <3>3, <3>4
  <2>5. CASE task_update
    <3>1. CASE derived /\ Goto(Task, "update", "top")
      <4>1. PcMove(Task, "update", "top")
          BY <3>1, GotoMoves
      <4>2. UNCHANGED <<status, life, derived, wants_exit, m_should_exit,
                        crashed>>
          BY <2>5, <3>1 DEF task_update, status
      <4> QED
          BY <4>1, <4>2 DEF status, NotExit, Same, TaskMove, PcMove
    <3>2. CASE ~derived /\ pc[Task] = "update" /\ Crash("pure virtual call")
        BY <2>5, <3>2
        DEF task_update, Crash, status, NotExit, Same, TaskMove
    <3> QED
        BY <2>5, <3>1, <3>2 DEF task_update
  <2> QED
      BY <1>7, <2>1, <2>2, <2>3, <2>4, <2>5 DEF TaskStep
<1>8. ASSUME NEW t \in Threads, Timeout(t) PROVE TaskMove
    BY <1>8 DEF Timeout, wait_times_out, TaskMove, Same, NotExit
<1>9. ASSUME Environment PROVE EnvMove
  <2>1. ASSUME NEW c \in Callers, NEW op \in {"start", "suspend", "resume",
                                             "graceful_exit", "join"},
               Call(c, op)
        PROVE  EnvMove
    <3>1. PcMove(c, "idle", op)
        BY <2>1, GotoMoves DEF Call
    <3> QED
        BY <2>1, <3>1 DEF Call, status, EnvMove
  <2>2. ASSUME NEW c \in Callers, Destroy(c) PROVE EnvMove
    <3>1. PcMove(c, "idle", "graceful_exit")
        BY <2>2, GotoMoves DEF Destroy
    <3> QED
        BY <2>2, <3>1 DEF Destroy, status, EnvMove
  <2>3. CASE WantExit
      BY <2>3 DEF WantExit, status, EnvMove
  <2> QED
      BY <1>9, <2>1, <2>2, <2>3 DEF Environment
<1> QED
    BY <1>1, <1>2, <1>3, <1>4, <1>5, <1>6, <1>7, <1>8, <1>9
    DEF Next, CallerStep, Terminated

-----------------------------------------------------------------------------
(***************************************************************************)
(* The invariants.                                                         *)
(***************************************************************************)
\* A permitted call, by what it needs.
LEMMA PermittedFacts ==
    ASSUME NEW op, Permitted(op)
    PROVE  /\ life \notin {"destroying", "destroyed"}
           /\ "any_order" \notin Env =>
                /\ op = "start" =>
                     /\ AllIdle
                     /\ \/ life \in {"created", "joined"}
                        \/ "double_start" \in Env
                     /\ life # "joined" \/ "restart" \in Env
                /\ op \in {"suspend", "resume"} => life = "started"
                /\ op = "graceful_exit" => AllIdle \/ "racing_exit" \in Env
                /\ op = "join" => life # "created" /\ life # "exiting"
  BY DEF Permitted

\* Before start and after join there is no thread, whatever the callers do.
LEMMA LifeStep ==
    ASSUME TypeOK, LifeInv, [Next]_vars
    PROVE  LifeInv'
<1> USE ThreadFacts DEF LifeInv, joinable
<1>1. ASSUME NEW c \in Callers, CallerMove(c) PROVE LifeInv'
    BY <1>1 DEF CallerMove, PcMove, Same, JoinedLife
<1>2. CASE TaskMove
    BY <1>2 DEF TaskMove, Same
<1>3. CASE EnvMove
    BY <1>3 DEF EnvMove, PcMove
<1>4. CASE UNCHANGED vars
    BY <1>4 DEF vars
<1> QED
    BY <1>1, <1>2, <1>3, <1>4, StepCases

\* No thread is started over another.
LEMMA StartStep ==
    ASSUME "double_start" \notin Env, "any_order" \notin Env, TypeOK, LifeInv, StartInv, [Next]_vars
    PROVE  StartInv'
<1> USE ThreadFacts
<1>1. ASSUME NEW c \in Callers, CallerMove(c) PROVE StartInv'
    BY <1>1 DEF CallerMove, PcMove, StartInv, joinable
<1>2. CASE TaskMove
    BY <1>2 DEF TaskMove, StartInv, joinable
<1>3. CASE EnvMove
  <2>1. CASE UNCHANGED pc
      BY <2>1 DEF StartInv, joinable
  <2>2. ASSUME NEW c \in Callers, NEW op, PcMove(c, "idle", op), op # "start"
        PROVE  StartInv'
      BY <2>2 DEF PcMove, StartInv, joinable
  <2>3. ASSUME NEW c \in Callers, PcMove(c, "idle", "start"),
               Permitted("start")
        PROVE  StartInv'
    <3>1. AllIdle /\ ~joinable
        BY <2>3, PermittedFacts DEF LifeInv
    <3> QED
        BY <2>3, <3>1 DEF PcMove, StartInv, joinable, AllIdle
  <2> QED
      BY <1>3, <2>1, <2>2, <2>3 DEF EnvMove
<1>4. CASE UNCHANGED vars
    BY <1>4 DEF vars, StartInv, joinable
<1> QED
    BY <1>1, <1>2, <1>3, <1>4, StepCases

\* The destructor of an object that was joined meets nobody.
LEMMA DestroyStep ==
    ASSUME "destroy_running" \notin Env, TypeOK, LifeInv, DestroyInv,
           [Next]_vars
    PROVE  DestroyInv'
<1> USE ThreadFacts
<1>1. ASSUME NEW c \in Callers, CallerMove(c) PROVE DestroyInv'
  <2>1. pc[c] # "idle"
      BY <1>1 DEF CallerMove, PcMove
  <2>2. life # "destroyed"
      BY <2>1 DEF DestroyInv, AllIdle
  <2>3. CASE life # "destroying"
    <3>1. life' \notin {"destroying", "destroyed"} /\ UNCHANGED derived
        BY <1>1, <2>2, <2>3 DEF CallerMove, Same, JoinedLife
    <3> QED
        BY <2>2, <2>3, <3>1 DEF DestroyInv
  <2>4. CASE life = "destroying"
    <3>1. /\ ~joinable /\ pc[c] # "start"
          /\ \A d \in Callers : d # c => pc[d] = "idle"
        BY <2>1, <2>4 DEF DestroyInv, OneCall
    <3>2. /\ \A d \in Callers : d # c => pc'[d] = "idle"
          /\ pc'[Task] = pc[Task] /\ pc'[c] # "start"
          /\ \/ life' = "destroying"
             \/ life' = "destroyed" /\ pc'[c] = "idle"
      <4>1. pc[Task] # "done"
          BY <3>1 DEF joinable
      <4> QED
          BY <1>1, <2>4, <3>1 DEF CallerMove, PcMove, Same, JoinedLife, joinable
    <3> QED
        BY <3>1, <3>2 DEF DestroyInv, OneCall, AllIdle, joinable
  <2> QED
      BY <2>3, <2>4
<1>2. CASE TaskMove
    BY <1>2 DEF TaskMove, Same, DestroyInv, OneCall, AllIdle, joinable
<1>3. CASE EnvMove
  <2>1. CASE UNCHANGED <<pc, life, derived>>
      BY <2>1 DEF DestroyInv, OneCall, AllIdle, joinable
  <2>2. ASSUME NEW op, Permitted(op), UNCHANGED derived,
               life' = IF op = "graceful_exit" THEN "exiting" ELSE life
        PROVE  DestroyInv'
    <3>1. life \notin {"destroying", "destroyed"}
        BY <2>2, PermittedFacts
    <3> QED
        BY <2>2, <3>1 DEF DestroyInv
  <2>3. ASSUME NEW c \in Callers, PcMove(c, "idle", "graceful_exit"), AllIdle,
               life \in {"created", "joined"}, life' = "destroying"
        PROVE  DestroyInv'
      BY <2>3 DEF PcMove, DestroyInv, OneCall, AllIdle, LifeInv, joinable
  <2> QED
      BY <1>3, <2>1, <2>2, <2>3 DEF EnvMove
<1>4. CASE UNCHANGED vars
    BY <1>4 DEF vars, DestroyInv, OneCall, AllIdle, joinable
<1> QED
    BY <1>1, <1>2, <1>3, <1>4, StepCases

\* Nobody asks a thread to exit that others still pause and resume.
LEMMA OrderStep ==
    ASSUME Env \cap {"override", "racing_exit", "restart", "double_start",
                     "destroy_running", "any_order"} = {},
           TypeOK, LifeInv, DestroyInv, OrderInv, [Next]_vars
    PROVE  OrderInv'
<1> USE ThreadFacts
<1>1. ASSUME NEW c \in Callers, CallerMove(c) PROVE OrderInv'
  <2>0. UNCHANGED wants_exit /\ pc'[Task] \in {pc[Task], "top", "none"}
      BY <1>1 DEF CallerMove, PcMove, Same
  <2>1. CASE /\ pc[c] = "start" /\ ~joinable
             /\ pc'[c] = "idle" /\ pc'[Task] = "top"
             /\ \A d \in Callers : d # c => pc'[d] = pc[d]
             /\ life' = IF life \in {"created", "joined"} THEN "started"
                        ELSE life
             /\ ~m_should_exit' /\ NotExit
    <3>1. life = "created" /\ life' = "started"
        BY <2>1 DEF OrderInv
    <3>2. \A d \in Callers : pc'[d] = "idle"
        BY <2>1, <3>1 DEF OrderInv, OneCall
    <3> QED
        BY <2>0, <2>1, <3>1, <3>2 DEF OrderInv, NotExit
  <2>2. CASE /\ pc[c] \in {"suspend", "resume"}
             /\ PcMove(c, pc[c], "idle") \/ UNCHANGED pc
             /\ Same /\ UNCHANGED m_should_exit /\ NotExit
      BY <2>0, <2>2 DEF PcMove, Same, NotExit, OrderInv, OneCall
  <2>3. CASE /\ pc[c] = "start" /\ joinable
      BY <2>3 DEF OrderInv, LifeInv
  <2>4. CASE PcMove(c, "graceful_exit", "exit_lock") /\ Same /\ NotExit
    <3>1. life \in {"exiting", "destroying"}
        BY <2>4 DEF PcMove, OrderInv
    <3> QED
        BY <2>4, <3>1 DEF PcMove, Same, OrderInv, OneCall
  <2>5. CASE /\ PcMove(c, "exit_lock",
                       IF life = "destroying" THEN "join" ELSE "idle")
             /\ life' = IF life = "exiting" THEN "exited" ELSE life
    <3>1. \/ life = "exiting" /\ life' = "exited" /\ pc'[c] = "idle"
          \/ life = "destroying" /\ life' = "destroying" /\ pc'[c] = "join"
        BY <2>5 DEF PcMove, OrderInv
    <3>2. life = "exiting" => \A d \in Callers : pc'[d] = "idle"
        BY <2>5, <3>1 DEF PcMove, OrderInv, OneCall
    <3> QED
        BY <2>0, <2>5, <3>1, <3>2 DEF PcMove, OrderInv
  <2>6. CASE /\ pc[c] \in {"join", "joining"} /\ pc'[c] = "idle"
             /\ pc[Task] \in {"none", "done"} /\ life' = JoinedLife
             /\ \A d \in Callers : d # c => pc'[d] = pc[d]
    <3>1. life # "started" /\ life' \in {"joined", "destroyed"}
        BY <2>6 DEF OrderInv, JoinedLife
    <3>2. \A d \in Callers : pc'[d] \notin {"suspend", "resume", "start"}
        BY <2>6, <3>1 DEF OrderInv, OneCall
    <3>3. \A d \in Callers : pc'[d] \notin {"graceful_exit", "exit_lock"}
        BY <2>6, <3>1 DEF OrderInv, DestroyInv, OneCall
    <3> QED
        BY <2>0, <3>1, <3>2, <3>3 DEF OrderInv
  <2>7. CASE /\ PcMove(c, "join", "joining") /\ Same /\ NotExit
             /\ UNCHANGED m_should_exit
      BY <2>7 DEF PcMove, Same, NotExit, OrderInv, OneCall
  <2>8. CASE PcMove(c, "join", "idle") /\ ~joinable /\ life' = JoinedLife
      BY <2>6, <2>8 DEF PcMove, joinable
  <2> QED
      BY <1>1, <2>1, <2>2, <2>3, <2>4, <2>5, <2>6, <2>7, <2>8 DEF CallerMove
<1>2. CASE TaskMove
    BY <1>2 DEF TaskMove, Same, NotExit, OrderInv, OneCall
<1>3. CASE EnvMove
  <2>1. ASSUME NEW c \in Callers, NEW op, PcMove(c, "idle", op), Permitted(op),
               op \in {"start", "suspend", "resume", "graceful_exit", "join"},
               UNCHANGED <<wants_exit, m_state, m_should_exit>>,
               life' = IF op = "graceful_exit" THEN "exiting" ELSE life
        PROVE  OrderInv'
    <3>1. CASE op = "graceful_exit"
      <4>1. AllIdle
          BY <2>1, <3>1, PermittedFacts
      <4> QED
          BY <2>1, <3>1, <4>1 DEF PcMove, AllIdle, OrderInv, OneCall
    <3>2. CASE op = "start"
      <4>1. AllIdle /\ life = "created"
          BY <2>1, <3>2, PermittedFacts
      <4> QED
          BY <2>1, <3>2, <4>1 DEF PcMove, AllIdle, OrderInv, OneCall
    <3>3. CASE op \in {"suspend", "resume"}
      <4>1. life = "started"
          BY <2>1, <3>3, PermittedFacts
      <4> QED
          BY <2>1, <3>3, <4>1 DEF PcMove, OrderInv
    <3>4. CASE op = "join"
      <4>1. life # "created" /\ life # "exiting"
          BY <2>1, <3>4, PermittedFacts
      <4> QED
          BY <2>1, <3>4, <4>1 DEF PcMove, OrderInv
    <3> QED
        BY <2>1, <3>1, <3>2, <3>3, <3>4
  <2>2. ASSUME NEW c \in Callers, PcMove(c, "idle", "graceful_exit"), AllIdle,
               life' = "destroying", UNCHANGED wants_exit
        PROVE  OrderInv'
      BY <2>2 DEF PcMove, AllIdle, OrderInv
  <2> QED
      BY <1>3, <2>1, <2>2 DEF EnvMove
<1>4. CASE UNCHANGED vars
    BY <1>4 DEF vars, OrderInv, OneCall
<1> QED
    BY <1>1, <1>2, <1>3, <1>4, StepCases

\* No step of careful callers ends the process.
LEMMA CrashStep ==
    ASSUME Careful, SafeInv, StartInv, DestroyInv, NDEBUG \/ OrderInv,
           NoCrash, [Next]_vars
    PROVE  NoCrash'
<1> USE ThreadFacts
<1>0. TypeOK /\ RequestInv
    BY DEF SafeInv
<1>1. ASSUME NEW c \in Callers, CallerMove(c), crashed' # crashed PROVE FALSE
  <2>1. ~(pc[c] = "start" /\ joinable)
      BY DEF StartInv
  <2>2. /\ pc[c] \in {"suspend", "resume"} /\ Unlocked
        /\ \/ pc[c] = "suspend" /\ ~pause_asserts
           \/ pc[c] = "resume" /\ ~resume_asserts
      BY <1>1, <2>1 DEF CallerMove
  <2>3. ~NDEBUG
      BY <2>2 DEF pause_asserts, resume_asserts
  <2>4. m_state # MTSSM_REQUEST_EXIT
      BY <2>2, <2>3 DEF OrderInv
  <2>5. m_state \notin {MTSSM_REQUEST_PAUSE, MTSSM_REQUEST_RUN}
      BY <1>0, <2>2, UnlockedState
  <2> QED
      BY <2>2, <2>4, <2>5 DEF pause_asserts, resume_asserts
<1>2. ASSUME TaskMove, crashed' # crashed PROVE FALSE
  <2>1. pc[Task] = "update" /\ ~derived
      BY <1>2 DEF TaskMove
  <2> QED
      BY <2>1 DEF DestroyInv, joinable
<1>3. EnvMove \/ UNCHANGED vars => UNCHANGED crashed
    BY DEF EnvMove, vars
<1> QED
    BY <1>0, <1>1, <1>2, <1>3, StepCases DEF NoCrash

\* The object after its construction.
LEMMA InitContract ==
    ASSUME Init
    PROVE  LifeInv /\ StartInv /\ DestroyInv /\ OrderInv /\ NoCrash
<1> USE ThreadFacts
<1>1. /\ pc[Task] = "none" /\ \A c \in Callers : pc[c] = "idle"
      /\ life = "created" /\ derived /\ ~wants_exit /\ crashed = "no"
      /\ m_state # MTSSM_REQUEST_EXIT
    BY DEF Init, StatusInit, MTSSM_RUNNING, MTSSM_PAUSED, MTSSM_REQUEST_EXIT
<1> QED
    BY <1>1 DEF LifeInv, StartInv, DestroyInv, OrderInv, OneCall, NoCrash,
                joinable

(***************************************************************************)
(* An object is never destroyed under its running thread: if its owner     *)
(* joins before the destructor, ~ManagedThread finds no thread and update()*)
(* is never called on a destroyed derived class, whatever else callers do. *)
(***************************************************************************)
THEOREM JoinedBeforeDestructor ==
    ASSUME "destroy_running" \notin Env
    PROVE  Spec => [](~derived => ~joinable)
<1>1. Init => LifeInv /\ DestroyInv
    BY InitContract
<1>2. SafeInv /\ LifeInv /\ DestroyInv /\ [Next]_vars => LifeInv' /\ DestroyInv'
    BY LifeStep, DestroyStep DEF SafeInv
<1>3. DestroyInv => (~derived => ~joinable)
    BY DEF DestroyInv
<1> QED
    BY <1>1, <1>2, <1>3, Safe, PTL DEF Spec

(***************************************************************************)
(* The contract: callers who start once and join before they destroy never *)
(* end the process in a build without asserts.  With asserts it holds of   *)
(* those who, in addition, exit only when all other calls have returned,   *)
(* do not start again, and leave should_exit() alone.  Joining early is    *)
(* harmless in this sense in both.                                         *)
(***************************************************************************)
THEOREM CarefulCallersAreSafe ==
    ASSUME Careful
    PROVE  Spec => []NoCrash
<1> DEFINE Contract == /\ LifeInv /\ StartInv /\ DestroyInv /\ NoCrash
                       /\ NDEBUG \/ OrderInv
<1>0. /\ "double_start" \notin Env /\ "destroy_running" \notin Env
      /\ "any_order" \notin Env
    BY DEF Careful
<1>1. Init => Contract
    BY InitContract
<1>2. ASSUME SafeInv, Contract, [Next]_vars PROVE Contract'
  <2>0. TypeOK
      BY <1>2 DEF SafeInv
  <2>1. LifeInv' /\ StartInv' /\ DestroyInv'
      BY <1>0, <1>2, <2>0, LifeStep, StartStep, DestroyStep
  <2>2. NoCrash'
      BY <1>2, CrashStep
  <2>3. NDEBUG \/ OrderInv'
    <3>1. CASE NDEBUG
        BY <3>1
    <3>2. CASE ~NDEBUG
      <4>1. Env \cap {"override", "racing_exit", "restart", "double_start",
                      "destroy_running", "any_order"} = {}
          BY <1>0, <3>2 DEF Careful
      <4> QED
          BY <1>2, <2>0, <3>2, <4>1, OrderStep
    <3> QED
        BY <3>1, <3>2
  <2> QED
      BY <2>1, <2>2, <2>3
<1>3. Contract => NoCrash
    OBVIOUS
<1> HIDE DEF Contract
<1> QED
    BY <1>1, <1>2, <1>3, Safe, PTL DEF Spec

==============================================================================
