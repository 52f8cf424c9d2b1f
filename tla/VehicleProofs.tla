--------------------------- MODULE VehicleProofs ---------------------------
(***************************************************************************)
(* Proofs about Vehicle, for any number of parts and of SIGINTs.           *)
(***************************************************************************)
EXTENDS Vehicle, TLAPS

Holding  == {"resume_locked", "resume_wait", "joining"}
Exiting  == {"exit_flag", "exit_lock", "join", "joining"}
Resuming == {"resume", "resume_locked", "resume_wait"}
Starting == {"start"} \cup Resuming
Ending   == {"destroy", "end"} \cup Exiting

(***************************************************************************)
(* The inductive invariant of both builds.                                 *)
(***************************************************************************)
\* The loops over m_parts are within its bounds, and what only a threaded
\* part obeys is done to threaded parts.
BasePlace(a, k) ==
    /\ a = "adding" => k \in 0..N
    /\ a \in {"start", "destroy"} => k \in 1..(N + 1)
    /\ a \in Resuming => k \in Threaded
    /\ a \in Exiting => k \in Part
    /\ a = "loop" => k = N + 1

HandlerPlace(a, k) ==
    /\ a = "shutdown" => k \in 1..(N + 1)
    /\ a \in Exiting => k \in Threaded

PlaceInv ==
    /\ BasePlace(at[Base], part[Base])
    /\ \A t \in Thread : HandlerPlace(at[t], part[t])

\* Frames that hold m_mutex_pause_resume of one part are of one thread.
LockInv ==
    \A f, g \in Frame :
        at[f] \in Holding /\ at[g] \in Holding /\ part[f] = part[g]
            => ThreadOf(f) = ThreadOf(g)

\* Part p is still to be started.
NotYetAt(a, k, p) ==
    a = "adding" \/ (a = "start" /\ p >= k) \/ (a \in Resuming /\ p > k)

NotYet(p) == NotYetAt(at[Base], part[Base], p)

Alive(p) == thread[p] \in {"top", "wait_to_run"}

\* Who has a thread: none before it is started, and one that executes a
\* handler does not end.  Handlers on parts' threads come and go while the
\* main thread is in one.
LifeInv ==
    /\ \A p \in Part \ Threaded : thread[p] = "none"
    /\ \A p \in Part : NotYet(p) => thread[p] = "none"
    /\ \A p \in Part : at[p] # "idle" => Alive(p)
    /\ at[Main] = "idle" => \A p \in Part : at[p] = "idle"

\* The handler on the main thread leaves the parts it has passed joined.
HandlerInv ==
    /\ at[Main] \in {"shutdown"} \cup Exiting =>
        \A p \in Threaded :
            p < part[Main] => m_state[p] = "REQUEST_EXIT" /\ thread[p] = "none"
    /\ at[Main] \in {"join", "joining"} => m_state[part[Main]] = "REQUEST_EXIT"

\* While m_running is true no stop() has begun, and what is started runs.
RunInv ==
    m_running =>
        /\ at[Base] \in Starting \cup {"loop"}
        /\ \A t \in Thread : at[t] \in {"idle", "stop"}
        /\ \A p \in Threaded :
            p < part[Base] => /\ m_state[p] = "RUNNING"
                              /\ ~m_should_exit[p] /\ Alive(p)
        /\ at[Base] \in Resuming =>
            ~m_should_exit[part[Base]] /\ Alive(part[Base])
        /\ at[Base] = "resume_wait" =>
            m_state[part[Base]] \in {"REQUEST_RUN", "RUNNING"}

VehicleInv ==
    TypeOK /\ PlaceInv /\ LockInv /\ LifeInv /\ HandlerInv /\ RunInv

(***************************************************************************)
(* What is added where the parts are joined before they are destroyed: in  *)
(* the Debug build, or when no SIGINT comes while the parts are started.   *)
(***************************************************************************)
Orderly == ~NDEBUG \/ "starting" \notin Phases

\* Without SIGINT in that phase, nothing has stopped the vehicle in it.
StartInv ==
    "starting" \notin Phases /\ at[Base] \in Starting =>
        m_running /\ at[Main] = "idle"

\* Once a handler has stopped the vehicle, all parts have been told to exit
\* and are joined, except one that start_blocking is starting nevertheless.
StopInv ==
    ~m_running /\ at[Base] \in Starting \cup {"loop"} /\ at[Main] = "idle" =>
        \A p \in Threaded :
            /\ m_state[p] = "REQUEST_EXIT"
            /\ \/ thread[p] = "none"
               \/ p = part[Base] /\ at[Base] \in {"resume", "resume_locked"}

EndInv ==
    at[Base] \in Ending =>
        at[Main] = "idle" /\ \A p \in Part : thread[p] = "none"

OrderlyInv == StartInv /\ StopInv /\ EndInv

(***************************************************************************)
(* What is added where nothing crashes: SIGINT comes to the main thread    *)
(* only, and not before the loop, unless the assert is compiled away and it*)
(* comes before start_blocking.                                            *)
(***************************************************************************)
Polite ==
    /\ Phases \cap {"starting", "handling"} = {}
    /\ NDEBUG \/ "adding" \notin Phases

CalmInv ==
    /\ crashed = "no"
    /\ \A p \in Part : at[p] = "idle"
    /\ \A p \in Part : ~derived[p] => at[Base] \in Ending
    /\ at[Base] \in {"adding"} \cup Starting /\ ~NDEBUG =>
        at[Main] = "idle" /\ \A p \in Part : m_state[p] # "REQUEST_EXIT"

-----------------------------------------------------------------------------
\* Frames, threads and parts.
LEMMA FrameFacts ==
    /\ Base \in Frame /\ Base \notin Thread /\ Base # Main
    /\ Frame = Thread \cup {Base}
    /\ Main \in Thread /\ Main \notin Part /\ Main = 0
    /\ Part \subseteq Thread /\ Thread = Part \cup {Main}
    /\ Threaded \subseteq Part /\ Part = 1..N
    /\ N \in Nat
    /\ ThreadOf(Base) = Main
    /\ \A t \in Thread : ThreadOf(t) = t
  BY VehicleAssumption DEF Base, Frame, Thread, Main, Part, ThreadOf

\* Parts are numbers.
LEMMA PartNat ==
    /\ \A p \in Part : p \in Nat /\ 1 <= p /\ p <= N
    /\ \A p \in Threaded : p \in Nat /\ 1 <= p /\ p <= N
  BY VehicleAssumption DEF Part

\* The constructors establish the invariant.
LEMMA InitVehicle == Init => VehicleInv
<1> SUFFICES ASSUME Init PROVE VehicleInv
    OBVIOUS
<1>1. /\ at[Base] = "adding" /\ part[Base] = 0
      /\ \A t \in Thread : at[t] = "idle"
    BY FrameFacts DEF Init
<1>2. TypeOK
  <2>1. /\ at \in [Frame -> BaseAt \cup HandlerAt]
        /\ part \in [Frame -> 0..(N + 1)]
      BY FrameFacts DEF Init, BaseAt, HandlerAt
  <2>2. at[Base] \in BaseAt /\ \A t \in Thread : at[t] \in HandlerAt
      BY <1>1 DEF BaseAt, HandlerAt
  <2>3. m_should_exit \in [Part -> BOOLEAN] /\ derived \in [Part -> BOOLEAN]
      BY DEF Init
  <2>4. signals \in 0..MaxSignals
      BY VehicleAssumption DEF Init
  <2> QED
      BY <2>1, <2>2, <2>3, <2>4 DEF Init, TypeOK
<1>3. PlaceInv
    BY <1>1, FrameFacts DEF PlaceInv, BasePlace, HandlerPlace, Resuming, Exiting
<1>4. LockInv
    BY <1>1, FrameFacts DEF LockInv, Holding
<1>5. LifeInv
    BY <1>1, FrameFacts DEF Init, LifeInv, Alive
<1>6. HandlerInv /\ RunInv
    BY <1>1, FrameFacts DEF Init, HandlerInv, RunInv, Exiting
<1> QED
    BY <1>2, <1>3, <1>4, <1>5, <1>6 DEF VehicleInv

-----------------------------------------------------------------------------
(***************************************************************************)
(* The actions in terms of what they do to a frame: f, of the thread that  *)
(* executes, goes from one place to another and its loop over m_parts is   *)
(* then at part k.                                                         *)
(***************************************************************************)
Moved(f, from, to, k) ==
    /\ crashed = "no" /\ (f = Base => at[Main] = "idle")
    /\ at[f] = from
    /\ at' \in [Frame -> BaseAt \cup HandlerAt] /\ at'[f] = to
    /\ part' \in [Frame -> 0..(N + 1)] /\ part'[f] = k
    /\ \A g \in Frame \ {f} : at'[g] = at[g] /\ part'[g] = part[g]

\* Goto moves a frame, and the assignment to part sets the part it is at.
LEMMA GotoMoves ==
    ASSUME TypeOK, NEW f \in Frame, NEW from, NEW to \in BaseAt \cup HandlerAt,
           Goto(f, from, to)
    PROVE  /\ UNCHANGED part => Moved(f, from, to, part[f])
           /\ \A k \in 0..(N + 1) :
                part' = [part EXCEPT ![f] = k] => Moved(f, from, to, k)
  BY DEF TypeOK, Goto, Runs, Moved

\* NextPart moves a frame to the next part.
LEMMA NextPartMoves ==
    ASSUME TypeOK, NEW f \in Frame, NEW from, NEW to \in BaseAt \cup HandlerAt,
           part[f] \in 0..N, NextPart(f, from, to)
    PROVE  Moved(f, from, to, part[f] + 1)
<1>1. part[f] + 1 \in 0..(N + 1)
    BY VehicleAssumption
<1>2. Goto(f, from, to) /\ part' = [part EXCEPT ![f] = part[f] + 1]
    BY DEF NextPart
<1> QED
    BY <1>1, <1>2, GotoMoves

\* The names of the places.
LEMMA Places ==
    /\ "adding" \in BaseAt /\ "start" \in BaseAt /\ "resume" \in BaseAt
    /\ "resume_locked" \in BaseAt /\ "resume_wait" \in BaseAt
    /\ "loop" \in BaseAt /\ "destroy" \in BaseAt /\ "end" \in BaseAt
    /\ Exiting \subseteq BaseAt /\ Exiting \subseteq HandlerAt
    /\ "idle" \in HandlerAt /\ "stop" \in HandlerAt /\ "shutdown" \in HandlerAt
    /\ \A f \in Frame : f = Base => AfterJoin(f) = "destroy"
    /\ \A t \in Thread : AfterJoin(t) = "shutdown"
  BY FrameFacts DEF BaseAt, HandlerAt, Exiting, AfterJoin

\* main(), up to and with start_blocking's loop over the parts.
LEMMA StartMoves ==
    ASSUME VehicleInv
    PROVE  /\ add => Moved(Base, "adding", "adding", part[Base] + 1)
           /\ start_blocking => Moved(Base, "adding", "start", 1)
           /\ start_part =>
                \/ /\ part[Base] \in Part \ Threaded
                   /\ Moved(Base, "start", "start", part[Base] + 1)
                   /\ UNCHANGED <<m_running, partVars, signals, crashed>>
                \/ /\ part[Base] \in Threaded
                   /\ Moved(Base, "start", "resume", part[Base])
                   /\ m_should_exit' =
                        [m_should_exit EXCEPT ![part[Base]] = FALSE]
                   /\ thread' = [thread EXCEPT ![part[Base]] = "top"]
                   /\ UNCHANGED <<m_running, m_state, derived, signals, crashed>>
           /\ start_done => Moved(Base, "start", "loop", N + 1)
           /\ resume_enter =>
                Moved(Base, "resume", "resume_locked", part[Base])
           /\ resume_request =>
                \/ /\ NDEBUG \/ m_state[part[Base]] # "REQUEST_EXIT"
                   /\ Moved(Base, "resume_locked", "resume_wait", part[Base])
                   /\ m_state' = [m_state EXCEPT ![part[Base]] = "REQUEST_RUN"]
                   /\ UNCHANGED <<m_running, m_should_exit, thread, derived,
                                  signals, crashed>>
                \/ /\ ~NDEBUG /\ m_state[part[Base]] = "REQUEST_EXIT"
                   /\ Crash("assert")
           /\ resume_return =>
                Moved(Base, "resume_wait", "start", part[Base] + 1)
<1> USE FrameFacts, Places
<1>0. /\ TypeOK /\ part[Base] \in 0..(N + 1)
      /\ at[Base] = "adding" => part[Base] \in 0..N
      /\ at[Base] = "start" => part[Base] \in 1..(N + 1)
      /\ at[Base] \in Resuming => part[Base] \in Threaded
    BY DEF VehicleInv, TypeOK, PlaceInv, BasePlace, HandlerPlace
<1>1. ASSUME add PROVE Moved(Base, "adding", "adding", part[Base] + 1)
  <2>1. part[Base] \in 0..N
      BY <1>0, <1>1 DEF add
  <2> QED
      BY <1>0, <1>1, <2>1, NextPartMoves DEF add
<1>2. ASSUME start_blocking PROVE Moved(Base, "adding", "start", 1)
  <2>1. 1 \in 0..(N + 1)
      OBVIOUS
  <2> QED
      BY <1>0, <1>2, <2>1, GotoMoves DEF start_blocking
<1>3. ASSUME start_part
      PROVE  \/ /\ part[Base] \in Part \ Threaded
                /\ Moved(Base, "start", "start", part[Base] + 1)
                /\ UNCHANGED <<m_running, partVars, signals, crashed>>
             \/ /\ part[Base] \in Threaded
                /\ Moved(Base, "start", "resume", part[Base])
                /\ m_should_exit' = [m_should_exit EXCEPT ![part[Base]] = FALSE]
                /\ thread' = [thread EXCEPT ![part[Base]] = "top"]
                /\ UNCHANGED <<m_running, m_state, derived, signals, crashed>>
  <2>1. part[Base] \in Part
      BY <1>3 DEF start_part
  <2>2. part[Base] \in 0..N
      BY <2>1
  <2>3. CASE part[Base] \notin Threaded
    <3>1. NextPart(Base, "start", "start")
        BY <1>3, <2>3 DEF start_part
    <3> QED
        BY <1>0, <1>3, <2>1, <2>2, <2>3, <3>1, NextPartMoves DEF start_part
  <2>4. CASE part[Base] \in Threaded
    <3>1. Goto(Base, "start", "resume") /\ UNCHANGED part
        BY <1>3, <2>4 DEF start_part
    <3> QED
        BY <1>0, <1>3, <2>4, <3>1, GotoMoves DEF start_part
  <2> QED
      BY <2>3, <2>4
<1>5. ASSUME start_done PROVE Moved(Base, "start", "loop", N + 1)
  <2>1. at[Base] = "start"
      BY <1>5 DEF start_done, Goto
  <2>2. part[Base] = N + 1
      BY <1>0, <1>5, <2>1 DEF start_done
  <2> QED
      BY <1>0, <1>5, <2>2, GotoMoves DEF start_done
<1>6. ASSUME resume_enter
      PROVE  Moved(Base, "resume", "resume_locked", part[Base])
    BY <1>0, <1>6, GotoMoves DEF resume_enter
<1>7. ASSUME resume_request
      PROVE  \/ /\ NDEBUG \/ m_state[part[Base]] # "REQUEST_EXIT"
                /\ Moved(Base, "resume_locked", "resume_wait", part[Base])
                /\ m_state' = [m_state EXCEPT ![part[Base]] = "REQUEST_RUN"]
                /\ UNCHANGED <<m_running, m_should_exit, thread, derived,
                               signals, crashed>>
             \/ /\ ~NDEBUG /\ m_state[part[Base]] = "REQUEST_EXIT"
                /\ Crash("assert")
  <2>1. CASE Crash("assert") /\ ~NDEBUG /\ m_state[part[Base]] = "REQUEST_EXIT"
      BY <2>1
  <2>2. CASE ~(Crash("assert") /\ ~NDEBUG
                /\ m_state[part[Base]] = "REQUEST_EXIT")
    <3>1. /\ Goto(Base, "resume_locked", "resume_wait") /\ UNCHANGED part
          /\ NDEBUG \/ m_state[part[Base]] # "REQUEST_EXIT"
        BY <1>7, <2>2 DEF resume_request
    <3> QED
        BY <1>0, <1>7, <2>2, <3>1, GotoMoves DEF resume_request
  <2> QED
      BY <2>1, <2>2
<1>9. ASSUME resume_return
      PROVE  Moved(Base, "resume_wait", "start", part[Base] + 1)
  <2>1. at[Base] = "resume_wait"
      BY <1>9 DEF resume_return, NextPart, Goto
  <2>2. part[Base] \in 0..N
      BY <1>0, <2>1 DEF Resuming
  <2> QED
      BY <1>0, <1>9, <2>2, NextPartMoves DEF resume_return
<1> QED
    BY <1>1, <1>2, <1>3, <1>5, <1>6, <1>7, <1>9

\* main(), from the loop of start_blocking to its end.
LEMMA EndMoves ==
    ASSUME VehicleInv
    PROVE  /\ loop => Moved(Base, "loop", "loop", N + 1)
           /\ loop_done => Moved(Base, "loop", "destroy", 1)
           /\ destroy_part => Moved(Base, "destroy", "exit_flag", part[Base])
           /\ destroy_done => Moved(Base, "destroy", "end", N + 1)
<1> USE FrameFacts, Places
<1>0. /\ TypeOK /\ part[Base] \in 0..(N + 1)
      /\ at[Base] = "loop" => part[Base] = N + 1
    BY DEF VehicleInv, TypeOK, PlaceInv, BasePlace, HandlerPlace
<1>1. ASSUME loop PROVE Moved(Base, "loop", "loop", N + 1)
  <2>1. at[Base] = "loop"
      BY <1>1 DEF loop, Goto
  <2> QED
      BY <1>0, <1>1, <2>1, GotoMoves DEF loop
<1>2. ASSUME loop_done PROVE Moved(Base, "loop", "destroy", 1)
  <2>1. 1 \in 0..(N + 1)
      OBVIOUS
  <2> QED
      BY <1>0, <1>2, <2>1, GotoMoves DEF loop_done
<1>3. ASSUME destroy_part
      PROVE  Moved(Base, "destroy", "exit_flag", part[Base])
    BY <1>0, <1>3, GotoMoves DEF destroy_part, Exiting
<1>4. ASSUME destroy_done PROVE Moved(Base, "destroy", "end", N + 1)
  <2>1. part[Base] = N + 1
      BY <1>0, <1>4 DEF destroy_done
  <2> QED
      BY <1>0, <1>4, <2>1, GotoMoves DEF destroy_done
<1> QED
    BY <1>1, <1>2, <1>3, <1>4

\* The handler: SIGINT, and stop() with its loop over the parts.
LEMMA HandlerMoves ==
    ASSUME VehicleInv, NEW t \in Thread
    PROVE  /\ signal_handler(t) => Moved(t, "idle", "stop", part[t])
           /\ stop(t) => Moved(t, "stop", "shutdown", 1)
           /\ shutdown(t) =>
                \/ /\ part[t] \in Threaded
                   /\ Moved(t, "shutdown", "exit_flag", part[t])
                \/ /\ part[t] \in Part \ Threaded
                   /\ Moved(t, "shutdown", "shutdown", part[t] + 1)
                \/ /\ part[t] > Added
                   /\ Moved(t, "shutdown", "idle", part[t])
<1> USE FrameFacts, Places
<1>0. /\ TypeOK /\ part[t] \in 0..(N + 1)
      /\ at[t] = "shutdown" => part[t] \in 1..(N + 1)
      /\ Added \in 0..N
  <2>1. /\ TypeOK /\ part[t] \in 0..(N + 1)
        /\ at[t] = "shutdown" => part[t] \in 1..(N + 1)
      BY DEF VehicleInv, TypeOK, PlaceInv, BasePlace, HandlerPlace
  <2>2. Added \in 0..N
      BY DEF VehicleInv, PlaceInv, BasePlace, Added
  <2> QED
      BY <2>1, <2>2
<1>1. ASSUME signal_handler(t) PROVE Moved(t, "idle", "stop", part[t])
    BY <1>0, <1>1, GotoMoves DEF signal_handler
<1>2. ASSUME stop(t) PROVE Moved(t, "stop", "shutdown", 1)
  <2>1. 1 \in 0..(N + 1)
      OBVIOUS
  <2> QED
      BY <1>0, <1>2, <2>1, GotoMoves DEF stop
<1>3. ASSUME shutdown(t)
      PROVE  \/ /\ part[t] \in Threaded
                /\ Moved(t, "shutdown", "exit_flag", part[t])
             \/ /\ part[t] \in Part \ Threaded
                /\ Moved(t, "shutdown", "shutdown", part[t] + 1)
             \/ /\ part[t] > Added
                /\ Moved(t, "shutdown", "idle", part[t])
  <2>1. CASE /\ part[t] \in Threaded
             /\ Goto(t, "shutdown", "exit_flag") /\ UNCHANGED part
      BY <1>0, <2>1, GotoMoves DEF Exiting
  <2>2. CASE /\ part[t] \notin Threaded /\ part[t] <= Added
             /\ NextPart(t, "shutdown", "shutdown")
    <3>1. at[t] = "shutdown"
        BY <2>2 DEF NextPart, Goto
    <3>2. part[t] \in Part \ Threaded /\ part[t] \in 0..N
        BY <1>0, <2>2, <3>1
    <3> QED
        BY <1>0, <2>2, <3>2, NextPartMoves
  <2>3. CASE /\ part[t] > Added
             /\ Goto(t, "shutdown", "idle") /\ UNCHANGED part
      BY <1>0, <2>3, GotoMoves
  <2> QED
      BY <1>3, <2>1, <2>2, <2>3 DEF shutdown
<1> QED
    BY <1>1, <1>2, <1>3

\* graceful_exit and join, in a handler or in a destructor.
LEMMA ExitMoves ==
    ASSUME VehicleInv, NEW f \in Frame
    PROVE  /\ graceful_exit_flag(f) =>
                Moved(f, "exit_flag", "exit_lock", part[f])
           /\ graceful_exit_locked(f) => Moved(f, "exit_lock", "join", part[f])
           /\ join(f) =>
                \/ /\ Moved(f, "join", AfterJoin(f), part[f] + 1)
                   /\ thread[part[f]] = "none"
                   /\ UNCHANGED <<m_running, partVars, signals, crashed>>
                \/ /\ Moved(f, "join", "joining", part[f])
                   /\ CanLock(f, part[f]) /\ ThreadOf(f) # part[f]
                   /\ UNCHANGED <<m_running, partVars, signals, crashed>>
                \/ at[f] = "join" /\ ThreadOf(f) = part[f] /\ Crash("terminate")
                \/ /\ Moved(f, "joining", AfterJoin(f), part[f] + 1)
                   /\ thread[part[f]] = "done"
                   /\ thread' = [thread EXCEPT ![part[f]] = "none"]
                   /\ UNCHANGED <<m_running, m_state, m_should_exit, derived,
                                  signals, crashed>>
<1> USE FrameFacts, Places
<1>0. /\ TypeOK /\ part[f] \in 0..(N + 1)
      /\ at[f] \in Exiting => part[f] \in Part
      /\ AfterJoin(f) \in BaseAt \cup HandlerAt
    BY DEF VehicleInv, TypeOK, PlaceInv, BasePlace, HandlerPlace, AfterJoin
<1>1. ASSUME graceful_exit_flag(f)
      PROVE  Moved(f, "exit_flag", "exit_lock", part[f])
    BY <1>0, <1>1, GotoMoves DEF graceful_exit_flag, Exiting
<1>2. ASSUME graceful_exit_locked(f)
      PROVE  Moved(f, "exit_lock", "join", part[f])
    BY <1>0, <1>2, GotoMoves DEF graceful_exit_locked, Exiting
<1>3. ASSUME join(f)
      PROVE  \/ /\ Moved(f, "join", AfterJoin(f), part[f] + 1)
                /\ thread[part[f]] = "none"
                /\ UNCHANGED <<m_running, partVars, signals, crashed>>
             \/ /\ Moved(f, "join", "joining", part[f])
                /\ CanLock(f, part[f]) /\ ThreadOf(f) # part[f]
                /\ UNCHANGED <<m_running, partVars, signals, crashed>>
             \/ at[f] = "join" /\ ThreadOf(f) = part[f] /\ Crash("terminate")
             \/ /\ Moved(f, "joining", AfterJoin(f), part[f] + 1)
                /\ thread[part[f]] = "done"
                /\ thread' = [thread EXCEPT ![part[f]] = "none"]
                /\ UNCHANGED <<m_running, m_state, m_should_exit, derived,
                               signals, crashed>>
  <2>1. CASE /\ NextPart(f, "join", AfterJoin(f))
             /\ ~joinable(part[f])
             /\ UNCHANGED <<m_running, partVars, signals, crashed>>
    <3>1. part[f] \in 0..N
        BY <1>0, <2>1 DEF NextPart, Goto, Exiting
    <3> QED
        BY <1>0, <2>1, <3>1, NextPartMoves DEF joinable
  <2>2. CASE /\ Goto(f, "join", "joining")
             /\ CanLock(f, part[f]) /\ ThreadOf(f) # part[f]
             /\ UNCHANGED <<m_running, part, partVars, signals, crashed>>
      BY <1>0, <2>2, GotoMoves DEF Exiting
  <2>3. CASE /\ at[f] = "join" /\ ThreadOf(f) = part[f] /\ Crash("terminate")
      BY <2>3
  <2>4. CASE /\ NextPart(f, "joining", AfterJoin(f))
             /\ thread[part[f]] = "done"
             /\ thread' = [thread EXCEPT ![part[f]] = "none"]
             /\ UNCHANGED <<m_running, m_state, m_should_exit, derived,
                            signals, crashed>>
    <3>1. part[f] \in 0..N
        BY <1>0, <2>4 DEF NextPart, Goto, Exiting
    <3> QED
        BY <1>0, <2>4, <3>1, NextPartMoves
  <2> QED
      BY <1>3, <2>1, <2>2, <2>3, <2>4 DEF join
<1> QED
    BY <1>1, <1>2, <1>3

\* A step of the thread of part p, pointwise.
LEMMA TaskFacts ==
    ASSUME TypeOK, NEW p \in Part
    PROVE  /\ task_while(p) =>
                /\ at[p] = "idle" /\ Alive(p)
                /\ thread' \in [Part -> {"none", "top", "wait_to_run", "done"}]
                /\ thread'[p] \in IF m_should_exit[p] THEN {"done"}
                                                      ELSE {"wait_to_run"}
                /\ \A q \in Part \ {p} : thread'[q] = thread[q]
                /\ UNCHANGED <<m_running, at, part, m_state, m_should_exit,
                               derived, signals, crashed>>
           /\ task_wait_to_run(p) =>
                \/ /\ at[p] = "idle" /\ Alive(p)
                   /\ thread' = [thread EXCEPT ![p] = "top"]
                   /\ m_state' \in [Part -> {"RUNNING", "PAUSED",
                                             "REQUEST_RUN", "REQUEST_EXIT"}]
                   /\ m_state[p] = "REQUEST_RUN" => m_state'[p] = "RUNNING"
                   /\ m_state[p] # "REQUEST_RUN" => m_state'[p] = m_state[p]
                   /\ \A q \in Part \ {p} : m_state'[q] = m_state[q]
                   /\ UNCHANGED <<m_running, at, part, m_should_exit, derived,
                                  signals, crashed>>
                \/ ~derived[p] /\ Alive(p) /\ Crash("pure virtual call")
  BY DEF TypeOK, task_while, task_wait_to_run, Alive

\* The actions of Next one by one.
LEMMA StepCases ==
    ASSUME [Next]_vars
    PROVE  \/ add \/ start_blocking \/ start_part \/ start_done
           \/ resume_enter \/ resume_request \/ resume_return
           \/ loop \/ loop_done \/ destroy_part \/ destroy_done
           \/ \E t \in Thread : stop(t) \/ shutdown(t) \/ signal_handler(t)
           \/ \E f \in Frame : \/ graceful_exit_flag(f)
                               \/ graceful_exit_locked(f) \/ join(f)
           \/ \E p \in Part : task_while(p) \/ task_wait_to_run(p)
           \/ UNCHANGED vars
  BY DEF Next, FrameStep, MainStep, ExitStep, TaskStep, Terminated

-----------------------------------------------------------------------------
(***************************************************************************)
(* What a move of a frame does to the invariant.                           *)
(***************************************************************************)
\* A move keeps the types of at and part.
LEMMA MovedType ==
    ASSUME TypeOK, NEW f \in Frame, NEW from, NEW to, NEW k,
           Moved(f, from, to, k),
           f = Base => to \in BaseAt, f # Base => to \in HandlerAt
    PROVE  /\ at' \in [Frame -> BaseAt \cup HandlerAt]
           /\ at'[Base] \in BaseAt
           /\ \A t \in Thread : at'[t] \in HandlerAt
           /\ part' \in [Frame -> 0..(N + 1)]
  BY FrameFacts DEF TypeOK, Moved

\* A move to a place that fits the part it is at.
LEMMA MovedPlace ==
    ASSUME PlaceInv, NEW f \in Frame, NEW from, NEW to, NEW k,
           Moved(f, from, to, k),
           f = Base => BasePlace(to, k), f # Base => HandlerPlace(to, k)
    PROVE  PlaceInv'
<1>1. CASE f = Base
  <2>1. at'[Base] = to /\ part'[Base] = k
      BY <1>1 DEF Moved
  <2>2. \A t \in Thread : at'[t] = at[t] /\ part'[t] = part[t]
      BY <1>1, FrameFacts DEF Moved
  <2>3. BasePlace(at'[Base], part'[Base])
      BY <1>1, <2>1
  <2>4. \A t \in Thread : HandlerPlace(at'[t], part'[t])
      BY <2>2 DEF PlaceInv
  <2> QED
      BY <2>3, <2>4 DEF PlaceInv, BasePlace, HandlerPlace
<1>2. CASE f # Base
  <2>1. at'[f] = to /\ part'[f] = k
      BY DEF Moved
  <2>2. \A g \in Frame : g # f => at'[g] = at[g] /\ part'[g] = part[g]
      BY DEF Moved
  <2>3. BasePlace(at'[Base], part'[Base])
      BY <1>2, <2>2, FrameFacts DEF PlaceInv
  <2>4. ASSUME NEW t \in Thread PROVE HandlerPlace(at'[t], part'[t])
      BY <1>2, <2>1, <2>2, FrameFacts DEF PlaceInv
  <2> QED
      BY <2>3, <2>4 DEF PlaceInv, BasePlace, HandlerPlace
<1> QED
    BY <1>1, <1>2

\* A frame comes to hold a lock only when no other thread holds it.
LEMMA MovedLock ==
    ASSUME LockInv, NEW f \in Frame, NEW from, NEW to, NEW k,
           Moved(f, from, to, k),
           to \in Holding => \/ from \in Holding /\ k = part[f]
                             \/ CanLock(f, k)
    PROVE  LockInv'
<1> SUFFICES ASSUME NEW g \in Frame, NEW h \in Frame,
                    at'[g] \in Holding, at'[h] \in Holding,
                    part'[g] = part'[h]
             PROVE  ThreadOf(g) = ThreadOf(h)
    BY DEF LockInv, ThreadOf
<1>0. /\ at[f] = from /\ at'[f] = to /\ part'[f] = k
      /\ \A x \in Frame : x # f => at'[x] = at[x] /\ part'[x] = part[x]
    BY DEF Moved
<1>1. ASSUME NEW x \in Frame, x # f, at[x] \in Holding, part[x] = k,
             to \in Holding
      PROVE  ThreadOf(x) = ThreadOf(f)
  <2>1. CASE from \in Holding /\ k = part[f]
      BY <1>0, <1>1, <2>1 DEF LockInv
  <2>2. CASE CanLock(f, k)
      BY <1>1, <2>2 DEF CanLock, HoldsLock, Holding
  <2> QED
      BY <1>1, <2>1, <2>2
<1>2. CASE g # f /\ h # f
    BY <1>0, <1>2 DEF LockInv
<1>3. CASE g = f /\ h # f
    BY <1>0, <1>1, <1>3
<1>4. CASE g # f /\ h = f
    BY <1>0, <1>1, <1>4
<1> QED
    BY <1>2, <1>3, <1>4

\* A step that moves no frame.
LEMMA StillShape ==
    ASSUME PlaceInv, LockInv, UNCHANGED <<at, part>>
    PROVE  PlaceInv' /\ LockInv'
<1>1. PlaceInv'
    BY DEF PlaceInv, BasePlace, HandlerPlace
<1>2. LockInv'
    BY DEF LockInv, ThreadOf
<1> QED
    BY <1>1, <1>2

\* A crash changes nothing else.
LEMMA CrashShape ==
    ASSUME TypeOK, PlaceInv, LockInv,
           NEW how \in {"assert", "terminate", "pure virtual call"}, Crash(how)
    PROVE  TypeOK' /\ PlaceInv' /\ LockInv'
<1>1. UNCHANGED <<at, part>> /\ crashed' \in {"assert", "terminate",
                                              "pure virtual call"}
    BY DEF Crash
<1>2. UNCHANGED <<m_running, m_state, m_should_exit, thread, derived, signals>>
    BY DEF Crash, partVars
<1> QED
    BY <1>1, <1>2, StillShape DEF TypeOK

\* After join a frame goes on with the next part, in the loop it came from.
LEMMA AfterJoinPlace ==
    ASSUME TypeOK, PlaceInv, NEW f \in Frame, NEW from \in {"join", "joining"},
           Moved(f, from, AfterJoin(f), part[f] + 1)
    PROVE  /\ f = Base => BasePlace(AfterJoin(f), part[f] + 1)
           /\ f # Base => HandlerPlace(AfterJoin(f), part[f] + 1)
<1>1. at[f] \in Exiting
    BY DEF Moved, Exiting
<1>2. part[f] \in Part
  <2>1. CASE f = Base
      BY <1>1, <2>1 DEF PlaceInv, BasePlace
  <2>2. CASE f # Base
      BY <1>1, <2>2, FrameFacts DEF PlaceInv, HandlerPlace
  <2> QED
      BY <2>1, <2>2
<1>3. part[f] + 1 \in 1..(N + 1)
    BY <1>2, FrameFacts
<1>4. CASE f = Base
    BY <1>3, <1>4, Places DEF BasePlace, Resuming, Exiting
<1>5. CASE f # Base
    BY <1>3, <1>5, Places, FrameFacts DEF HandlerPlace, Exiting
<1> QED
    BY <1>4, <1>5

\* Every step keeps the types, the loops over m_parts within their bounds, and
\* the owners of the locks unique.
LEMMA ShapeStep ==
    ASSUME VehicleInv, [Next]_vars
    PROVE  TypeOK' /\ PlaceInv' /\ LockInv'
<1> USE FrameFacts, VehicleAssumption
<1>0. /\ TypeOK /\ PlaceInv /\ LockInv
      /\ BasePlace(at[Base], part[Base])
      /\ \A t \in Thread : HandlerPlace(at[t], part[t])
      /\ part[Base] \in 0..(N + 1)
    BY DEF VehicleInv, PlaceInv, TypeOK
<1>1. CASE add
  <2>1. Moved(Base, "adding", "adding", part[Base] + 1)
      BY <1>1, StartMoves
  <2>2. BasePlace("adding", part[Base] + 1)
      BY <1>1, <2>1, <1>0 DEF BasePlace, Resuming, Exiting, Moved, add
  <2>3. PlaceInv'
      BY <1>0, <2>1, <2>2, MovedPlace
  <2>4. LockInv'
      BY <1>0, <1>1, <2>1, MovedLock DEF Holding
  <2>5. /\ at' \in [Frame -> BaseAt \cup HandlerAt]
        /\ at'[Base] \in BaseAt /\ \A u \in Thread : at'[u] \in HandlerAt
        /\ part' \in [Frame -> 0..(N + 1)]
      BY <1>0, <2>1, MovedType, Places
  <2>6. TypeOK'
      BY <1>0, <1>1, <2>5 DEF TypeOK, partVars, add
  <2> QED
      BY <2>3, <2>4, <2>6
<1>2. CASE start_blocking
  <2>1. Moved(Base, "adding", "start", 1)
      BY <1>2, StartMoves
  <2>2. BasePlace("start", 1)
      BY <1>2, <2>1, <1>0 DEF BasePlace, Resuming, Exiting, Moved, start_blocking
  <2>3. PlaceInv'
      BY <1>0, <2>1, <2>2, MovedPlace
  <2>4. LockInv'
      BY <1>0, <1>2, <2>1, MovedLock DEF Holding
  <2>5. /\ at' \in [Frame -> BaseAt \cup HandlerAt]
        /\ at'[Base] \in BaseAt /\ \A u \in Thread : at'[u] \in HandlerAt
        /\ part' \in [Frame -> 0..(N + 1)]
      BY <1>0, <2>1, MovedType, Places
  <2>6. TypeOK'
      BY <1>0, <1>2, <2>5 DEF TypeOK, partVars, start_blocking
  <2> QED
      BY <2>3, <2>4, <2>6
<1>3. CASE start_part
  <2>1. CASE /\ part[Base] \in Part \ Threaded
             /\ Moved(Base, "start", "start", part[Base] + 1)
             /\ UNCHANGED <<m_running, partVars, signals, crashed>>
    <3>2. BasePlace("start", part[Base] + 1)
        BY <2>1, <1>0 DEF BasePlace, Resuming, Exiting, Moved
    <3>3. PlaceInv'
        BY <1>0, <2>1, <3>2, MovedPlace
    <3>4. LockInv'
        BY <1>0, <2>1, MovedLock DEF Holding
    <3>5. /\ at' \in [Frame -> BaseAt \cup HandlerAt]
          /\ at'[Base] \in BaseAt /\ \A u \in Thread : at'[u] \in HandlerAt
          /\ part' \in [Frame -> 0..(N + 1)]
        BY <1>0, <2>1, MovedType, Places
    <3>6. TypeOK'
        BY <1>0, <2>1, <3>5 DEF TypeOK, partVars
    <3> QED
        BY <3>3, <3>4, <3>6
  <2>2. CASE /\ part[Base] \in Threaded
             /\ Moved(Base, "start", "resume", part[Base])
             /\ m_should_exit' =
                  [m_should_exit EXCEPT ![part[Base]] = FALSE]
             /\ thread' = [thread EXCEPT ![part[Base]] = "top"]
             /\ UNCHANGED <<m_running, m_state, derived, signals, crashed>>
    <3>2. BasePlace("resume", part[Base])
        BY <2>2, <1>0 DEF BasePlace, Resuming, Exiting, Moved
    <3>3. PlaceInv'
        BY <1>0, <2>2, <3>2, MovedPlace
    <3>4. LockInv'
        BY <1>0, <2>2, MovedLock DEF Holding
    <3>5. /\ at' \in [Frame -> BaseAt \cup HandlerAt]
          /\ at'[Base] \in BaseAt /\ \A u \in Thread : at'[u] \in HandlerAt
          /\ part' \in [Frame -> 0..(N + 1)]
        BY <1>0, <2>2, MovedType, Places
    <3>6. TypeOK'
        BY <1>0, <2>2, <3>5 DEF TypeOK, partVars
    <3> QED
        BY <3>3, <3>4, <3>6
  <2> QED
      BY <1>3, <2>1, <2>2, StartMoves
<1>4. CASE start_done
  <2>1. Moved(Base, "start", "loop", N + 1)
      BY <1>4, StartMoves
  <2>2. BasePlace("loop", N + 1)
      BY <1>4, <2>1, <1>0 DEF BasePlace, Resuming, Exiting, Moved, start_done
  <2>3. PlaceInv'
      BY <1>0, <2>1, <2>2, MovedPlace
  <2>4. LockInv'
      BY <1>0, <1>4, <2>1, MovedLock DEF Holding
  <2>5. /\ at' \in [Frame -> BaseAt \cup HandlerAt]
        /\ at'[Base] \in BaseAt /\ \A u \in Thread : at'[u] \in HandlerAt
        /\ part' \in [Frame -> 0..(N + 1)]
      BY <1>0, <2>1, MovedType, Places
  <2>6. TypeOK'
      BY <1>0, <1>4, <2>5 DEF TypeOK, partVars, start_done
  <2> QED
      BY <2>3, <2>4, <2>6
<1>5. CASE resume_enter
  <2>1. Moved(Base, "resume", "resume_locked", part[Base])
      BY <1>5, StartMoves
  <2>2. BasePlace("resume_locked", part[Base])
      BY <1>5, <2>1, <1>0 DEF BasePlace, Resuming, Exiting, Moved, resume_enter
  <2>3. PlaceInv'
      BY <1>0, <2>1, <2>2, MovedPlace
  <2>4. LockInv'
      BY <1>0, <1>5, <2>1, MovedLock DEF Holding, resume_enter
  <2>5. /\ at' \in [Frame -> BaseAt \cup HandlerAt]
        /\ at'[Base] \in BaseAt /\ \A u \in Thread : at'[u] \in HandlerAt
        /\ part' \in [Frame -> 0..(N + 1)]
      BY <1>0, <2>1, MovedType, Places
  <2>6. TypeOK'
      BY <1>0, <1>5, <2>5 DEF TypeOK, partVars, resume_enter
  <2> QED
      BY <2>3, <2>4, <2>6
<1>6. CASE resume_request
  <2>1. CASE /\ Moved(Base, "resume_locked", "resume_wait", part[Base])
             /\ m_state' = [m_state EXCEPT ![part[Base]] = "REQUEST_RUN"]
             /\ UNCHANGED <<m_running, m_should_exit, thread, derived,
                            signals, crashed>>
    <3>2. BasePlace("resume_wait", part[Base])
        BY <2>1, <1>0 DEF BasePlace, Resuming, Exiting, Moved
    <3>3. PlaceInv'
        BY <1>0, <2>1, <3>2, MovedPlace
    <3>4. LockInv'
        BY <1>0, <2>1, MovedLock DEF Holding
    <3>5. /\ at' \in [Frame -> BaseAt \cup HandlerAt]
          /\ at'[Base] \in BaseAt /\ \A u \in Thread : at'[u] \in HandlerAt
          /\ part' \in [Frame -> 0..(N + 1)]
        BY <1>0, <2>1, MovedType, Places
    <3>6. TypeOK'
        BY <1>0, <2>1, <3>5 DEF TypeOK, partVars
    <3> QED
        BY <3>3, <3>4, <3>6
  <2>2. CASE Crash("assert")
      BY <1>0, <2>2, CrashShape
  <2> QED
      BY <1>6, <2>1, <2>2, StartMoves
<1>7. CASE resume_return
  <2>1. Moved(Base, "resume_wait", "start", part[Base] + 1)
      BY <1>7, StartMoves
  <2>2. BasePlace("start", part[Base] + 1)
      BY <1>7, <2>1, <1>0 DEF BasePlace, Resuming, Exiting, Moved, resume_return
  <2>3. PlaceInv'
      BY <1>0, <2>1, <2>2, MovedPlace
  <2>4. LockInv'
      BY <1>0, <1>7, <2>1, MovedLock DEF Holding
  <2>5. /\ at' \in [Frame -> BaseAt \cup HandlerAt]
        /\ at'[Base] \in BaseAt /\ \A u \in Thread : at'[u] \in HandlerAt
        /\ part' \in [Frame -> 0..(N + 1)]
      BY <1>0, <2>1, MovedType, Places
  <2>6. TypeOK'
      BY <1>0, <1>7, <2>5 DEF TypeOK, partVars, resume_return
  <2> QED
      BY <2>3, <2>4, <2>6
<1>8. CASE loop
  <2>1. Moved(Base, "loop", "loop", N + 1)
      BY <1>8, EndMoves
  <2>2. BasePlace("loop", N + 1)
      BY <1>8, <2>1, <1>0 DEF BasePlace, Resuming, Exiting, Moved, loop
  <2>3. PlaceInv'
      BY <1>0, <2>1, <2>2, MovedPlace
  <2>4. LockInv'
      BY <1>0, <1>8, <2>1, MovedLock DEF Holding
  <2>5. /\ at' \in [Frame -> BaseAt \cup HandlerAt]
        /\ at'[Base] \in BaseAt /\ \A u \in Thread : at'[u] \in HandlerAt
        /\ part' \in [Frame -> 0..(N + 1)]
      BY <1>0, <2>1, MovedType, Places
  <2>6. TypeOK'
      BY <1>0, <1>8, <2>5 DEF TypeOK, partVars, loop
  <2> QED
      BY <2>3, <2>4, <2>6
<1>9. CASE loop_done
  <2>1. Moved(Base, "loop", "destroy", 1)
      BY <1>9, EndMoves
  <2>2. BasePlace("destroy", 1)
      BY <1>9, <2>1, <1>0 DEF BasePlace, Resuming, Exiting, Moved, loop_done
  <2>3. PlaceInv'
      BY <1>0, <2>1, <2>2, MovedPlace
  <2>4. LockInv'
      BY <1>0, <1>9, <2>1, MovedLock DEF Holding
  <2>5. /\ at' \in [Frame -> BaseAt \cup HandlerAt]
        /\ at'[Base] \in BaseAt /\ \A u \in Thread : at'[u] \in HandlerAt
        /\ part' \in [Frame -> 0..(N + 1)]
      BY <1>0, <2>1, MovedType, Places
  <2>6. TypeOK'
      BY <1>0, <1>9, <2>5 DEF TypeOK, partVars, loop_done
  <2> QED
      BY <2>3, <2>4, <2>6
<1>10. CASE destroy_part
  <2>1. Moved(Base, "destroy", "exit_flag", part[Base])
      BY <1>10, EndMoves
  <2>2. BasePlace("exit_flag", part[Base])
      BY <1>10, <2>1, <1>0 DEF BasePlace, Resuming, Exiting, Moved, destroy_part
  <2>3. PlaceInv'
      BY <1>0, <2>1, <2>2, MovedPlace
  <2>4. LockInv'
      BY <1>0, <1>10, <2>1, MovedLock DEF Holding
  <2>5. /\ at' \in [Frame -> BaseAt \cup HandlerAt]
        /\ at'[Base] \in BaseAt /\ \A u \in Thread : at'[u] \in HandlerAt
        /\ part' \in [Frame -> 0..(N + 1)]
      BY <1>0, <2>1, MovedType, Places DEF Exiting
  <2>6. TypeOK'
      BY <1>0, <1>10, <2>5 DEF TypeOK, partVars, destroy_part, Exiting
  <2> QED
      BY <2>3, <2>4, <2>6
<1>11. CASE destroy_done
  <2>1. Moved(Base, "destroy", "end", N + 1)
      BY <1>11, EndMoves
  <2>2. BasePlace("end", N + 1)
      BY <1>11, <2>1, <1>0 DEF BasePlace, Resuming, Exiting, Moved, destroy_done
  <2>3. PlaceInv'
      BY <1>0, <2>1, <2>2, MovedPlace
  <2>4. LockInv'
      BY <1>0, <1>11, <2>1, MovedLock DEF Holding
  <2>5. /\ at' \in [Frame -> BaseAt \cup HandlerAt]
        /\ at'[Base] \in BaseAt /\ \A u \in Thread : at'[u] \in HandlerAt
        /\ part' \in [Frame -> 0..(N + 1)]
      BY <1>0, <2>1, MovedType, Places
  <2>6. TypeOK'
      BY <1>0, <1>11, <2>5 DEF TypeOK, partVars, destroy_done
  <2> QED
      BY <2>3, <2>4, <2>6
<1>12. ASSUME NEW t \in Thread, stop(t)
      PROVE  TypeOK' /\ PlaceInv' /\ LockInv'
  <2>1. Moved(t, "stop", "shutdown", 1)
      BY <1>12, HandlerMoves
  <2>2. HandlerPlace("shutdown", 1)
      BY <1>12, <2>1, <1>0 DEF HandlerPlace, Resuming, Exiting, Moved, stop
  <2>3. PlaceInv'
      BY <1>0, <2>1, <2>2, MovedPlace
  <2>4. LockInv'
      BY <1>0, <1>12, <2>1, MovedLock DEF Holding
  <2>5. /\ at' \in [Frame -> BaseAt \cup HandlerAt]
        /\ at'[Base] \in BaseAt /\ \A u \in Thread : at'[u] \in HandlerAt
        /\ part' \in [Frame -> 0..(N + 1)]
      BY <1>0, <2>1, MovedType, Places
  <2>6. TypeOK'
      BY <1>0, <1>12, <2>5 DEF TypeOK, partVars, stop
  <2> QED
      BY <2>3, <2>4, <2>6
<1>13. ASSUME NEW t \in Thread, shutdown(t)
      PROVE  TypeOK' /\ PlaceInv' /\ LockInv'
  <2>1. CASE /\ part[t] \in Threaded
             /\ Moved(t, "shutdown", "exit_flag", part[t])
    <3>2. HandlerPlace("exit_flag", part[t])
        BY <1>13, <2>1, <1>0 DEF HandlerPlace, Resuming, Exiting, Moved, shutdown
    <3>3. PlaceInv'
        BY <1>0, <1>13, <2>1, <3>2, MovedPlace
    <3>4. LockInv'
        BY <1>0, <1>13, <2>1, MovedLock DEF Holding
    <3>5. /\ at' \in [Frame -> BaseAt \cup HandlerAt]
          /\ at'[Base] \in BaseAt /\ \A u \in Thread : at'[u] \in HandlerAt
          /\ part' \in [Frame -> 0..(N + 1)]
        BY <1>0, <1>13, <2>1, MovedType, Places DEF Exiting
    <3>6. TypeOK'
        BY <1>0, <1>13, <2>1, <3>5 DEF TypeOK, partVars, shutdown, Exiting
    <3> QED
        BY <3>3, <3>4, <3>6
  <2>2. CASE /\ part[t] \in Part \ Threaded
             /\ Moved(t, "shutdown", "shutdown", part[t] + 1)
    <3>2. HandlerPlace("shutdown", part[t] + 1)
        BY <1>13, <2>2, <1>0 DEF HandlerPlace, Resuming, Exiting, Moved, shutdown
    <3>3. PlaceInv'
        BY <1>0, <1>13, <2>2, <3>2, MovedPlace
    <3>4. LockInv'
        BY <1>0, <1>13, <2>2, MovedLock DEF Holding
    <3>5. /\ at' \in [Frame -> BaseAt \cup HandlerAt]
          /\ at'[Base] \in BaseAt /\ \A u \in Thread : at'[u] \in HandlerAt
          /\ part' \in [Frame -> 0..(N + 1)]
        BY <1>0, <1>13, <2>2, MovedType, Places
    <3>6. TypeOK'
        BY <1>0, <1>13, <2>2, <3>5 DEF TypeOK, partVars, shutdown
    <3> QED
        BY <3>3, <3>4, <3>6
  <2>3. CASE /\ part[t] > Added
             /\ Moved(t, "shutdown", "idle", part[t])
    <3>2. HandlerPlace("idle", part[t])
        BY <1>13, <2>3, <1>0 DEF HandlerPlace, Resuming, Exiting, Moved, shutdown
    <3>3. PlaceInv'
        BY <1>0, <1>13, <2>3, <3>2, MovedPlace
    <3>4. LockInv'
        BY <1>0, <1>13, <2>3, MovedLock DEF Holding
    <3>5. /\ at' \in [Frame -> BaseAt \cup HandlerAt]
          /\ at'[Base] \in BaseAt /\ \A u \in Thread : at'[u] \in HandlerAt
          /\ part' \in [Frame -> 0..(N + 1)]
        BY <1>0, <1>13, <2>3, MovedType, Places
    <3>6. TypeOK'
        BY <1>0, <1>13, <2>3, <3>5 DEF TypeOK, partVars, shutdown
    <3> QED
        BY <3>3, <3>4, <3>6
  <2> QED
      BY <1>13, <2>1, <2>2, <2>3, HandlerMoves
<1>14. ASSUME NEW t \in Thread, signal_handler(t)
      PROVE  TypeOK' /\ PlaceInv' /\ LockInv'
  <2>1. Moved(t, "idle", "stop", part[t])
      BY <1>14, HandlerMoves
  <2>2. HandlerPlace("stop", part[t])
      BY <1>14, <2>1, <1>0 DEF HandlerPlace, Resuming, Exiting, Moved, signal_handler
  <2>3. PlaceInv'
      BY <1>0, <2>1, <2>2, MovedPlace
  <2>4. LockInv'
      BY <1>0, <1>14, <2>1, MovedLock DEF Holding
  <2>5. /\ at' \in [Frame -> BaseAt \cup HandlerAt]
        /\ at'[Base] \in BaseAt /\ \A u \in Thread : at'[u] \in HandlerAt
        /\ part' \in [Frame -> 0..(N + 1)]
      BY <1>0, <2>1, MovedType, Places
  <2>6. signals' \in 0..MaxSignals
    <3>1. signals < MaxSignals /\ signals' = signals + 1
        BY <1>14 DEF signal_handler
    <3>2. signals \in 0..MaxSignals
        BY <1>0 DEF TypeOK
    <3> QED
        BY <3>1, <3>2
  <2>7. TypeOK'
      BY <1>0, <1>14, <2>5, <2>6 DEF TypeOK, partVars, signal_handler
  <2> QED
      BY <2>3, <2>4, <2>7
<1>15. ASSUME NEW f \in Frame, graceful_exit_flag(f)
      PROVE  TypeOK' /\ PlaceInv' /\ LockInv'
  <2>1. Moved(f, "exit_flag", "exit_lock", part[f])
      BY <1>15, ExitMoves
  <2>2. /\ f = Base => BasePlace("exit_lock", part[f])
        /\ f # Base => HandlerPlace("exit_lock", part[f])
      BY <1>15, <2>1, <1>0 DEF BasePlace, HandlerPlace, Resuming, Exiting, Moved
  <2>3. PlaceInv'
      BY <1>0, <2>1, <2>2, MovedPlace
  <2>4. LockInv'
      BY <1>0, <1>15, <2>1, MovedLock, Places DEF Holding
  <2>5. /\ at' \in [Frame -> BaseAt \cup HandlerAt]
        /\ at'[Base] \in BaseAt /\ \A u \in Thread : at'[u] \in HandlerAt
        /\ part' \in [Frame -> 0..(N + 1)]
      BY <1>0, <2>1, MovedType, Places DEF Exiting
  <2>6. TypeOK'
      BY <1>0, <1>15, <2>5 DEF TypeOK, partVars, graceful_exit_flag, Exiting
  <2> QED
      BY <2>3, <2>4, <2>6
<1>16. ASSUME NEW f \in Frame, graceful_exit_locked(f)
      PROVE  TypeOK' /\ PlaceInv' /\ LockInv'
  <2>1. Moved(f, "exit_lock", "join", part[f])
      BY <1>16, ExitMoves
  <2>2. /\ f = Base => BasePlace("join", part[f])
        /\ f # Base => HandlerPlace("join", part[f])
      BY <1>16, <2>1, <1>0 DEF BasePlace, HandlerPlace, Resuming, Exiting, Moved
  <2>3. PlaceInv'
      BY <1>0, <2>1, <2>2, MovedPlace
  <2>4. LockInv'
      BY <1>0, <1>16, <2>1, MovedLock, Places DEF Holding
  <2>5. /\ at' \in [Frame -> BaseAt \cup HandlerAt]
        /\ at'[Base] \in BaseAt /\ \A u \in Thread : at'[u] \in HandlerAt
        /\ part' \in [Frame -> 0..(N + 1)]
      BY <1>0, <2>1, MovedType, Places DEF Exiting
  <2>6. TypeOK'
      BY <1>0, <1>16, <2>5 DEF TypeOK, partVars, graceful_exit_locked, Exiting
  <2> QED
      BY <2>3, <2>4, <2>6
<1>17. ASSUME NEW f \in Frame, join(f)
      PROVE  TypeOK' /\ PlaceInv' /\ LockInv'
  <2>0. /\ f = Base => AfterJoin(f) \in BaseAt
        /\ f # Base => AfterJoin(f) \in HandlerAt
      BY DEF AfterJoin, BaseAt, HandlerAt
  <2>1. CASE /\ Moved(f, "join", AfterJoin(f), part[f] + 1)
             /\ UNCHANGED <<m_running, partVars, signals, crashed>>
    <3>2. /\ f = Base => BasePlace(AfterJoin(f), part[f] + 1)
          /\ f # Base => HandlerPlace(AfterJoin(f), part[f] + 1)
        BY <1>0, <2>1, AfterJoinPlace
    <3>3. PlaceInv'
        BY <1>0, <2>1, <3>2, MovedPlace
    <3>4. LockInv'
        BY <1>0, <2>1, MovedLock, Places DEF Holding
    <3>5. /\ at' \in [Frame -> BaseAt \cup HandlerAt]
          /\ at'[Base] \in BaseAt /\ \A u \in Thread : at'[u] \in HandlerAt
          /\ part' \in [Frame -> 0..(N + 1)]
        BY <1>0, <2>1, <2>0, MovedType
    <3>6. TypeOK'
        BY <1>0, <2>1, <3>5 DEF TypeOK, partVars
    <3> QED
        BY <3>3, <3>4, <3>6
  <2>2. CASE /\ CanLock(f, part[f])
             /\ Moved(f, "join", "joining", part[f])
             /\ UNCHANGED <<m_running, partVars, signals, crashed>>
    <3>2. /\ f = Base => BasePlace("joining", part[f])
          /\ f # Base => HandlerPlace("joining", part[f])
        BY <2>2, <1>0 DEF BasePlace, HandlerPlace, Resuming, Exiting, Moved
    <3>3. PlaceInv'
        BY <1>0, <2>2, <3>2, MovedPlace
    <3>4. LockInv'
        BY <1>0, <2>2, MovedLock, Places DEF Holding
    <3>5. /\ at' \in [Frame -> BaseAt \cup HandlerAt]
          /\ at'[Base] \in BaseAt /\ \A u \in Thread : at'[u] \in HandlerAt
          /\ part' \in [Frame -> 0..(N + 1)]
        BY <1>0, <2>2, MovedType, Places DEF Exiting
    <3>6. TypeOK'
        BY <1>0, <2>2, <3>5 DEF TypeOK, partVars, Exiting
    <3> QED
        BY <3>3, <3>4, <3>6
  <2>3. CASE Crash("terminate")
      BY <1>0, <2>3, CrashShape
  <2>4. CASE /\ Moved(f, "joining", AfterJoin(f), part[f] + 1)
             /\ thread' = [thread EXCEPT ![part[f]] = "none"]
             /\ UNCHANGED <<m_running, m_state, m_should_exit, derived,
                            signals, crashed>>
    <3>2. /\ f = Base => BasePlace(AfterJoin(f), part[f] + 1)
          /\ f # Base => HandlerPlace(AfterJoin(f), part[f] + 1)
        BY <1>0, <2>4, AfterJoinPlace
    <3>3. PlaceInv'
        BY <1>0, <2>4, <3>2, MovedPlace
    <3>4. LockInv'
        BY <1>0, <2>4, MovedLock, Places DEF Holding
    <3>5. /\ at' \in [Frame -> BaseAt \cup HandlerAt]
          /\ at'[Base] \in BaseAt /\ \A u \in Thread : at'[u] \in HandlerAt
          /\ part' \in [Frame -> 0..(N + 1)]
        BY <1>0, <2>4, <2>0, MovedType
    <3>6. TypeOK'
        BY <1>0, <2>4, <3>5 DEF TypeOK, partVars
    <3> QED
        BY <3>3, <3>4, <3>6
  <2> QED
      BY <1>17, <2>1, <2>2, <2>3, <2>4, ExitMoves
<1>18. ASSUME NEW p \in Part, task_while(p)
      PROVE  TypeOK' /\ PlaceInv' /\ LockInv'
  <2>1. UNCHANGED <<m_running, at, part, m_should_exit, derived, signals>>
      BY <1>18, <1>0, TaskFacts DEF Crash, partVars
  <2>2. PlaceInv' /\ LockInv'
      BY <1>0, <2>1, StillShape
  <2>3. TypeOK'
      BY <1>18, <1>0, <2>1, TaskFacts DEF TypeOK
  <2> QED
      BY <2>2, <2>3
<1>19. ASSUME NEW p \in Part, task_wait_to_run(p)
      PROVE  TypeOK' /\ PlaceInv' /\ LockInv'
  <2>1. UNCHANGED <<m_running, at, part, m_should_exit, derived, signals>>
      BY <1>19, <1>0, TaskFacts DEF Crash, partVars
  <2>2. PlaceInv' /\ LockInv'
      BY <1>0, <2>1, StillShape
  <2>3. TypeOK'
    <3>1. CASE Crash("pure virtual call")
        BY <1>0, <3>1, CrashShape
    <3>2. CASE ~Crash("pure virtual call")
      <4>1. /\ thread' = [thread EXCEPT ![p] = "top"]
            /\ m_state' \in [Part -> {"RUNNING", "PAUSED", "REQUEST_RUN",
                                      "REQUEST_EXIT"}]
            /\ UNCHANGED crashed
          BY <1>19, <1>0, <3>2, TaskFacts
      <4> QED
          BY <1>0, <2>1, <4>1 DEF TypeOK
    <3> QED
        BY <3>1, <3>2
  <2> QED
      BY <2>2, <2>3
<1>20. CASE UNCHANGED vars
  <2>1. PlaceInv' /\ LockInv'
      BY <1>20, <1>0, StillShape DEF vars
  <2>2. TypeOK'
      BY <1>20, <1>0 DEF vars, TypeOK
  <2> QED
      BY <2>1, <2>2
<1> QED
    BY <1>1, <1>2, <1>3, <1>4, <1>5, <1>6, <1>7, <1>8, <1>9, <1>10, <1>11,
       <1>12, <1>13, <1>14, <1>15, <1>16, <1>17, <1>18, <1>19, <1>20,
       StepCases

-----------------------------------------------------------------------------
\* A move of main() that starts no thread and goes back to no part.
LEMMA BaseLife ==
    ASSUME LifeInv, NEW from, NEW to, NEW k, Moved(Base, from, to, k),
           UNCHANGED thread,
           \A p \in Part : NotYetAt(to, k, p) => NotYet(p)
    PROVE  LifeInv'
<1>1. \A t \in Thread : at'[t] = at[t]
    BY FrameFacts DEF Moved
<1>2. at'[Base] = to /\ part'[Base] = k
    BY DEF Moved
<1>3. \A p \in Part : NotYet(p)' => NotYet(p)
    BY <1>2 DEF NotYet, NotYetAt
<1> QED
    BY <1>1, <1>3, FrameFacts DEF LifeInv, Alive

\* A move of the handler on thread t, which has begun there or goes on.
LEMMA ThreadLife ==
    ASSUME LifeInv, NEW t \in Thread, NEW from, NEW to, NEW k,
           Moved(t, from, to, k), UNCHANGED thread,
           from = "idle" => (t # Main => Alive(t) /\ at[Main] # "idle"),
           t = Main /\ to = "idle" => \A p \in Part : at[p] = "idle"
    PROVE  LifeInv'
<1>1. /\ at[t] = from /\ at'[t] = to
      /\ \A g \in Frame : g # t => at'[g] = at[g] /\ part'[g] = part[g]
    BY DEF Moved
<1>2. \A p \in Part : NotYet(p)' => NotYet(p)
    BY <1>1, FrameFacts DEF NotYet, NotYetAt
<1>3. ASSUME NEW p \in Part, at'[p] # "idle" PROVE Alive(p)
    BY <1>1, <1>3, FrameFacts DEF LifeInv
<1>4. at'[Main] = "idle" => \A p \in Part : at'[p] = "idle"
  <2>1. CASE t = Main
      BY <1>1, <2>1, FrameFacts
  <2>2. CASE t # Main
      BY <1>1, <2>2, FrameFacts DEF LifeInv
  <2> QED
      BY <2>1, <2>2
<1> QED
    BY <1>2, <1>3, <1>4 DEF LifeInv, Alive

\* When the loop of the handler on the main thread ends, all threads have
\* ended, so no part's thread executes a handler.
LEMMA HandlerLast ==
    ASSUME VehicleInv, at[Main] = "shutdown", part[Main] > Added
    PROVE  \A p \in Part : thread[p] = "none" /\ at[p] = "idle"
<1> SUFFICES ASSUME NEW p \in Part
             PROVE  thread[p] = "none" /\ at[p] = "idle"
    OBVIOUS
<1>1. thread[p] = "none"
  <2>1. CASE at[Base] = "adding"
      BY <2>1 DEF VehicleInv, LifeInv, NotYet, NotYetAt
  <2>2. CASE at[Base] # "adding" /\ p \in Threaded
    <3>1. part[Main] > N /\ part[Main] \in 0..(N + 1)
        BY <2>2, FrameFacts DEF Added, VehicleInv, TypeOK
    <3>2. p < part[Main]
        BY <3>1, FrameFacts
    <3> QED
        BY <2>2, <3>2 DEF VehicleInv, HandlerInv
  <2>3. CASE p \notin Threaded
      BY <2>3 DEF VehicleInv, LifeInv
  <2> QED
      BY <2>1, <2>2, <2>3
<1> QED
    BY <1>1 DEF VehicleInv, LifeInv, Alive

\* A step that moves no frame and touches no thread.
LEMMA StillLife ==
    ASSUME LifeInv, UNCHANGED <<at, part, thread>>
    PROVE  LifeInv'
<1>1. \A p \in Part : NotYet(p)' = NotYet(p)
    BY DEF NotYet, NotYetAt
<1> QED
    BY <1>1 DEF LifeInv, Alive

\* A move within graceful_exit and join, in a handler or in a destructor.
LEMMA ExitLife ==
    ASSUME LifeInv, NEW f \in Frame, NEW from \in Exiting, NEW to, NEW k,
           Moved(f, from, to, k), UNCHANGED thread,
           to \in Exiting \cup IF f = Base THEN {"destroy"} ELSE {"shutdown"}
    PROVE  LifeInv'
<1>1. CASE f = Base
    BY <1>1, BaseLife DEF NotYetAt, Exiting, Resuming
<1>2. CASE f # Base
    BY <1>2, FrameFacts, ThreadLife DEF Exiting
<1> QED
    BY <1>1, <1>2

\* Every step keeps what is known of the threads.
LEMMA LifeStep ==
    ASSUME VehicleInv, [Next]_vars
    PROVE  LifeInv'
<1> USE FrameFacts
<1>0. /\ TypeOK /\ LifeInv /\ part[Base] \in 0..(N + 1)
      /\ at[Base] = "start" => part[Base] \in 1..(N + 1)
      /\ at[Base] \in Resuming => part[Base] \in Threaded
    BY DEF VehicleInv, TypeOK, PlaceInv, BasePlace
<1>1. CASE add
  <2>1. Moved(Base, "adding", "adding", part[Base] + 1) /\ UNCHANGED thread
      BY <1>1, StartMoves DEF add, partVars
  <2>2. \A p \in Part : NotYetAt("adding", part[Base] + 1, p) => NotYet(p)
      BY <1>0, <2>1 DEF Moved, NotYet, NotYetAt, Resuming
  <2> QED
      BY <1>0, <2>1, <2>2, BaseLife
<1>2. CASE start_blocking
  <2>1. Moved(Base, "adding", "start", 1) /\ UNCHANGED thread
      BY <1>2, StartMoves DEF start_blocking, partVars
  <2>2. \A p \in Part : NotYetAt("start", 1, p) => NotYet(p)
      BY <1>0, <2>1 DEF Moved, NotYet, NotYetAt, Resuming
  <2> QED
      BY <1>0, <2>1, <2>2, BaseLife
<1>3. CASE start_done
  <2>1. Moved(Base, "start", "loop", N + 1) /\ UNCHANGED thread
      BY <1>3, StartMoves DEF start_done, partVars
  <2>2. \A p \in Part : NotYetAt("loop", N + 1, p) => NotYet(p)
      BY <1>0, <2>1 DEF Moved, NotYet, NotYetAt, Resuming
  <2> QED
      BY <1>0, <2>1, <2>2, BaseLife
<1>4. CASE resume_enter
  <2>1. Moved(Base, "resume", "resume_locked", part[Base]) /\ UNCHANGED thread
      BY <1>4, StartMoves DEF resume_enter, partVars
  <2>2. \A p \in Part : NotYetAt("resume_locked", part[Base], p) => NotYet(p)
      BY <1>0, <2>1 DEF Moved, NotYet, NotYetAt, Resuming
  <2> QED
      BY <1>0, <2>1, <2>2, BaseLife
<1>5. CASE resume_return
  <2>1. Moved(Base, "resume_wait", "start", part[Base] + 1) /\ UNCHANGED thread
      BY <1>5, StartMoves DEF resume_return, partVars
  <2>2. \A p \in Part : NotYetAt("start", part[Base] + 1, p) => NotYet(p)
      BY <1>0, <2>1 DEF Moved, NotYet, NotYetAt, Resuming
  <2> QED
      BY <1>0, <2>1, <2>2, BaseLife
<1>6. CASE loop
  <2>1. Moved(Base, "loop", "loop", N + 1) /\ UNCHANGED thread
      BY <1>6, EndMoves DEF loop, partVars
  <2>2. \A p \in Part : NotYetAt("loop", N + 1, p) => NotYet(p)
      BY <1>0, <2>1 DEF Moved, NotYet, NotYetAt, Resuming
  <2> QED
      BY <1>0, <2>1, <2>2, BaseLife
<1>7. CASE loop_done
  <2>1. Moved(Base, "loop", "destroy", 1) /\ UNCHANGED thread
      BY <1>7, EndMoves DEF loop_done, partVars
  <2>2. \A p \in Part : NotYetAt("destroy", 1, p) => NotYet(p)
      BY <1>0, <2>1 DEF Moved, NotYet, NotYetAt, Resuming
  <2> QED
      BY <1>0, <2>1, <2>2, BaseLife
<1>8. CASE destroy_part
  <2>1. Moved(Base, "destroy", "exit_flag", part[Base]) /\ UNCHANGED thread
      BY <1>8, EndMoves DEF destroy_part, partVars
  <2>2. \A p \in Part : NotYetAt("exit_flag", part[Base], p) => NotYet(p)
      BY <1>0, <2>1 DEF Moved, NotYet, NotYetAt, Resuming
  <2> QED
      BY <1>0, <2>1, <2>2, BaseLife
<1>9. CASE destroy_done
  <2>1. Moved(Base, "destroy", "end", N + 1) /\ UNCHANGED thread
      BY <1>9, EndMoves DEF destroy_done, partVars
  <2>2. \A p \in Part : NotYetAt("end", N + 1, p) => NotYet(p)
      BY <1>0, <2>1 DEF Moved, NotYet, NotYetAt, Resuming
  <2> QED
      BY <1>0, <2>1, <2>2, BaseLife
<1>10. CASE start_part
  <2>1. CASE /\ part[Base] \in Part \ Threaded
             /\ Moved(Base, "start", "start", part[Base] + 1)
             /\ UNCHANGED thread
    <3>1. \A p \in Part : NotYetAt("start", part[Base] + 1, p) => NotYet(p)
        BY <1>0, <2>1 DEF Moved, NotYet, NotYetAt, Resuming
    <3> QED
        BY <1>0, <2>1, <3>1, BaseLife
  <2>2. CASE /\ part[Base] \in Threaded
             /\ Moved(Base, "start", "resume", part[Base])
             /\ thread' = [thread EXCEPT ![part[Base]] = "top"]
    <3>1. /\ thread'[part[Base]] = "top"
          /\ \A p \in Part : p # part[Base] => thread'[p] = thread[p]
        BY <1>0, <2>2 DEF TypeOK
    <3>2. /\ at[Base] = "start" /\ at'[Base] = "resume"
          /\ part'[Base] = part[Base]
          /\ \A t \in Thread : at'[t] = at[t]
        BY <2>2 DEF Moved
    <3>3. \A p \in Part : NotYet(p)' => NotYet(p) /\ p # part[Base]
        BY <1>0, <3>2 DEF NotYet, NotYetAt, Resuming
    <3> QED
        BY <1>0, <2>2, <3>1, <3>2, <3>3 DEF LifeInv, Alive
  <2> QED
      BY <1>10, <2>1, <2>2, StartMoves DEF partVars
<1>11. CASE resume_request
  <2>1. CASE /\ Moved(Base, "resume_locked", "resume_wait", part[Base])
             /\ UNCHANGED thread
    <3>1. \A p \in Part : NotYetAt("resume_wait", part[Base], p) => NotYet(p)
        BY <1>0, <2>1 DEF Moved, NotYet, NotYetAt, Resuming
    <3> QED
        BY <1>0, <2>1, <3>1, BaseLife
  <2>2. CASE Crash("assert")
      BY <1>0, <2>2, StillLife DEF Crash, partVars
  <2> QED
      BY <1>11, <2>1, <2>2, StartMoves
<1>12. ASSUME NEW t \in Thread, stop(t) PROVE LifeInv'
  <2>1. Moved(t, "stop", "shutdown", 1) /\ UNCHANGED thread
      BY <1>12, HandlerMoves DEF stop, partVars
  <2> QED
      BY <1>0, <2>1, ThreadLife
<1>13. ASSUME NEW t \in Thread, shutdown(t) PROVE LifeInv'
  <2>0. UNCHANGED thread
      BY <1>13 DEF shutdown, partVars
  <2>1. CASE Moved(t, "shutdown", "exit_flag", part[t])
      BY <1>0, <2>0, <2>1, ThreadLife
  <2>2. CASE Moved(t, "shutdown", "shutdown", part[t] + 1)
      BY <1>0, <2>0, <2>2, ThreadLife
  <2>3. CASE part[t] > Added /\ Moved(t, "shutdown", "idle", part[t])
    <3>1. at[t] = "shutdown"
        BY <2>3 DEF Moved
    <3>2. t = Main => \A p \in Part : at[p] = "idle"
        BY <2>3, <3>1, HandlerLast
    <3> QED
        BY <1>0, <2>0, <2>3, <3>2, ThreadLife
  <2> QED
      BY <1>13, <2>1, <2>2, <2>3, HandlerMoves
<1>14. ASSUME NEW t \in Thread, signal_handler(t) PROVE LifeInv'
  <2>1. Moved(t, "idle", "stop", part[t]) /\ UNCHANGED thread
      BY <1>14, HandlerMoves DEF signal_handler, partVars
  <2>2. t # Main => Alive(t) /\ at[Main] # "idle"
      BY <1>14 DEF signal_handler, Alive
  <2> QED
      BY <1>0, <2>1, <2>2, ThreadLife
<1>15. ASSUME NEW f \in Frame, graceful_exit_flag(f) PROVE LifeInv'
  <2>1. Moved(f, "exit_flag", "exit_lock", part[f]) /\ UNCHANGED thread
      BY <1>15, ExitMoves DEF graceful_exit_flag, partVars
  <2> QED
      BY <1>0, <2>1, ExitLife DEF Exiting
<1>16. ASSUME NEW f \in Frame, graceful_exit_locked(f) PROVE LifeInv'
  <2>1. Moved(f, "exit_lock", "join", part[f]) /\ UNCHANGED thread
      BY <1>16, ExitMoves DEF graceful_exit_locked, partVars
  <2> QED
      BY <1>0, <2>1, ExitLife DEF Exiting
<1>17. ASSUME NEW f \in Frame, join(f) PROVE LifeInv'
  <2>0. AfterJoin(f) \in IF f = Base THEN {"destroy"} ELSE {"shutdown"}
      BY DEF AfterJoin
  <2>1. CASE /\ Moved(f, "join", AfterJoin(f), part[f] + 1)
             /\ UNCHANGED thread
      BY <1>0, <2>0, <2>1, ExitLife DEF Exiting
  <2>2. CASE Moved(f, "join", "joining", part[f]) /\ UNCHANGED thread
      BY <1>0, <2>2, ExitLife DEF Exiting
  <2>3. CASE Crash("terminate")
      BY <1>0, <2>3, StillLife DEF Crash, partVars
  <2>4. CASE /\ Moved(f, "joining", AfterJoin(f), part[f] + 1)
             /\ thread[part[f]] = "done"
             /\ thread' = [thread EXCEPT ![part[f]] = "none"]
    <3>1. /\ \A p \in Part : \/ thread'[p] = thread[p] /\ p # part[f]
                             \/ thread'[p] = "none" /\ p = part[f]
          /\ ~Alive(part[f])
      <4>1. \A p \in Part : thread'[p] = IF p = part[f] THEN "none"
                                                       ELSE thread[p]
          BY <1>0, <2>4 DEF TypeOK
      <4> QED
          BY <2>4, <4>1 DEF Alive
    <3>2. /\ at[f] = "joining" /\ at'[f] = AfterJoin(f)
          /\ \A g \in Frame : g # f => at'[g] = at[g] /\ part'[g] = part[g]
        BY <2>4 DEF Moved
    <3>3. \A p \in Part : NotYet(p)' => NotYet(p)
        BY <2>0, <3>2 DEF NotYet, NotYetAt, Resuming
    <3>4. \A p \in Part : at'[p] # "idle" => at[p] # "idle"
        BY <3>2
    <3>5. \A p \in Part : at[p] # "idle" => p # part[f] /\ Alive(p)
        BY <1>0, <3>1 DEF LifeInv
    <3>6. at'[Main] = "idle" => \A p \in Part : at'[p] = "idle"
        BY <1>0, <2>0, <3>2, <3>4 DEF LifeInv
    <3> QED
        BY <1>0, <3>1, <3>3, <3>4, <3>5, <3>6 DEF LifeInv, Alive
  <2> QED
      BY <1>17, <2>1, <2>2, <2>3, <2>4, ExitMoves DEF partVars
<1>18. ASSUME NEW p \in Part, task_while(p) PROVE LifeInv'
  <2>1. /\ at[p] = "idle" /\ Alive(p) /\ UNCHANGED <<at, part>>
        /\ \A q \in Part \ {p} : thread'[q] = thread[q]
      BY <1>18, <1>0, TaskFacts
  <2>2. \A q \in Part : NotYet(q)' => NotYet(q) /\ q # p
      BY <1>0, <2>1 DEF NotYet, NotYetAt, LifeInv, Alive
  <2> QED
      BY <1>0, <2>1, <2>2 DEF LifeInv, Alive
<1>19. ASSUME NEW p \in Part, task_wait_to_run(p) PROVE LifeInv'
  <2>1. CASE Crash("pure virtual call")
      BY <1>0, <2>1, StillLife DEF Crash, partVars
  <2>2. CASE ~Crash("pure virtual call")
    <3>1. /\ at[p] = "idle" /\ Alive(p) /\ UNCHANGED <<at, part>>
          /\ thread' = [thread EXCEPT ![p] = "top"]
        BY <1>19, <1>0, <2>2, TaskFacts
    <3>2. /\ thread'[p] = "top"
          /\ \A q \in Part \ {p} : thread'[q] = thread[q]
        BY <1>0, <3>1 DEF TypeOK
    <3>3. \A q \in Part : NotYet(q)' => NotYet(q) /\ q # p
        BY <1>0, <3>1 DEF NotYet, NotYetAt, LifeInv, Alive
    <3> QED
        BY <1>0, <3>1, <3>2, <3>3 DEF LifeInv, Alive
  <2> QED
      BY <2>1, <2>2
<1>20. CASE UNCHANGED vars
    BY <1>20, <1>0, StillLife DEF vars
<1> QED
    BY <1>1, <1>2, <1>3, <1>4, <1>5, <1>6, <1>7, <1>8, <1>9, <1>10, <1>11,
       <1>12, <1>13, <1>14, <1>15, <1>16, <1>17, <1>18, <1>19, <1>20,
       StepCases

-----------------------------------------------------------------------------
\* Nothing is said of the handler on the main thread when there is none.
LEMMA QuietHandler ==
    ASSUME at'[Main] = "idle"
    PROVE  HandlerInv'
  BY DEF HandlerInv, Exiting

\* What has been told to exit stays told, and what is joined stays joined.
Kept ==
    \A p \in Threaded :
        /\ m_state[p] = "REQUEST_EXIT" => m_state'[p] = "REQUEST_EXIT"
        /\ thread[p] = "none" => thread'[p] = "none"

\* A step of another thread leaves the handler on the main thread its work.
LEMMA OthersHandler ==
    ASSUME VehicleInv, Kept, at'[Main] = at[Main], part'[Main] = part[Main]
    PROVE  HandlerInv'
<1>1. HandlerInv /\ (at[Main] \in Exiting => part[Main] \in Threaded)
    BY FrameFacts DEF VehicleInv, PlaceInv, HandlerPlace
<1> QED
    BY <1>1 DEF HandlerInv, Kept, Exiting

\* A step of the handler on the main thread.
LEMMA MainHandler ==
    ASSUME NEW from, NEW to, NEW k, Moved(Main, from, to, k),
           to \in {"shutdown"} \cup Exiting =>
             \A p \in Threaded : p < k => /\ m_state'[p] = "REQUEST_EXIT"
                                          /\ thread'[p] = "none",
           to \in {"join", "joining"} => m_state'[k] = "REQUEST_EXIT"
    PROVE  HandlerInv'
  BY DEF HandlerInv, Moved

\* Every step keeps what the handler on the main thread has done.
LEMMA HandlerStep ==
    ASSUME VehicleInv, [Next]_vars
    PROVE  HandlerInv'
<1> USE FrameFacts
<1>0. /\ TypeOK /\ LifeInv /\ HandlerInv /\ part[Main] \in 0..(N + 1)
      /\ at[Main] \in Exiting => part[Main] \in Threaded
      /\ at[Main] = "shutdown" => part[Main] \in 1..(N + 1)
    BY DEF VehicleInv, TypeOK, PlaceInv, HandlerPlace
<1>1. ASSUME NEW from, NEW to, NEW k, Moved(Base, from, to, k)
      PROVE  HandlerInv'
    BY <1>1, QuietHandler DEF Moved
<1>2. ASSUME UNCHANGED <<at, part, m_state, thread>> PROVE HandlerInv'
    BY <1>2, OthersHandler DEF Kept
<1>3. ASSUME \/ add \/ start_blocking \/ start_part \/ start_done
             \/ resume_enter \/ resume_request \/ resume_return
             \/ loop \/ loop_done \/ destroy_part \/ destroy_done
      PROVE  HandlerInv'
  <2>1. CASE Crash("assert")
      BY <1>2, <2>1 DEF Crash, partVars
  <2>2. CASE ~Crash("assert")
      BY <1>1, <1>3, <2>2, StartMoves, EndMoves
  <2> QED
      BY <2>1, <2>2
<1>4. ASSUME NEW t \in Thread, stop(t) PROVE HandlerInv'
  <2>1. Moved(t, "stop", "shutdown", 1) /\ UNCHANGED <<m_state, thread>>
      BY <1>4, HandlerMoves DEF stop, partVars
  <2>2. CASE t = Main
    <3>1. \A p \in Threaded : ~(p < 1)
        OBVIOUS
    <3> QED
        BY <2>1, <2>2, <3>1, MainHandler
  <2>3. CASE t # Main
      BY <2>1, <2>3, OthersHandler DEF Kept, Moved
  <2> QED
      BY <2>2, <2>3
<1>5. ASSUME NEW t \in Thread, shutdown(t) PROVE HandlerInv'
  <2>0. UNCHANGED <<m_state, thread>>
      BY <1>5 DEF shutdown, partVars
  <2>1. CASE t # Main
    <3>1. at'[Main] = at[Main] /\ part'[Main] = part[Main]
        BY <1>5, <2>1, HandlerMoves DEF Moved
    <3> QED
        BY <2>0, <3>1, OthersHandler DEF Kept
  <2>2. CASE t = Main /\ Moved(t, "shutdown", "exit_flag", part[t])
      BY <1>0, <2>0, <2>2, MainHandler DEF HandlerInv, Moved
  <2>3. CASE /\ t = Main /\ part[t] \in Part \ Threaded
             /\ Moved(t, "shutdown", "shutdown", part[t] + 1)
    <3>1. \A p \in Threaded : p < part[Main] + 1 => p < part[Main]
        BY <2>3
    <3>2. at[Main] = "shutdown"
        BY <2>3 DEF Moved
    <3> QED
        BY <1>0, <2>0, <2>3, <3>1, <3>2, MainHandler DEF HandlerInv
  <2>4. CASE t = Main /\ Moved(t, "shutdown", "idle", part[t])
      BY <2>4, QuietHandler DEF Moved
  <2> QED
      BY <1>5, <2>1, <2>2, <2>3, <2>4, HandlerMoves
<1>6. ASSUME NEW t \in Thread, signal_handler(t) PROVE HandlerInv'
  <2>1. Moved(t, "idle", "stop", part[t]) /\ UNCHANGED <<m_state, thread>>
      BY <1>6, HandlerMoves DEF signal_handler, partVars
  <2>2. CASE t = Main
      BY <2>1, <2>2, MainHandler DEF Exiting
  <2>3. CASE t # Main
      BY <2>1, <2>3, OthersHandler DEF Kept, Moved
  <2> QED
      BY <2>2, <2>3
<1>7. ASSUME NEW f \in Frame, graceful_exit_flag(f) PROVE HandlerInv'
  <2>1. /\ Moved(f, "exit_flag", "exit_lock", part[f])
        /\ UNCHANGED <<m_state, thread>>
      BY <1>7, ExitMoves DEF graceful_exit_flag
  <2>2. CASE f = Main
      BY <1>0, <2>1, <2>2, MainHandler DEF HandlerInv, Moved, Exiting
  <2>3. CASE f # Main
      BY <2>1, <2>3, OthersHandler DEF Kept, Moved
  <2> QED
      BY <2>2, <2>3
<1>8. ASSUME NEW f \in Frame, graceful_exit_locked(f) PROVE HandlerInv'
  <2>1. /\ Moved(f, "exit_lock", "join", part[f])
        /\ m_state' = [m_state EXCEPT ![part[f]] = "REQUEST_EXIT"]
        /\ UNCHANGED thread
      BY <1>8, ExitMoves DEF graceful_exit_locked
  <2>2. /\ Kept
        /\ part[f] \in Part => m_state'[part[f]] = "REQUEST_EXIT"
      BY <1>0, <2>1 DEF Kept, TypeOK
  <2>3. CASE f = Main
    <3>1. part[f] \in Part /\ at[Main] = "exit_lock"
        BY <1>0, <2>1, <2>3 DEF Moved, Exiting
    <3>2. \A p \in Threaded : p < part[Main] => /\ m_state'[p] = "REQUEST_EXIT"
                                              /\ thread'[p] = "none"
        BY <1>0, <2>2, <3>1 DEF HandlerInv, Kept, Exiting
    <3> QED
        BY <2>1, <2>2, <2>3, <3>1, <3>2, MainHandler
  <2>4. CASE f # Main
      BY <2>1, <2>2, <2>4, OthersHandler DEF Moved
  <2> QED
      BY <2>3, <2>4
<1>9. ASSUME NEW f \in Frame, join(f) PROVE HandlerInv'
  <2>0. f = Main => AfterJoin(f) = "shutdown"
      BY DEF AfterJoin
  <2>1. CASE /\ f = Main
             /\ Moved(f, "join", AfterJoin(f), part[f] + 1)
             /\ thread[part[f]] = "none"
             /\ UNCHANGED <<m_running, partVars, signals, crashed>>
    <3>1. part[f] \in Threaded /\ at[Main] = "join"
        BY <1>0, <2>1 DEF Moved, Exiting
    <3>2. ASSUME NEW p \in Threaded, p < part[f] + 1
          PROVE  m_state'[p] = "REQUEST_EXIT" /\ thread'[p] = "none"
      <4>0. p \in Nat /\ part[f] \in Nat
          BY <3>1, PartNat
      <4>1. p < part[f] \/ p = part[f]
          BY <3>2, <4>0
      <4> QED
          BY <1>0, <2>1, <3>1, <4>1 DEF HandlerInv, Exiting, TypeOK, partVars
    <3> QED
        BY <2>0, <2>1, <3>2, MainHandler
  <2>2. CASE /\ f = Main
             /\ Moved(f, "join", "joining", part[f])
             /\ UNCHANGED <<m_running, partVars, signals, crashed>>
      BY <1>0, <2>2, MainHandler DEF HandlerInv, Moved, Exiting, partVars
  <2>3. CASE Crash("terminate")
      BY <1>2, <2>3 DEF Crash, partVars
  <2>4. CASE /\ f = Main
             /\ Moved(f, "joining", AfterJoin(f), part[f] + 1)
             /\ thread' = [thread EXCEPT ![part[f]] = "none"]
             /\ UNCHANGED <<m_running, m_state, m_should_exit, derived,
                            signals, crashed>>
    <3>1. part[f] \in Threaded /\ at[Main] = "joining"
        BY <1>0, <2>4 DEF Moved, Exiting
    <3>2. ASSUME NEW p \in Threaded, p < part[f] + 1
          PROVE  m_state'[p] = "REQUEST_EXIT" /\ thread'[p] = "none"
      <4>0. p \in Nat /\ part[f] \in Nat
          BY <3>1, PartNat
      <4>1. p < part[f] \/ p = part[f]
          BY <3>2, <4>0
      <4> QED
          BY <1>0, <2>4, <3>1, <4>1 DEF HandlerInv, Exiting, TypeOK, partVars
    <3> QED
        BY <2>0, <2>4, <3>2, MainHandler
  <2>5. CASE f # Main /\ ~Crash("terminate")
    <3>1. /\ at'[Main] = at[Main] /\ part'[Main] = part[Main]
          /\ UNCHANGED m_state
        BY <1>9, <2>5, ExitMoves DEF Moved, partVars
    <3>2. \/ UNCHANGED thread
          \/ thread' = [thread EXCEPT ![part[f]] = "none"]
        BY <1>9, <2>5, ExitMoves DEF partVars
    <3> QED
        BY <1>0, <3>1, <3>2, OthersHandler DEF Kept, TypeOK
  <2> QED
      BY <1>9, <2>1, <2>2, <2>3, <2>4, <2>5, ExitMoves
<1>10. ASSUME NEW p \in Part, task_while(p) PROVE HandlerInv'
  <2>1. /\ Alive(p) /\ UNCHANGED <<at, part, m_state>>
        /\ \A q \in Part \ {p} : thread'[q] = thread[q]
      BY <1>10, <1>0, TaskFacts
  <2> QED
      BY <2>1, OthersHandler DEF Kept, Alive
<1>11. ASSUME NEW p \in Part, task_wait_to_run(p) PROVE HandlerInv'
  <2>1. CASE Crash("pure virtual call")
      BY <1>2, <2>1 DEF Crash, partVars
  <2>2. CASE ~Crash("pure virtual call")
    <3>1. /\ Alive(p) /\ UNCHANGED <<at, part>>
          /\ thread' = [thread EXCEPT ![p] = "top"]
          /\ m_state[p] # "REQUEST_RUN" => m_state'[p] = m_state[p]
          /\ \A q \in Part \ {p} : m_state'[q] = m_state[q]
        BY <1>11, <1>0, <2>2, TaskFacts
    <3>2. Kept
        BY <1>0, <3>1 DEF Kept, Alive, TypeOK
    <3> QED
        BY <3>1, <3>2, OthersHandler
  <2> QED
      BY <2>1, <2>2
<1>12. CASE UNCHANGED vars
    BY <1>12, <1>2 DEF vars
<1> QED
    BY <1>1, <1>2, <1>3, <1>4, <1>5, <1>6, <1>7, <1>8, <1>9, <1>10, <1>11,
       <1>12, StepCases

-----------------------------------------------------------------------------
\* Nothing is promised once stop() has begun.
LEMMA StoppedRun ==
    ASSUME ~m_running'
    PROVE  RunInv'
  BY DEF RunInv

\* Neither a handler past stop() nor a destructor is at work while m_running.
LEMMA RunningPlaces ==
    ASSUME VehicleInv, m_running
    PROVE  \A f \in Frame : at[f] \notin Exiting \cup {"shutdown"}
  BY FrameFacts DEF VehicleInv, RunInv, Starting, Resuming, Exiting

\* A move of main() that changes nothing of the parts.
LEMMA BaseRun ==
    ASSUME VehicleInv, NEW from, NEW to, NEW k, Moved(Base, from, to, k),
           UNCHANGED <<m_running, m_state, m_should_exit, thread>>,
           to \in Starting \cup {"loop"} /\ to # "resume_wait",
           \A p \in Threaded : p < k =>
             \/ p < part[Base]
             \/ p = part[Base] /\ from = "resume_wait" /\ m_state[p] = "RUNNING",
           to \in Resuming => from \in Resuming /\ k = part[Base]
    PROVE  RunInv'
<1> SUFFICES ASSUME m_running PROVE RunInv'
    BY StoppedRun
<1>1. /\ at[Base] = from /\ at'[Base] = to /\ part'[Base] = k
      /\ \A t \in Thread : at'[t] = at[t]
    BY FrameFacts DEF Moved
<1>3. \A t \in Thread : at'[t] \in {"idle", "stop"}
    BY <1>1 DEF VehicleInv, RunInv
<1>4. ASSUME NEW p \in Threaded, p < k
      PROVE  m_state[p] = "RUNNING" /\ ~m_should_exit[p] /\ Alive(p)
    BY <1>1, <1>4 DEF VehicleInv, RunInv, Resuming
<1>5. to \in Resuming => ~m_should_exit[k] /\ Alive(k)
    BY <1>1 DEF VehicleInv, RunInv
<1> QED
    BY <1>1, <1>3, <1>4, <1>5 DEF RunInv, Alive

\* A step that changes nothing that m_running speaks of.
LEMMA StillRun ==
    ASSUME RunInv,
           UNCHANGED <<m_running, at, part, m_state, m_should_exit, thread>>
    PROVE  RunInv'
  BY DEF RunInv, Alive

\* Every step keeps what m_running promises.
LEMMA RunStep ==
    ASSUME VehicleInv, [Next]_vars
    PROVE  RunInv'
<1> USE FrameFacts
<1>0. /\ TypeOK /\ LifeInv /\ RunInv /\ part[Base] \in 0..(N + 1)
      /\ at[Base] \in Resuming => part[Base] \in Threaded
    BY DEF VehicleInv, TypeOK, PlaceInv, BasePlace
<1>1. CASE add
    BY <1>0, <1>1, StartMoves DEF add, Moved, RunInv, Starting, Resuming
<1>2. CASE start_blocking
  <2>1. Moved(Base, "adding", "start", 1)
      BY <1>2, StartMoves
  <2>2. \A t \in Thread : at'[t] = "idle"
      BY <1>0, <2>1 DEF Moved, LifeInv
  <2>3. at'[Base] = "start" /\ part'[Base] = 1
      BY <2>1 DEF Moved
  <2>4. \A p \in Threaded : ~(p < 1)
      BY PartNat
  <2> QED
      BY <2>2, <2>3, <2>4 DEF RunInv, Starting, Resuming
<1>3. CASE start_part
  <2>1. CASE /\ part[Base] \in Part \ Threaded
             /\ Moved(Base, "start", "start", part[Base] + 1)
             /\ UNCHANGED <<m_running, partVars, signals, crashed>>
    <3>1. \A p \in Threaded : p < part[Base] + 1 => p < part[Base]
        BY <2>1, PartNat
    <3> QED
        BY <2>1, <3>1, BaseRun DEF Starting, Resuming, partVars
  <2>2. CASE /\ part[Base] \in Threaded
             /\ Moved(Base, "start", "resume", part[Base])
             /\ m_should_exit' = [m_should_exit EXCEPT ![part[Base]] = FALSE]
             /\ thread' = [thread EXCEPT ![part[Base]] = "top"]
             /\ UNCHANGED <<m_running, m_state, derived, signals, crashed>>
    <3>1. /\ at'[Base] = "resume" /\ part'[Base] = part[Base]
          /\ \A t \in Thread : at'[t] = at[t]
        BY <2>2 DEF Moved
    <3>2. /\ ~m_should_exit'[part[Base]] /\ thread'[part[Base]] = "top"
          /\ \A p \in Part : p # part[Base] =>
                /\ m_should_exit'[p] = m_should_exit[p]
                /\ thread'[p] = thread[p]
        BY <1>0, <2>2 DEF TypeOK
    <3>3. \A p \in Threaded : p < part[Base] => p # part[Base]
        BY PartNat
    <3> QED
        BY <1>0, <2>2, <3>1, <3>2, <3>3
        DEF RunInv, Starting, Resuming, Alive
  <2> QED
      BY <1>3, <2>1, <2>2, StartMoves
<1>4. CASE start_done
  <2>1. /\ Moved(Base, "start", "loop", part[Base])
        /\ UNCHANGED <<m_running, partVars>>
    <3>1. Moved(Base, "start", "loop", N + 1)
        BY <1>4, StartMoves
    <3>2. part' = part
        BY <1>4 DEF start_done
    <3> QED
        BY <1>4, <3>1, <3>2 DEF start_done, Moved
  <2> QED
      BY <2>1, BaseRun DEF Resuming, partVars
<1>5. CASE resume_enter
  <2>1. /\ Moved(Base, "resume", "resume_locked", part[Base])
        /\ UNCHANGED <<m_running, partVars>>
      BY <1>5, StartMoves DEF resume_enter
  <2> QED
      BY <2>1, BaseRun DEF Starting, Resuming, partVars
<1>6. CASE resume_request
  <2>1. CASE /\ Moved(Base, "resume_locked", "resume_wait", part[Base])
             /\ m_state' = [m_state EXCEPT ![part[Base]] = "REQUEST_RUN"]
             /\ UNCHANGED <<m_running, m_should_exit, thread>>
    <3>1. /\ at[Base] = "resume_locked" /\ at'[Base] = "resume_wait"
          /\ part'[Base] = part[Base]
          /\ \A t \in Thread : at'[t] = at[t]
        BY <2>1 DEF Moved
    <3>2. part[Base] \in Part
        BY <1>0, <3>1 DEF Resuming
    <3>3. /\ m_state'[part[Base]] = "REQUEST_RUN"
          /\ \A p \in Part : p # part[Base] => m_state'[p] = m_state[p]
        BY <1>0, <2>1, <3>2 DEF TypeOK
    <3>4. \A p \in Threaded : p < part[Base] => p # part[Base]
        BY PartNat
    <3> QED
        BY <1>0, <2>1, <3>1, <3>3, <3>4
        DEF RunInv, Starting, Resuming, Alive
  <2>2. CASE Crash("assert")
      BY <1>0, <2>2, StillRun DEF Crash, partVars
  <2> QED
      BY <1>6, <2>1, <2>2, StartMoves
<1>7. CASE resume_return
  <2>1. /\ Moved(Base, "resume_wait", "start", part[Base] + 1)
        /\ UNCHANGED <<m_running, partVars>> /\ m_state[part[Base]] = "RUNNING"
      BY <1>7, StartMoves DEF resume_return
  <2>3. ASSUME NEW p \in Threaded, p < part[Base] + 1
        PROVE  p < part[Base] \/ p = part[Base]
      BY <1>0, <2>3, PartNat
  <2> QED
      BY <2>1, <2>3, BaseRun DEF Starting, Resuming, partVars
<1>8. CASE loop
  <2>1. Moved(Base, "loop", "loop", N + 1) /\ UNCHANGED <<m_running, partVars>>
      BY <1>8, EndMoves DEF loop
  <2>2. UNCHANGED part
      BY <1>8 DEF loop
  <2>3. part[Base] = N + 1
      BY <2>1, <2>2 DEF Moved
  <2> QED
      BY <2>1, <2>3, BaseRun DEF Resuming, partVars
<1>9. CASE loop_done
    BY <1>9, StoppedRun DEF loop_done
<1>10. CASE destroy_part \/ destroy_done
  <2>1. UNCHANGED m_running /\ at[Base] = "destroy"
      BY <1>10, EndMoves DEF destroy_part, destroy_done, Moved
  <2> QED
      BY <1>0, <2>1, StoppedRun DEF RunInv, Starting, Resuming
<1>11. ASSUME NEW t \in Thread, stop(t) PROVE RunInv'
    BY <1>11, StoppedRun DEF stop
<1>12. ASSUME NEW t \in Thread, shutdown(t) PROVE RunInv'
  <2>1. UNCHANGED m_running /\ at[t] = "shutdown"
      BY <1>12, HandlerMoves DEF shutdown, Moved
  <2> QED
      BY <2>1, RunningPlaces, StoppedRun
<1>13. ASSUME NEW t \in Thread, signal_handler(t) PROVE RunInv'
  <2>1. /\ Moved(t, "idle", "stop", part[t])
        /\ UNCHANGED <<m_running, m_state, m_should_exit, thread>>
      BY <1>13, HandlerMoves DEF signal_handler, partVars
  <2>2. /\ at'[t] = "stop" /\ at'[Base] = at[Base] /\ part'[Base] = part[Base]
        /\ \A u \in Thread : u # t => at'[u] = at[u]
      BY <2>1 DEF Moved
  <2> QED
      BY <1>0, <2>1, <2>2 DEF RunInv, Alive
<1>14. ASSUME NEW f \in Frame,
              graceful_exit_flag(f) \/ graceful_exit_locked(f)
       PROVE  RunInv'
  <2>1. UNCHANGED m_running /\ at[f] \in Exiting
      BY <1>14, ExitMoves
      DEF graceful_exit_flag, graceful_exit_locked, Moved, Exiting
  <2> QED
      BY <2>1, RunningPlaces, StoppedRun
<1>15. ASSUME NEW f \in Frame, join(f) PROVE RunInv'
  <2>1. UNCHANGED m_running /\ at[f] \in Exiting
      BY <1>15, ExitMoves DEF Moved, Exiting, Crash
  <2> QED
      BY <2>1, RunningPlaces, StoppedRun
<1>16. ASSUME NEW p \in Part, task_while(p) PROVE RunInv'
  <2>1. /\ UNCHANGED <<m_running, at, part, m_state, m_should_exit>>
        /\ ~m_should_exit[p] => thread'[p] = "wait_to_run"
        /\ \A q \in Part \ {p} : thread'[q] = thread[q]
      BY <1>16, <1>0, TaskFacts
  <2>2. \A q \in Part : ~m_should_exit[q] /\ Alive(q) =>
                            thread'[q] \in {"top", "wait_to_run"}
      BY <2>1 DEF Alive
  <2> QED
      BY <1>0, <2>1, <2>2 DEF RunInv, Alive
<1>17. ASSUME NEW p \in Part, task_wait_to_run(p) PROVE RunInv'
  <2>1. CASE Crash("pure virtual call")
      BY <1>0, <2>1, StillRun DEF Crash, partVars
  <2>2. CASE ~Crash("pure virtual call")
    <3>1. /\ UNCHANGED <<m_running, at, part, m_should_exit>>
          /\ thread' = [thread EXCEPT ![p] = "top"]
          /\ m_state[p] = "REQUEST_RUN" => m_state'[p] = "RUNNING"
          /\ m_state[p] # "REQUEST_RUN" => m_state'[p] = m_state[p]
          /\ \A q \in Part \ {p} : m_state'[q] = m_state[q]
        BY <1>17, <1>0, <2>2, TaskFacts
    <3>2. \A q \in Part : Alive(q) => thread'[q] \in {"top", "wait_to_run"}
        BY <1>0, <3>1 DEF TypeOK, Alive
    <3>3. \A q \in Part : /\ m_state[q] = "RUNNING" => m_state'[q] = "RUNNING"
                          /\ m_state[q] \in {"REQUEST_RUN", "RUNNING"} =>
                                m_state'[q] \in {"REQUEST_RUN", "RUNNING"}
        BY <3>1
    <3> QED
        BY <1>0, <3>1, <3>2, <3>3 DEF RunInv, Alive, Resuming
  <2> QED
      BY <2>1, <2>2
<1>18. CASE UNCHANGED vars
    BY <1>18, <1>0, StillRun DEF vars
<1> QED
    BY <1>1, <1>2, <1>3, <1>4, <1>5, <1>6, <1>7, <1>8, <1>9, <1>10, <1>11,
       <1>12, <1>13, <1>14, <1>15, <1>16, <1>17, <1>18, StepCases

\* Every step keeps the invariant.
LEMMA NextVehicle == VehicleInv /\ [Next]_vars => VehicleInv'
  BY ShapeStep, LifeStep, HandlerStep, RunStep DEF VehicleInv

(***************************************************************************)
(* The invariant holds of every build and in every phase of SIGINT.        *)
(***************************************************************************)
THEOREM VehicleInvariant == Spec => []VehicleInv
  BY InitVehicle, NextVehicle, PTL DEF Spec

(***************************************************************************)
(* The handler is never where only main() can be and no loop runs past the *)
(* end of m_parts: for any number of parts, in every phase of SIGINT.      *)
(***************************************************************************)
THEOREM VehicleTypes == Spec => []TypeOK
<1>1. VehicleInv => TypeOK
    BY DEF VehicleInv
<1> QED
    BY <1>1, VehicleInvariant, PTL

(***************************************************************************)
(* When stop(), on the main thread, has gone through m_parts, every part it*)
(* found there has been told to exit and is joined: for any number of parts*)
(* in any phase, whatever handlers on the parts' threads do.               *)
(***************************************************************************)
THEOREM StopIsComplete == Spec => []StopLeavesNoThread
<1>1. VehicleInv => StopLeavesNoThread
  <2> SUFFICES ASSUME VehicleInv, at[Main] = "shutdown", part[Main] > Added,
                      NEW p \in Threaded, p <= Added
               PROVE  m_state[p] = "REQUEST_EXIT" /\ thread[p] = "none"
      BY DEF StopLeavesNoThread
  <2>1. part[Main] \in Nat /\ Added \in Nat /\ p \in Nat
    <3>1. part \in [Frame -> 0..(N + 1)]
        BY DEF VehicleInv, TypeOK
    <3>2. part[Main] \in Nat /\ part[Base] \in Nat
        BY <3>1, FrameFacts
    <3> QED
        BY <3>2, PartNat, FrameFacts DEF Added
  <2>2. p < part[Main]
      BY <2>1
  <2> QED
      BY <2>2 DEF VehicleInv, HandlerInv
<1> QED
    BY <1>1, VehicleInvariant, PTL

(***************************************************************************)
(* While start_blocking's loop goes on undisturbed every threaded part is  *)
(* RUNNING in a live thread that nobody asked to exit.                     *)
(***************************************************************************)
THEOREM LoopRuns == Spec => []LoopMeansRunning
<1>1. VehicleInv => LoopMeansRunning
  <2> SUFFICES ASSUME VehicleInv, at[Base] = "loop", m_running,
                      NEW p \in Threaded
               PROVE  /\ m_state[p] = "RUNNING" /\ ~m_should_exit[p]
                      /\ thread[p] \in {"top", "wait_to_run"}
      BY DEF LoopMeansRunning
  <2>1. part[Base] = N + 1
      BY DEF VehicleInv, PlaceInv, BasePlace
  <2>2. p < part[Base]
      BY <2>1, PartNat, FrameFacts
  <2> QED
      BY <2>2 DEF VehicleInv, RunInv, Alive
<1> QED
    BY <1>1, VehicleInvariant, PTL

\* What ManagedThread::start asserts of the part that is started.
StartAssert ==
    at[Base] = "start" /\ part[Base] \in Part => ~joinable(part[Base])

(***************************************************************************)
(* start()'s assert that it has no thread yet never fails, in any phase:   *)
(* that start_part has it as a guard hides no failure.                     *)
(***************************************************************************)
THEOREM StartAssertHolds == Spec => []StartAssert
<1>1. VehicleInv => StartAssert
  <2> SUFFICES ASSUME VehicleInv, at[Base] = "start", part[Base] \in Part
               PROVE  thread[part[Base]] = "none"
      BY DEF StartAssert, joinable
  <2>1. part[Base] >= part[Base]
      BY PartNat
  <2> QED
      BY <2>1 DEF VehicleInv, LifeInv, NotYet, NotYetAt
<1> QED
    BY <1>1, VehicleInvariant, PTL

-----------------------------------------------------------------------------
(***************************************************************************)
(* An orderly end: the parts are joined before they are destroyed.         *)
(***************************************************************************)
\* When nobody handles SIGINT nobody executes stop() or what it calls.
LEMMA NoHandler ==
    ASSUME VehicleInv, at[Main] = "idle"
    PROVE  \A t \in Thread : at[t] = "idle"
  BY FrameFacts DEF VehicleInv, LifeInv

\* Which steps main() takes, where it comes from and where it goes.
LEMMA MainPlaces ==
    ASSUME VehicleInv
    PROVE  /\ add => at[Base] = "adding" /\ at'[Base] = "adding"
           /\ start_blocking => at[Base] = "adding" /\ at'[Base] = "start"
           /\ start_part => at[Base] = "start" /\ at'[Base] \in Starting
           /\ start_done => at[Base] = "start" /\ at'[Base] = "loop"
           /\ resume_enter =>
                at[Base] = "resume" /\ at'[Base] = "resume_locked"
           /\ resume_request =>
                at[Base] = "resume_locked" /\ at'[Base] \in Starting
           /\ resume_return =>
                at[Base] = "resume_wait" /\ at'[Base] = "start"
           /\ loop => at[Base] = "loop" /\ at'[Base] = "loop"
           /\ loop_done => at[Base] = "loop" /\ at'[Base] = "destroy"
           /\ destroy_part => at[Base] = "destroy" /\ at'[Base] = "exit_flag"
           /\ destroy_done => at[Base] = "destroy" /\ at'[Base] = "end"
<1>1. ASSUME NEW from, NEW to, NEW k, Moved(Base, from, to, k)
      PROVE  at[Base] = from /\ at'[Base] = to
    BY <1>1 DEF Moved
<1>2. ASSUME resume_request
      PROVE  at[Base] = "resume_locked" /\ at'[Base] \in Starting
    BY <1>1, <1>2, StartMoves DEF resume_request, Crash, Starting, Resuming
<1> QED
    BY <1>1, <1>2, StartMoves, EndMoves DEF Starting, Resuming

\* In every step of main() the handler on the main thread is idle.
LEMMA MainIdle ==
    ASSUME VehicleInv,
           \/ add \/ start_blocking \/ start_part \/ start_done
           \/ resume_enter \/ resume_request \/ resume_return
           \/ loop \/ loop_done \/ destroy_part \/ destroy_done
    PROVE  /\ at[Main] = "idle" /\ at'[Main] = "idle"
           /\ start_blocking \/ m_running' = m_running
<1>1. ASSUME NEW from, NEW to, NEW k, Moved(Base, from, to, k)
      PROVE  at[Main] = "idle" /\ at'[Main] = "idle"
    BY <1>1, FrameFacts DEF Moved
<1>2. at[Main] = "idle" /\ at'[Main] = "idle"
  <2>1. CASE resume_request
      BY <1>1, <2>1, StartMoves DEF resume_request, Runs, Crash
  <2>2. CASE ~resume_request
      BY <1>1, <2>2, StartMoves, EndMoves
  <2> QED
      BY <2>1, <2>2
<1>3. start_blocking \/ m_running' = m_running
    BY DEF add, start_blocking, start_part, start_done, resume_enter,
           resume_request, resume_return, loop, loop_done, destroy_part,
           destroy_done, Crash
<1> QED
    BY <1>2, <1>3

\* A handler on a part's thread runs while one on the main thread does.
LEMMA PartHandler ==
    ASSUME VehicleInv, NEW t \in Thread, t # Main, at[t] # "idle"
    PROVE  at[Main] # "idle"
  BY FrameFacts DEF VehicleInv, LifeInv

\* Where SIGINT may come to the main thread.
LEMMA SignalPlaces ==
    ASSUME VehicleInv, signal_handler(Main)
    PROVE  \/ at[Base] = "adding" /\ "adding" \in Phases
           \/ at[Base] = "loop"
           \/ at[Base] \in Starting /\ "starting" \in Phases
<1>1. Phase(Main) \in Phases
    BY DEF signal_handler
<1>2. "over" \notin Phases
    BY VehicleAssumption
<1> QED
    BY <1>1, <1>2 DEF Phase, Starting, Resuming

\* While start_blocking starts the parts nothing has stopped the vehicle,
\* when SIGINT does not come then.
LEMMA StartStep ==
    ASSUME VehicleInv, StartInv, [Next]_vars
    PROVE  StartInv'
<1> SUFFICES ASSUME "starting" \notin Phases, at'[Base] \in Starting
             PROVE  m_running' /\ at'[Main] = "idle"
    BY DEF StartInv, Starting, Resuming
<1> USE FrameFacts
<1>1. CASE \/ add \/ start_part \/ start_done \/ resume_enter
           \/ resume_request \/ resume_return
           \/ loop \/ loop_done \/ destroy_part \/ destroy_done
  <2>1. at[Base] \in Starting /\ ~start_blocking
      BY <1>1, MainPlaces DEF Starting, Resuming
  <2> QED
      BY <1>1, <2>1, MainIdle DEF StartInv
<1>2. CASE start_blocking
    BY <1>2, MainIdle DEF start_blocking
<1>3. ASSUME NEW t \in Thread, stop(t) \/ shutdown(t)
      PROVE  m_running' /\ at'[Main] = "idle"
  <2>1. at[t] # "idle" /\ at'[Base] = at[Base]
      BY <1>3, HandlerMoves DEF Moved
  <2> QED
      BY <2>1, NoHandler DEF StartInv
<1>4. ASSUME NEW t \in Thread, signal_handler(t)
      PROVE  m_running' /\ at'[Main] = "idle"
  <2>1. at'[Base] = at[Base]
      BY <1>4, HandlerMoves DEF Moved
  <2>2. CASE t = Main
      BY <1>4, <2>1, <2>2, SignalPlaces DEF Starting, Resuming
  <2>3. CASE t # Main
      BY <1>4, <2>1, <2>3 DEF signal_handler, StartInv
  <2> QED
      BY <2>2, <2>3
<1>5. ASSUME NEW f \in Frame,
             graceful_exit_flag(f) \/ graceful_exit_locked(f) \/ join(f)
      PROVE  m_running' /\ at'[Main] = "idle"
  <2>1. at[f] \in Exiting
      BY <1>5, ExitMoves DEF Moved, Exiting
  <2>2. at[Base] \in Starting
    <3>1. at'[Base] = at[Base] \/ (f = Base /\ at'[Base] \in Ending)
        BY <1>5, ExitMoves, Places DEF Moved, Crash, Ending, Exiting
    <3> QED
        BY <3>1 DEF Starting, Resuming, Ending, Exiting
  <2>3. f # Base
      BY <2>1, <2>2 DEF Starting, Resuming, Exiting
  <2> QED
      BY <2>1, <2>2, <2>3, NoHandler DEF StartInv, Exiting
<1>6. ASSUME NEW p \in Part, task_while(p) \/ task_wait_to_run(p)
      PROVE  m_running' /\ at'[Main] = "idle"
  <2>1. UNCHANGED <<m_running, at>>
      BY <1>6, TaskFacts DEF VehicleInv, Crash
  <2> QED
      BY <2>1 DEF StartInv
<1>7. CASE UNCHANGED vars
    BY <1>7 DEF vars, StartInv
<1> QED
    BY <1>1, <1>2, <1>3, <1>4, <1>5, <1>6, <1>7, StepCases

\* StopInv holds of a step that has its facts.
LEMMA StoppedStop ==
    ASSUME ~m_running' /\ at'[Base] \in Starting \cup {"loop"}
             /\ at'[Main] = "idle" =>
           \A p \in Threaded :
             /\ m_state'[p] = "REQUEST_EXIT"
             /\ \/ thread'[p] = "none"
                \/ p = part'[Base] /\ at'[Base] \in {"resume", "resume_locked"}
    PROVE  StopInv'
  BY DEF StopInv

\* Once a handler has stopped the vehicle the parts stay stopped until they
\* are destroyed.
LEMMA StopStep ==
    ASSUME Orderly, VehicleInv, StartInv, StopInv, [Next]_vars
    PROVE  StopInv'
<1> SUFFICES ASSUME ~m_running', at'[Base] \in Starting \cup {"loop"},
                    at'[Main] = "idle", NEW p \in Threaded
             PROVE  /\ m_state'[p] = "REQUEST_EXIT"
                    /\ \/ thread'[p] = "none"
                       \/ /\ p = part'[Base]
                          /\ at'[Base] \in {"resume", "resume_locked"}
    BY StoppedStop
<1> DEFINE Goal == /\ m_state'[p] = "REQUEST_EXIT"
                   /\ \/ thread'[p] = "none"
                      \/ /\ p = part'[Base]
                         /\ at'[Base] \in {"resume", "resume_locked"}
<1> USE FrameFacts
<1>0. /\ TypeOK /\ part[Base] \in 0..(N + 1)
      /\ at[Base] \in Resuming => part[Base] \in Threaded
    BY DEF VehicleInv, TypeOK, PlaceInv, BasePlace
<1>1. ASSUME at[Base] \in Starting \cup {"loop"}, at[Main] = "idle",
             m_running' = m_running
      PROVE  /\ m_state[p] = "REQUEST_EXIT"
             /\ \/ thread[p] = "none"
                \/ p = part[Base] /\ at[Base] \in {"resume", "resume_locked"}
    BY <1>1 DEF StopInv
<1>2. CASE add
    BY <1>2, MainPlaces DEF Starting, Resuming
<1>3. CASE start_blocking
    BY <1>3 DEF start_blocking
<1>4. CASE start_part
  <2>1. /\ m_state[p] = "REQUEST_EXIT" /\ thread[p] = "none"
        /\ at[Base] = "start"
    <3>1. at[Base] = "start" /\ ~start_blocking
        BY <1>4, MainPlaces
    <3> QED
        BY <1>1, <1>4, <3>1, MainIdle DEF Starting
  <2>2. CASE UNCHANGED partVars
      BY <2>1, <2>2 DEF partVars
  <2>3. CASE /\ Moved(Base, "start", "resume", part[Base])
             /\ thread' = [thread EXCEPT ![part[Base]] = "top"]
             /\ UNCHANGED m_state
    <3>1. at'[Base] = "resume" /\ part'[Base] = part[Base]
        BY <2>3 DEF Moved
    <3>2. p # part[Base] => thread'[p] = thread[p]
        BY <1>0, <2>3 DEF TypeOK
    <3> QED
        BY <2>1, <2>3, <3>1, <3>2
  <2> QED
      BY <1>4, <2>2, <2>3, StartMoves
<1>5. CASE start_done
  <2>1. UNCHANGED partVars /\ at[Base] = "start" /\ ~start_blocking
      BY <1>5, MainPlaces DEF start_done
  <2> QED
      BY <1>1, <1>5, <2>1, MainIdle DEF partVars, Starting
<1>6. CASE resume_enter
  <2>1. /\ UNCHANGED <<part, partVars>> /\ at[Base] = "resume"
        /\ at'[Base] = "resume_locked" /\ ~start_blocking
      BY <1>6, MainPlaces DEF resume_enter
  <2> QED
      BY <1>1, <1>6, <2>1, MainIdle DEF partVars, Starting, Resuming
<1>7. CASE resume_request
  <2>1. at[Base] = "resume_locked" /\ ~start_blocking
      BY <1>7, MainPlaces
  <2>2. at[Main] = "idle" /\ m_running' = m_running
      BY <1>7, <2>1, MainIdle
  <2>3. m_state[part[Base]] = "REQUEST_EXIT"
      BY <1>0, <2>1, <2>2 DEF StopInv, Starting, Resuming
  <2>4. ~NDEBUG
      BY <2>1, <2>2 DEF Orderly, StartInv, Starting, Resuming
  <2>5. UNCHANGED <<at, part, partVars>>
      BY <1>7, <2>3, <2>4 DEF resume_request, Crash
  <2> QED
      BY <1>1, <2>1, <2>2, <2>5 DEF partVars, Starting, Resuming
<1>8. CASE resume_return
  <2>1. /\ at[Base] = "resume_wait" /\ ~start_blocking
        /\ m_state[part[Base]] = "RUNNING"
      BY <1>8, MainPlaces DEF resume_return
  <2>2. at[Main] = "idle" /\ m_running' = m_running
      BY <1>8, <2>1, MainIdle
  <2>3. m_state[part[Base]] = "REQUEST_EXIT"
      BY <1>0, <2>1, <2>2 DEF StopInv, Starting, Resuming
  <2> QED
      BY <2>1, <2>3
<1>9. CASE loop
  <2>1. UNCHANGED <<part, partVars>> /\ at[Base] = "loop" /\ ~start_blocking
      BY <1>9, MainPlaces DEF loop
  <2> QED
      BY <1>1, <1>9, <2>1, MainIdle DEF partVars
<1>10. CASE loop_done \/ destroy_part \/ destroy_done
    BY <1>10, MainPlaces DEF Starting, Resuming
<1>11. ASSUME NEW t \in Thread, t # Main,
              stop(t) \/ shutdown(t) \/ signal_handler(t)
       PROVE  FALSE
  <2>1. at'[Main] = at[Main] /\ (signal_handler(t) \/ at[t] # "idle")
      BY <1>11, HandlerMoves DEF Moved
  <2> QED
      BY <1>11, <2>1, PartHandler DEF signal_handler
<1>12. CASE stop(Main) \/ signal_handler(Main)
    BY <1>12, HandlerMoves DEF Moved
<1>13. CASE shutdown(Main)
  <2>1. /\ part[Main] > Added /\ Moved(Main, "shutdown", "idle", part[Main])
      BY <1>13, HandlerMoves DEF Moved
  <2>2. at[Main] = "shutdown" /\ at[Base] = at'[Base]
      BY <2>1 DEF Moved
  <2>3. thread[p] = "none"
      BY <2>1, <2>2, HandlerLast
  <2>4. p < part[Main]
    <3>1. part[Main] > N /\ part[Main] \in 0..(N + 1)
        BY <1>0, <2>1, <2>2 DEF Added, Starting, Resuming, TypeOK
    <3> QED
        BY <3>1, PartNat
  <2>5. m_state[p] = "REQUEST_EXIT"
      BY <2>2, <2>4 DEF VehicleInv, HandlerInv
  <2>6. UNCHANGED <<m_state, thread>>
      BY <1>13 DEF shutdown, partVars
  <2> QED
      BY <2>3, <2>5, <2>6
<1>14. ASSUME NEW f \in Frame,
              graceful_exit_flag(f) \/ graceful_exit_locked(f) \/ join(f)
       PROVE  Goal
  <2>1. CASE Crash("terminate")
    <3>1. UNCHANGED <<m_running, at, part, m_state, thread>>
        BY <2>1 DEF Crash, partVars
    <3> QED
        BY <1>1, <3>1
  <2>2. CASE ~Crash("terminate")
    <3>1. /\ at[f] \in Exiting
          /\ at'[f] \in Exiting \cup {"destroy", "shutdown"}
          /\ \A g \in Frame : g # f => at'[g] = at[g]
        BY <1>14, <2>2, ExitMoves DEF Moved, Exiting, AfterJoin
    <3>2. f # Base
        BY <1>14, <2>2, <3>1, ExitMoves, Places
        DEF Moved, Starting, Resuming, Exiting
    <3>3. f # Main
        BY <3>1 DEF Exiting
    <3>4. at[f] # "idle" /\ f \in Thread /\ at[Main] = "idle"
        BY <3>1, <3>2, <3>3 DEF Exiting
    <3> QED
        BY <3>3, <3>4, PartHandler
  <2> QED
      BY <2>1, <2>2
<1>15. ASSUME NEW q \in Part, task_while(q) \/ task_wait_to_run(q)
       PROVE  Goal
  <2>1. UNCHANGED <<m_running, at, part>>
      BY <1>0, <1>15, TaskFacts DEF Crash
  <2>2. /\ m_state[p] = "REQUEST_EXIT" => m_state'[p] = "REQUEST_EXIT"
        /\ thread[p] = "none" => thread'[p] = "none"
    <3>1. CASE task_while(q)
        BY <1>0, <3>1, TaskFacts DEF Alive
    <3>2. CASE task_wait_to_run(q) /\ Crash("pure virtual call")
        BY <3>2 DEF Crash, partVars
    <3>3. CASE task_wait_to_run(q) /\ ~Crash("pure virtual call")
      <4>1. /\ Alive(q) /\ thread' = [thread EXCEPT ![q] = "top"]
            /\ m_state[q] # "REQUEST_RUN" => m_state'[q] = m_state[q]
            /\ \A r \in Part \ {q} : m_state'[r] = m_state[r]
          BY <1>0, <3>3, TaskFacts
      <4> QED
          BY <1>0, <4>1 DEF Alive, TypeOK
    <3> QED
        BY <1>15, <3>1, <3>2, <3>3
  <2> QED
      BY <1>1, <2>1, <2>2
<1>16. CASE UNCHANGED vars
    BY <1>1, <1>16 DEF vars
<1> QED
    BY <1>2, <1>3, <1>4, <1>5, <1>6, <1>7, <1>8, <1>9, <1>10, <1>11, <1>12,
       <1>13, <1>14, <1>15, <1>16, StepCases

\* Once the destructors run, no thread is left to be signalled or to end.
LEMMA EndStep ==
    ASSUME VehicleInv, StopInv, EndInv, [Next]_vars
    PROVE  EndInv'
<1> SUFFICES ASSUME at'[Base] \in Ending
             PROVE  at'[Main] = "idle" /\ \A p \in Part : thread'[p] = "none"
    BY DEF EndInv, Ending, Exiting
<1> DEFINE Goal == at'[Main] = "idle" /\ \A p \in Part : thread'[p] = "none"
<1> USE FrameFacts
<1>1. ASSUME at[Base] \in Ending, at'[Main] = at[Main],
             \A p \in Part : thread[p] = "none" => thread'[p] = "none"
      PROVE  Goal
    BY <1>1 DEF EndInv
<1>2. CASE \/ add \/ start_blocking \/ start_part \/ start_done
           \/ resume_enter \/ resume_request \/ resume_return \/ loop
    BY <1>2, MainPlaces DEF Starting, Resuming, Ending, Exiting
<1>3. CASE loop_done
  <2>1. /\ at[Base] = "loop" /\ ~m_running /\ UNCHANGED thread
        /\ at[Main] = "idle" /\ at'[Main] = "idle"
      BY <1>3, MainPlaces, MainIdle DEF loop_done, partVars
  <2>2. \A p \in Threaded : thread[p] = "none"
      BY <2>1 DEF StopInv
  <2>3. \A p \in Part : thread[p] = "none"
      BY <2>2 DEF VehicleInv, LifeInv
  <2> QED
      BY <2>1, <2>3
<1>4. CASE destroy_part \/ destroy_done
  <2>1. at[Base] = "destroy" /\ at'[Main] = at[Main] /\ UNCHANGED thread
      BY <1>4, MainPlaces, MainIdle DEF destroy_part, destroy_done, partVars
  <2> QED
      BY <1>1, <2>1 DEF Ending
<1>5. ASSUME NEW t \in Thread, stop(t) \/ shutdown(t) PROVE Goal
  <2>1. at[t] # "idle" /\ at'[Base] = at[Base]
      BY <1>5, HandlerMoves DEF Moved
  <2> QED
      BY <2>1, NoHandler DEF EndInv
<1>6. ASSUME NEW t \in Thread, signal_handler(t) PROVE Goal
  <2>1. at'[Base] = at[Base]
      BY <1>6, HandlerMoves DEF Moved
  <2>2. CASE t = Main
      BY <1>6, <2>1, <2>2, SignalPlaces
      DEF Ending, Exiting, Starting, Resuming
  <2>3. CASE t # Main
      BY <1>6, <2>1, <2>3 DEF signal_handler, EndInv
  <2> QED
      BY <2>2, <2>3
<1>7. ASSUME NEW f \in Frame,
             graceful_exit_flag(f) \/ graceful_exit_locked(f) \/ join(f)
      PROVE  Goal
  <2>1. CASE Crash("terminate")
    <3>1. UNCHANGED <<at, thread>>
        BY <2>1 DEF Crash, partVars
    <3> QED
        BY <1>1, <3>1
  <2>2. CASE ~Crash("terminate")
    <3>1. /\ at[f] \in Exiting
          /\ \A g \in Frame : g # f => at'[g] = at[g]
          /\ \/ UNCHANGED thread
             \/ thread' = [thread EXCEPT ![part[f]] = "none"]
        BY <1>7, <2>2, ExitMoves
        DEF graceful_exit_flag, graceful_exit_locked, Moved, Exiting, partVars
    <3>2. at[Base] \in Ending
      <4>1. CASE f = Base
          BY <3>1, <4>1 DEF Ending
      <4>2. CASE f # Base
          BY <3>1, <4>2
      <4> QED
          BY <4>1, <4>2
    <3>3. f = Base
        BY <3>1, <3>2, NoHandler DEF EndInv, Exiting
    <3>4. \A p \in Part : thread[p] = "none" => thread'[p] = "none"
      <4>1. thread \in [Part -> {"none", "top", "wait_to_run", "done"}]
          BY DEF VehicleInv, TypeOK
      <4> QED
          BY <3>1, <4>1
    <3> QED
        BY <1>1, <3>1, <3>2, <3>3, <3>4
  <2> QED
      BY <2>1, <2>2
<1>8. ASSUME NEW q \in Part, task_while(q) \/ task_wait_to_run(q) PROVE Goal
  <2>1. UNCHANGED at /\ Alive(q)
      BY <1>8, TaskFacts DEF VehicleInv, Crash
  <2> QED
      BY <2>1 DEF EndInv, Alive
<1>9. CASE UNCHANGED vars
    BY <1>1, <1>9 DEF vars, EndInv
<1> QED
    BY <1>2, <1>3, <1>4, <1>5, <1>6, <1>7, <1>8, <1>9, StepCases

\* At first nothing has been started.
LEMMA InitOrderly == Init => OrderlyInv
<1> SUFFICES ASSUME Init PROVE OrderlyInv
    OBVIOUS
<1>1. at[Base] = "adding"
    BY FrameFacts DEF Init
<1> QED
    BY <1>1 DEF OrderlyInv, StartInv, StopInv, EndInv, Starting, Resuming,
                Ending, Exiting

\* An orderly vehicle stays so.
LEMMA NextOrderly ==
    ASSUME Orderly
    PROVE  VehicleInv /\ OrderlyInv /\ [Next]_vars => OrderlyInv'
  BY StartStep, StopStep, EndStep DEF OrderlyInv

(***************************************************************************)
(* When ~Vehicle destroys a part no part has a thread any more: in the     *)
(* Debug build in every phase of SIGINT, in the Release build when it does *)
(* not come while the parts are started.                                   *)
(***************************************************************************)
THEOREM DestroysJoinedParts ==
    ASSUME Orderly
    PROVE  Spec => []JoinedBeforeDestroyed
<1>1. VehicleInv /\ OrderlyInv /\ [Next]_vars => (VehicleInv /\ OrderlyInv)'
    BY NextVehicle, NextOrderly
<1>2. OrderlyInv => JoinedBeforeDestroyed
    BY DEF OrderlyInv, EndInv, Ending, JoinedBeforeDestroyed
<1> QED
    BY <1>1, <1>2, InitVehicle, InitOrderly, PTL DEF Spec

-----------------------------------------------------------------------------
(***************************************************************************)
(* A polite SIGINT crashes nothing.                                        *)
(***************************************************************************)
\* What is polite is orderly.
LEMMA PoliteOrderly == Polite => Orderly
  BY DEF Polite, Orderly

\* At first nothing has crashed and nothing is told to exit.
LEMMA InitCalm == Init => CalmInv
<1> SUFFICES ASSUME Init PROVE CalmInv
    OBVIOUS
<1>1. at[Base] = "adding" /\ \A t \in Thread : at[t] = "idle"
    BY FrameFacts DEF Init
<1> QED
    BY <1>1, FrameFacts DEF Init, CalmInv

\* No assert fails, no thread joins itself and update() is never pure.
LEMMA CalmSteps ==
    ASSUME Polite, VehicleInv, EndInv, CalmInv, Next
    PROVE  crashed' = "no"
<1> USE FrameFacts
<1>1. ASSUME resume_request, Crash("assert") PROVE FALSE
  <2>1. at[Base] = "resume_locked" /\ part[Base] \in Part
      BY <1>1, MainPlaces DEF VehicleInv, PlaceInv, BasePlace, Resuming
  <2>2. ~NDEBUG /\ m_state[part[Base]] = "REQUEST_EXIT"
      BY <1>1 DEF resume_request, Crash, CalmInv
  <2> QED
      BY <2>1, <2>2 DEF CalmInv, Starting, Resuming
<1>2. ASSUME NEW f \in Frame, at[f] = "join", ThreadOf(f) = part[f] PROVE FALSE
  <2>1. part[f] \in Part
      BY <1>2 DEF VehicleInv, PlaceInv, BasePlace, HandlerPlace, Exiting
  <2> QED
      BY <1>2, <2>1 DEF CalmInv
<1>3. ASSUME NEW p \in Part, ~derived[p], Alive(p) PROVE FALSE
    BY <1>3 DEF CalmInv, EndInv, Alive
<1>4. crashed = "no"
    BY DEF CalmInv
<1>5. CASE \/ add \/ start_blocking \/ start_part \/ start_done
           \/ resume_enter \/ resume_return
           \/ loop \/ loop_done \/ destroy_part \/ destroy_done
    BY <1>4, <1>5
    DEF add, start_blocking, start_part, start_done, resume_enter,
        resume_return, loop, loop_done, destroy_part, destroy_done
<1>6. CASE resume_request
    BY <1>1, <1>4, <1>6 DEF resume_request
<1>7. ASSUME NEW t \in Thread, stop(t) \/ shutdown(t) \/ signal_handler(t)
      PROVE  crashed' = "no"
    BY <1>4, <1>7 DEF stop, shutdown, signal_handler
<1>8. ASSUME NEW f \in Frame,
             graceful_exit_flag(f) \/ graceful_exit_locked(f) \/ join(f)
      PROVE  crashed' = "no"
    BY <1>2, <1>4, <1>8 DEF graceful_exit_flag, graceful_exit_locked, join
<1>9. ASSUME NEW p \in Part, task_while(p) \/ task_wait_to_run(p)
      PROVE  crashed' = "no"
    BY <1>3, <1>4, <1>9, TaskFacts DEF VehicleInv
<1>10. CASE UNCHANGED vars
    BY <1>4, <1>10 DEF vars
<1> QED
    BY <1>5, <1>6, <1>7, <1>8, <1>9, <1>10, StepCases

\* SIGINT comes to the main thread only, and early in the Release build only.
LEMMA CalmHandlers ==
    ASSUME Polite, VehicleInv, CalmInv, [Next]_vars
    PROVE  /\ \A p \in Part : at'[p] = "idle"
           /\ at'[Base] \in {"adding"} \cup Starting /\ ~NDEBUG =>
                at'[Main] = "idle"
<1> USE FrameFacts
<1> DEFINE Goal == /\ \A p \in Part : at'[p] = "idle"
                   /\ at'[Base] \in {"adding"} \cup Starting /\ ~NDEBUG =>
                        at'[Main] = "idle"
<1>0. /\ \A p \in Part : at[p] = "idle"
      /\ at[Base] \in {"adding"} \cup Starting /\ ~NDEBUG => at[Main] = "idle"
    BY DEF CalmInv
<1>1. CASE \/ add \/ start_blocking \/ start_part \/ start_done
           \/ resume_enter \/ resume_request \/ resume_return
           \/ loop \/ loop_done \/ destroy_part \/ destroy_done
  <2>1. at[Main] = "idle" /\ at'[Main] = "idle"
      BY <1>1, MainIdle
  <2>2. ASSUME NEW from, NEW to, NEW k, Moved(Base, from, to, k)
        PROVE  \A p \in Part : at'[p] = at[p]
      BY <2>2 DEF Moved
  <2>3. \A p \in Part : at'[p] = at[p]
      BY <1>1, <2>2, StartMoves, EndMoves DEF Crash
  <2> QED
      BY <1>0, <2>1, <2>3
<1>2. ASSUME NEW t \in Thread, stop(t) \/ shutdown(t) PROVE Goal
  <2>1. /\ at[t] # "idle" /\ at'[Base] = at[Base]
        /\ \A u \in Thread : u # t => at'[u] = at[u]
      BY <1>2, HandlerMoves DEF Moved
  <2> QED
      BY <1>0, <2>1
<1>3. ASSUME NEW t \in Thread, signal_handler(t) PROVE Goal
  <2>1. t = Main
      BY <1>3 DEF signal_handler, Phase, Polite
  <2>2. /\ at'[Base] = at[Base]
        /\ \A u \in Thread : u # t => at'[u] = at[u]
      BY <1>3, HandlerMoves DEF Moved
  <2>3. ~(at[Base] \in {"adding"} \cup Starting /\ ~NDEBUG)
      BY <1>3, <2>1, SignalPlaces DEF Polite, Starting, Resuming
  <2> QED
      BY <1>0, <2>1, <2>2, <2>3
<1>4. ASSUME NEW f \in Frame,
             graceful_exit_flag(f) \/ graceful_exit_locked(f) \/ join(f)
      PROVE  Goal
  <2>1. CASE Crash("terminate")
      BY <1>0, <2>1 DEF Crash
  <2>2. CASE ~Crash("terminate")
    <3>1. /\ at[f] \in Exiting
          /\ at'[f] \in Exiting \cup {AfterJoin(f)}
          /\ \A g \in Frame : g # f => at'[g] = at[g]
        BY <1>4, <2>2, ExitMoves DEF Moved, Exiting
    <3>2. at[f] # "idle" /\ f \notin Part
        BY <1>0, <3>1 DEF Exiting
    <3>3. CASE f = Base
        BY <1>0, <3>1, <3>3, Places DEF Starting, Resuming, Exiting
    <3>4. CASE f = Main
        BY <1>0, <3>1, <3>2, <3>4
    <3> QED
        BY <3>2, <3>3, <3>4
  <2> QED
      BY <2>1, <2>2
<1>5. ASSUME NEW q \in Part, task_while(q) \/ task_wait_to_run(q) PROVE Goal
  <2>1. UNCHANGED at
      BY <1>5, TaskFacts DEF VehicleInv, Crash
  <2> QED
      BY <1>0, <2>1
<1>6. CASE UNCHANGED vars
    BY <1>0, <1>6 DEF vars
<1> QED
    BY <1>1, <1>2, <1>3, <1>4, <1>5, <1>6, StepCases

\* A part loses its own class only in its destructor, and is told to exit
\* only by a handler or a destructor.
LEMMA CalmParts ==
    ASSUME Polite, VehicleInv, CalmInv, [Next]_vars
    PROVE  /\ \A p \in Part : ~derived'[p] => at'[Base] \in Ending
           /\ at'[Base] \in {"adding"} \cup Starting /\ ~NDEBUG =>
                \A p \in Part : m_state'[p] # "REQUEST_EXIT"
<1> USE FrameFacts
<1> DEFINE Goal == /\ \A p \in Part : ~derived'[p] => at'[Base] \in Ending
                   /\ at'[Base] \in {"adding"} \cup Starting /\ ~NDEBUG =>
                        \A p \in Part : m_state'[p] # "REQUEST_EXIT"
<1>0. /\ TypeOK
      /\ \A p \in Part : ~derived[p] => at[Base] \in Ending
      /\ at[Base] \in {"adding"} \cup Starting /\ ~NDEBUG =>
            at[Main] = "idle" /\ \A p \in Part : m_state[p] # "REQUEST_EXIT"
      /\ \A p \in Part : at[p] = "idle"
    BY DEF CalmInv, VehicleInv
<1>1. ASSUME UNCHANGED derived,
             at[Base] \in Ending => at'[Base] \in Ending,
             at'[Base] \in {"adding"} \cup Starting =>
                at[Base] \in {"adding"} \cup Starting,
             \A p \in Part : \/ m_state'[p] = m_state[p]
                             \/ m_state'[p] # "REQUEST_EXIT"
      PROVE  Goal
    BY <1>0, <1>1
<1>2. CASE \/ add \/ start_blocking \/ start_part \/ start_done
           \/ resume_enter \/ resume_return \/ loop \/ loop_done
           \/ destroy_done
  <2>1. UNCHANGED <<m_state, derived>>
      BY <1>2 DEF add, start_blocking, start_part, start_done, resume_enter,
                  resume_return, loop, loop_done, destroy_done, partVars
  <2>2. /\ at[Base] \in Ending => at'[Base] \in Ending
        /\ at'[Base] \in {"adding"} \cup Starting =>
            at[Base] \in {"adding"} \cup Starting
      BY <1>2, MainPlaces DEF Starting, Resuming, Ending, Exiting
  <2> QED
      BY <1>1, <2>1, <2>2
<1>3. CASE resume_request
  <2>1. at[Base] \in Starting /\ at'[Base] \in Starting
      BY <1>3, MainPlaces DEF Starting, Resuming
  <2>2. /\ UNCHANGED derived
        /\ \A p \in Part : \/ m_state'[p] = m_state[p]
                           \/ m_state'[p] # "REQUEST_EXIT"
      BY <1>0, <1>3 DEF resume_request, Crash, partVars, TypeOK
  <2> QED
      BY <1>1, <2>1, <2>2 DEF Starting, Resuming, Ending, Exiting
<1>4. CASE destroy_part
  <2>1. at'[Base] = "exit_flag"
      BY <1>4, MainPlaces
  <2> QED
      BY <2>1 DEF Starting, Resuming, Ending, Exiting
<1>5. ASSUME NEW t \in Thread, stop(t) \/ shutdown(t) \/ signal_handler(t)
      PROVE  Goal
  <2>1. UNCHANGED <<m_state, derived>> /\ at'[Base] = at[Base]
      BY <1>5, HandlerMoves DEF stop, shutdown, signal_handler, partVars, Moved
  <2> QED
      BY <1>1, <2>1
<1>6. ASSUME NEW f \in Frame,
             graceful_exit_flag(f) \/ graceful_exit_locked(f) \/ join(f)
      PROVE  Goal
  <2>1. CASE Crash("terminate")
      BY <1>1, <2>1 DEF Crash, partVars
  <2>2. CASE ~Crash("terminate")
    <3>1. /\ at[f] \in Exiting
          /\ at'[f] \in Exiting \cup {AfterJoin(f)}
          /\ \A g \in Frame : g # f => at'[g] = at[g]
          /\ UNCHANGED derived
        BY <1>6, <2>2, ExitMoves
        DEF graceful_exit_flag, graceful_exit_locked, Moved, Exiting, partVars
    <3>2. CASE f = Base
      <4>1. at'[Base] \in Ending
          BY <3>1, <3>2, Places DEF Ending
      <4> QED
          BY <4>1 DEF Starting, Resuming, Ending, Exiting
    <3>3. CASE f = Main
        BY <1>0, <3>1, <3>3 DEF Exiting
    <3>4. CASE f \in Part
        BY <1>0, <3>1, <3>4 DEF Exiting
    <3> QED
        BY <3>2, <3>3, <3>4
  <2> QED
      BY <2>1, <2>2
<1>7. ASSUME NEW q \in Part, task_while(q) \/ task_wait_to_run(q) PROVE Goal
  <2>1. UNCHANGED <<at, derived>>
      BY <1>0, <1>7, TaskFacts DEF Crash, partVars
  <2>2. \A p \in Part : \/ m_state'[p] = m_state[p]
                        \/ m_state'[p] # "REQUEST_EXIT"
    <3>1. CASE task_while(q)
        BY <1>0, <3>1, TaskFacts
    <3>2. CASE task_wait_to_run(q)
        BY <1>0, <3>2, TaskFacts DEF Crash, partVars
    <3> QED
        BY <1>7, <3>1, <3>2
  <2> QED
      BY <1>1, <2>1, <2>2
<1>8. CASE UNCHANGED vars
    BY <1>1, <1>8 DEF vars
<1> QED
    BY <1>2, <1>3, <1>4, <1>5, <1>6, <1>7, <1>8, StepCases

\* A calm vehicle stays so.
LEMMA NextCalm ==
    ASSUME Polite
    PROVE  VehicleInv /\ OrderlyInv /\ CalmInv /\ [Next]_vars => CalmInv'
<1> SUFFICES ASSUME VehicleInv, OrderlyInv, CalmInv, [Next]_vars
             PROVE  CalmInv'
    OBVIOUS
<1>1. crashed' = "no"
    BY CalmSteps DEF OrderlyInv, CalmInv, vars
<1> QED
    BY <1>1, CalmHandlers, CalmParts DEF CalmInv

(***************************************************************************)
(* No assert fails, no thread joins itself and no pure virtual update() is *)
(* called, when SIGINT comes to the main thread and not while the parts    *)
(* are started, nor, with asserts, before that.                            *)
(***************************************************************************)
THEOREM PoliteSigintIsSafe ==
    ASSUME Polite
    PROVE  Spec => []NoCrash
<1>1. /\ VehicleInv /\ OrderlyInv /\ CalmInv /\ [Next]_vars
            => (VehicleInv /\ OrderlyInv /\ CalmInv)'
    BY NextVehicle, NextOrderly, NextCalm, PoliteOrderly
<1>2. CalmInv => NoCrash
    BY DEF CalmInv, NoCrash
<1> QED
    BY <1>1, <1>2, InitVehicle, InitOrderly, InitCalm, PTL DEF Spec

=============================================================================
