# DonkeycarGT: a TLA+ verification project

DonkeycarGT is a C++ robot-car framework: a `Vehicle` runs a list of `Part`s
in a loop; a part may have a managed thread of its own, and parts exchange data
through a locked map. This directory holds TLA+ models of its core, the TLC runs
that check them, and TLAPS proofs.

Paths below are relative to the repository (`src/` here is the repository's
own source directory).

## 1. Inventory of the system

| Component | State | Operations | Interacts through |
|---|---|---|---|
| `Event` (`src/event.cpp`) | a pthread condition variable | `trigger_all` (a *signal*, not a broadcast), timed `wait` | the mutex passed to `wait` |
| `Mutex`, `Lock` | recursive pthread mutex, RAII guard | `lock`, `unlock`, `try_lock` | every other component |
| `ManagedTaskStatus` | `m_state` (5 states), `m_mutex`, `m_event` | `pause_task_blocking`, `resume_task_blocking`, `wait_to_run`, `set_exit_flag_blocking`, observers | supervisors on one side, the managed thread on the other |
| `ManagedThread` | `m_should_exit` (atomic), `m_mutex_pause_resume`, `m_thread` | `start`, `suspend`, `resume`, `graceful_exit`, `join`, destructor, `task()` | calls `ManagedTaskStatus`; calls back the derived class's `update()` and `should_exit()` |
| `Part` | topics, `m_threaded` | `start` (= start + resume), `shutdown` (= graceful_exit + join), `run` | a `ManagedThread` |
| `Vehicle`, `main` | `m_parts`, `m_running`, `m_store` | `add`, `start_blocking`, `stop`, `signal_handler`, `update_parts`, `throttle` | calls the parts; SIGINT calls `stop` |
| `Memory`, `LockedMap` | topic -> last datum, behind one mutex | `get`, `put`; `insert`, `at`, `clear`, `size`, `empty` | `update_parts`; any thread |
| `ImageListCamera`, `WebCamera` | `m_output` (one `Image` for ever), file list and index, `m_frame` | construction, `run`, `update` | the output topic; `m_output` is shared with every reader |
| `ImageConsumer`, `LineFollower`, `KerasPilot` | `m_input`, the model | construction, `run`, `update`, `get_i_color`, `predict` | the input topic |
| `NetworkPublisherMqtt` | none (an empty `update`) | `run` | topics |

What is hard here: the pause/resume handshake between supervisors and the
managed thread (two locks, one condition variable, timed waits, an atomic flag
written outside the locks); exit requests that race everything else; the order
of `start`, `graceful_exit`, `join` and the destructor; a signal handler that
calls blocking code on top of the thread it interrupts, through recursive
mutexes; asserts that guard the protocol in one build and are absent in the
other; images that are handed on by pointer and go on being written by the camera
that made them; arithmetic with time in fixed widths. `PROJECT.json` lists the hazards at their lines, with the properties
that watch them.

What makes the components correct:

* handshake: `suspend` returns only when `update()` is not running and will not
  start; nobody overwrites somebody else's request; nobody sleeps through the
  state he waits for; blocking calls return without relying on time-outs;
* thread life: `graceful_exit` ends `task()`, exit requests are final, no
  assert fires for callers that keep to the documented order;
* vehicle life: while the loop goes on every threaded part is running; SIGINT
  ends the program; `stop` leaves no part with a thread; no part is destroyed before
  its thread has been joined;
* data flow: a reader that is added after its producer never follows a null
  pointer; behind a list camera it works on the file of the current turn and misses
  none, behind a web camera on what the output holds, which the throttle may keep old;
  without threads no image is torn, emptied or freed under its reader's hands;
* map: its methods are atomic, the mutex is given back also when `at` throws,
  nothing that was deleted can be found;
* time: deadlines are exact, no wait ends early or never, the loop neither
  oversleeps nor runs faster than asked;
* line: the filters remove specks, keep solid blocks and invent nothing; a line
  is drawn when and where there is one.

## 2. The modules

**`Event`** - the condition variable as the set `waiters`. `trigger_all`
removes one arbitrary waiter, as `pthread_cond_signal` does.

**`ManagedTaskStatus`** - `m_state`, and `inside[t]`, the method in whose
wait loop thread `t` is. A method holds `m_mutex` from its first to its last
line except in `wait`, and no other code touches `m_state`, so the stretch from
taking the mutex to returning or waiting is one step, and so is each turn of a
wait loop. `NDEBUG` is the build. `wait_times_out` lets any wait end without a
signal (a time-out or a spurious wake-up) at any time.

**`ManagedThread`** - one object, its thread `Task`, and a set `Callers` of
threads that call it. Each method is an action that includes the part of the
status method it calls; `m_mutex_pause_resume` is a variable because it is held
across waits and across `std::thread::join`. Accesses of `m_should_exit`
outside the lock are steps of their own (the two reads of `task()`'s last
condition are one step: nothing happens between them that could not happen
before or after). `life`, `Permitted` and `Env` describe the callers:
with `Env = {}` they keep to the order start, suspend/resume, graceful_exit,
join, destructor; each member of `Env` is a liberty they take. "any_order" is the
widest: until the destructor begins every caller calls any method at any time, also
suspend, resume and join before start. Calls on an object under destruction are not
modelled. A failed assert,
an assignment to a joinable `std::thread` and a pure virtual call set `crashed`.

**`WorkPermit`** - the abstract specification: what a managed thread promises
to its supervisors. The thread works under a permit; permits are given in mode
"run" only; `suspend` returns only in mode "quiet" with the permit given back;
no permit is given after the exit request. `ManagedThread!Permit` is the
refinement mapping: REQUEST_PAUSE still is "run", REQUEST_RUN still is "quiet",
and the permit is the `true` returned by `wait_to_run` until `task()` is back at
its loop condition.

**`Vehicle`** - the life of a whole vehicle: parts are added, started, run,
stopped by SIGINT, destroyed. What executes is a *frame*: `main()` (`Base`) or
the handler on top of a thread. The parts' threads are taken in coarser steps
than in `ManagedThread` (loop condition, then `wait_to_run` with `update()`).
Who holds the recursive locks follows from where the frames are. `Phases` says
when SIGINT may arrive, from the first `add` to the end of the loop. The kernel
delivers it to the main thread unless it is blocked there, which it is while the main
thread executes the handler; then a part's thread gets it. `m_mutex` is given up in the condition wait and held
just before it (`resume_locked`), so that the handler can interrupt both.

**`Pipeline`** - construction of the parts by `main()` and `update_parts`:
`get_input`, `run` and `put` for part after part on the main thread, while each
threaded part calls `update()` on its own. What a `shared_ptr` points to is kept
(null, the constructor's Image of a reader, the message of a publisher, the output of
camera c), and which picture is in each Image. The frame a web camera has published
shares the buffer of its next capture or not: `shares`. Where C++ reads or writes an Image in several steps `update()` is
split: following the pointer, testing for empty, using it; reading or capturing
a picture, assigning it. `ended` records how the process ended: `exit(1)`, an
exception, or a use of a null, freed, emptied or half-written Image. `conf`, the
parts and their surroundings (directory, model file), is chosen in `Init` from
`Configs`. `Memory` is atomic here, as `LockedMap` shows it to be.

**`LineFollower`** - `run` and `update` of an unthreaded line follower and all
that `get_i_color` and `diagnostic_display` compute. A mask is the set of its
white pixels; `morph_close` and `morph_open` are OpenCV's operations with the
3x3 rectangle the code passes; `max_loc` is the first maximum.

**`Timing`** - a thread in `Event::wait(mutex, timeout_ms)` and the loop with
`Vehicle::throttle`, against a clock that counts nanoseconds. Sums and products are
taken modulo `UINT64` as the code computes them, and the conversion of a `double`
that is out of range of `int` gives `INT_MIN`.

**`Mutex`** - the recursive mutex. **`LockedMap`** - the methods of the map, with
the `Lock` each has as a local variable, in the steps another thread could see if
the lock let it. **`AtomicMap`** - the abstract specification: a plain map whose
calls take effect at one moment between call and return. The refinement mapping
hides entries that `m_data[key]` has made and `= value` has not assigned yet.

**`MCManagedThread`, `MCVehicle`, `MCPipeline`, `MCLineFollower`, `MCTiming`,
`MCLockedMap`** - the instances for TLC.

**`ManagedThreadProofs`, `ManagedThreadRefinement`, `ManagedThreadContract`,
`VehicleProofs`, `PipelineProofs`, `LockedMapProofs`, `TimingProofs`,
`LineFollowerProofs`** - the proofs (section 5).

Names of definitions are the source's where there is one. Definitions marked
"Mutant" are wrong variants of the definition that follows: they record, for
every property, a plausible bug of the code that would break it, and no
specification uses them.

## 3. The runs

| Run | Instance | Result |
|---|---|---|
| `contract` | 2 callers in the documented order, Debug, fairness | `NoCrash`, `LockIsReleased`, `ExitStopsTask` hold; no deadlock |
| `liberties_debug` | 3 callers, every liberty, any order of calls until destruction, Debug | type invariant, `PausedMeansQuiet`, `RequestsHaveOwner`, `NobodySleepsThrough`, `AtMostOneWaiter`, `ExitIsFinal` hold; implements `WorkPermit` |
| `self_exit` | `should_exit()` overridden | `LockIsReleased` violated: the thread and a caller wait for each other |
| `vehicle_sigint` | 4 parts, 3 threaded, SIGINT (up to 3) in the loop, Debug, fairness | `NoCrash`, `JoinedBeforeDestroyed`, `ResumeReturns`, `SigintEndsProgram` hold; no deadlock |
| `vehicle_any_time_release` | 3 parts, 2 threaded, SIGINT (up to 3) in every phase until the loop ends, NDEBUG | types, `LoopMeansRunning`, `StopLeavesNoThread` hold |
| `vehicle_early_sigint` | SIGINT before `start_blocking` | `SigintEndsProgram` violated: the signal is lost |
| `pipeline` | 3 parts of `main()` in every order, every choice of threads, odd directories, models and cameras, fairness | types, `NoNullInput`, `RacesNeedThreads`, `EmptyNeedsBadFile`, `ReadersAreCurrent`, `InputSettles`, `NumericOrder`, `EveryPictureIsShown` hold |
| `pipeline_threads` | the parts of `main()` in its order, some threaded | `SharingIsSafe` violated: a reader's thread uses an Image that `run()` frees |
| `pipeline_throttle` | a web camera, a consumer and a publisher, unthreaded | `ThrottledFramesAreHidden` violated: a throttled capture is written into the published frame |
| `locked_map` | 2 threads, 2 keys, 2 values, fairness | types, `LocksBalance`, `NoDanglingEntry`, `MutexIsReleased` hold; implements `AtomicMap`; no deadlock |
| `timing` | a second of 6 ticks, a millisecond of 2, fairness | `DeadlineIsExact`, `NoEarlyTimeout`, `WaitReturns`, `NoOversleep`, `FrequencyIsKept` hold |
| `line_follower` | every mask of 4 rows and up to 2 columns, flawed blocks in 5 | `NoSpecks`, `SolidBlocksSurvive`, `NothingInvented`, `FilterIsStable`, `DrawnLineIsWhole` hold |

The violations are statements of the repository's documentation that the code
does not keep; `PROJECT.json` quotes them under "findings". Besides, the doc of
`request_pause` ("Non-blocking call to pause a managed thread",
`include/managed-task-status.h:43-46`) describes a request, while the method is a
query; that of `join` ("Shutdown the thread, if joinable",
`include/managed-thread.h:46`) describes a shutdown, while the method only waits,
with the lock that `graceful_exit` needs: a `join` without an earlier
`graceful_exit` never returns. And a `graceful_exit` that overtakes another
caller's `suspend` or `resume` makes the assert at `managed-task-status.cpp:20` or
`:38` fail (with NDEBUG: the exit request is overwritten and the caller may wait
for ever); both behaviours are in the runs with liberties.

Other instances of the same modules show what the table leaves out; each is one
change of a cfg:

* `resume`, or `suspend` of an object constructed as running, before `start`
  (`Env = {"any_order"}`): `LockIsReleased` fails, the caller waits for ever for a thread
  that `start`, which needs the same lock, cannot make;
* `start` after `join` (`Env = {"restart"}`): `m_state` still is REQUEST_EXIT and the
  assert at `managed-task-status.cpp:38` fails;
* the handshake with asserts compiled away (`NDEBUG = TRUE`): `PausedMeansQuiet` and
  `RequestsHaveOwner` hold, as the theorems say, the others do not;
* SIGINT while the parts are started (`Phases = {"starting"}`): with NDEBUG, parts are
  destroyed while their threads run, or `start_blocking` waits for ever in the
  `resume` that the handler interrupted;
* a second SIGINT, on a part's thread, while the first is handled
  (`Phases = {"running", "handling"}`): that thread waits for the handler that waits to
  join it.

And what reading the code for the other modules showed:

* `centerline_x` is the leftmost of the best columns (`DrawnLineIsWhole`, proved):
  `cv::minMaxLoc` returns the first maximum, so for a line several columns wide it is the
  left edge and not "the line center" of `line-follower.cpp:53`, and the error shown is off
  by half the width;
* `total_pixels`, "total pixels in line", is the count of the best column; with
  `MIN_DETECTION_THRESHOLD` = `SCAN_HEIGHT` = 20 only a column without any gap is a line;
  `TARGET_PIXEL` is not used, and the error is shown also when no line was found;
* `ImageListCamera` increments its index first: the first picture shown is the
  second file, when there are two;
* `KerasPilot::predict` copies the bytes of an image into a tensor of floats, and so
  fills a quarter of it with values that are no intensities;
* `Event::trigger_all` signals one waiter; that it suffices is a theorem (section 5).

The runs with liberties do not check for deadlock: with them the program really
can stop for ever, and a crashed process stops. `line_follower` stops after
`MaxRuns` frames. Several of the hazards in `PROJECT.json`
do go wrong; those name no property but say so in a note.

`ReadersAreCurrent` says for a web camera what the code gives: while the published frame
shares the buffer of the capture, readers behind the camera see the capture of this turn,
throttled or not. Where the buffer is not shared and the capture is not published they
see an older one, as the comment at `web-camera.cpp:32-33` announces;
`pipeline_throttle` shows that the comment does not hold of the first case.

**Bounds.** Callers: two callers give every race between a supervisor and
another one; a third one covers a caller that waits for the lock while two
others race, and the theorems hold for any number. The managed object has no
counters, so the state space is finite without further bounds. Vehicle: three or
four parts with an unthreaded one between threaded ones make every loop over
`m_parts` skip, enter and leave; three signals allow a handler on the main
thread and one on each of the two part threads. `N`, `MaxSignals` are the bounds.
Symmetry under permutation of callers is used in the runs without liveness.
Pipeline: three parts give a producer before, between and behind its readers, two
producers of one topic and two readers; `Scenes` = 2 pictures tell a new web camera
frame from the last one, `MaxFiles` = 4 files hold a broken one, a foreign one and two
whose names sort otherwise than their numbers. Timing: `NS_PER_SECOND` = 6,
`NS_PER_MS` = 2, `UINT64` = 12, `INT` = 8 keep the relations of 10^9, 10^6, 2^64 and 2^31
that matter (two seconds fit, a period fits an int, an overrun need not); waits and turns
begin until `Horizon` and the clock stops at `MaxNow`, beyond every deadline; the theorems
hold for all values. LineFollower: every mask for the `Widths`, and blocks in frames of five
columns, wider than the kernel, `MaxRuns` = 1 because a frame's answer does not depend on earlier ones
(`FrameInv`, proved). LockedMap: two threads, keys and values are enough for every race
of two calls; the theorems hold for any number. Objects of a map of pointers are handed
over once, which bounds the inserts.

**Fairness.** Weak fairness of each thread's steps: a thread that can run is
eventually scheduled, mutexes are eventually granted when they stay free, and
`update()` returns. No fairness of time-outs, so the liveness results do not rest
on them; none of calls, signals, or the condition that `should_exit()` tests.
For `LockIsReleased` under weak fairness a mutex that is free again and again
could be denied to one thread for ever; in the contract run the callers' calls
are not forced, and the result does hold. Pipeline: steps of the main thread and of
each part's thread; which frames a web camera delivers is not forced. Timing: the clock
goes on, and a wait or sleep whose time is over returns. LockedMap: a thread in a call
goes on when it can; nobody has to call.

## 4. Not modelled

* Memory order: `m_should_exit` is a `std::atomic` with sequential consistency,
  `m_state` is accessed under `m_mutex` only. `m_running` is a plain `bool` that a
  handler writes; the loop that reads it contains calls the compiler cannot see
  through, so each turn reads it again. Races on Images are modelled by their outcome
  (torn, freed, emptied), not by values.
* SIGINT after `start_blocking` has returned (the handler then uses a vehicle
  under destruction), and handlers that interrupt the library's own internals
  (`printf`, `emplace_back`), which is undefined.
* The untimed `Event::wait` (used by a test only); `Mutex::try_lock`, copies and moves of
  `Lock` (used by nothing).
* `Camera::update` of the base class, a placeholder that sleeps; both cameras
  override it.
* What OpenCV and TensorFlow Lite compute, beyond the operations named in
  `LineFollower`; colours and positions of what is drawn; the banner of `main()`.
* Build scripts, the MQTT library (the publisher does not use it yet).

## 5. What is proved

### The managed thread

For every set of callers, every set of liberties, "any_order" included, and (first three)
both builds:

| Theorem | Statement |
|---|---|
| `TypeCorrect` | `Spec => []TypeOK` |
| `PausedThreadIsQuiet` | `Spec => []PausedMeansQuiet` |
| `RequestOwnership` | `Spec => []RequestsHaveOwner` |
| `NoLostWakeup` (Debug) | `Spec => []NobodySleepsThrough` |
| `SignalSuffices` (Debug) | `Spec => []AtMostOneWaiter` |
| `ExitRequestStays` (Debug) | `Spec => ExitIsFinal` |
| `KeepsWorkPermit` (Debug) | `Spec => ImplementsWorkPermit` |

Assumptions: `ThreadAssumption` (the managed thread is none of the callers, `None`
is no thread, `Env` consists of the liberties the model knows), and `~NDEBUG` in
the theorems about the Debug build.

*Both builds.* The invariant is `SafeInv`. `RequestsHaveOwner` is not inductive:
one has to know that a caller in a wait loop holds `m_mutex_pause_resume`
(`LockInv`), so that no second caller can enter, and that while it waits the state
machine stays on the edge it put it on (`RequestInv`): only `wait_to_run` moves
it, forward. `PausedMeansQuiet` needs that the only step into PAUSED is the managed
thread's own, in `wait_to_run`.

*Debug build.* `DebugInv` adds that a thread asked to resume was paused and that
one that waits in `wait_to_run` is told nothing but to resume or exit (`QuietInv`),
and `NobodySleepsThrough`. Everybody asleep waits on the same edge, and the two ends
of an edge are one lock owner and the managed thread: hence at most one sleeper
(`OneWaiter`), hence a signal wakes everybody (`TriggerClears`), which is what
makes `NobodySleepsThrough` inductive although `trigger_all` is a signal. The
asserts are needed: with NDEBUG an exit request can be overwritten, and the
properties fail.

*The contract* (`ManagedThreadContract`). `CarefulCallersAreSafe` says which liberties
are harmless, for any number of callers: with `Careful`, `Spec => []NoCrash`.
`Careful` excludes "double_start", "destroy_running" and "any_order" in both builds, and "override",
"racing_exit" and "restart" in the one with asserts; "early_join" is left. TLC finds a
crash with each excluded liberty alone, in the build it is excluded for, so nothing is
excluded without need. The invariants say what the order of the calls
guarantees: before start and after join there is no thread (`LifeInv`, whatever the
callers do), start is pending only once and without a thread (`StartInv`), the
destructor is the only call and finds no thread (`DestroyInv`), and a started thread
has not been asked to exit (`OrderInv`, for the asserts of `pause_task_blocking` and
`resume_task_blocking`; their first halves hold by `RequestsHaveOwner`).
`JoinedBeforeDestructor` needs the owner's join alone: `Spec => [](~derived => ~joinable)`.

*Refinement.* Each action is a step of `WorkPermit` or a stutter, by the two
invariants; the acknowledgements need `RequestsHaveOwner` to find the caller who
asked.

### The vehicle

For any number of parts, any of them threaded, and any number of SIGINTs:

| Theorem | Assumes | Statement |
|---|---|---|
| `VehicleTypes` | | `Spec => []TypeOK` |
| `StopIsComplete` | | `Spec => []StopLeavesNoThread` |
| `LoopRuns` | | `Spec => []LoopMeansRunning` |
| `StartAssertHolds` | | `Spec => []StartAssert` |
| `DestroysJoinedParts` | `Orderly` | `Spec => []JoinedBeforeDestroyed` |
| `PoliteSigintIsSafe` | `Polite` | `Spec => []NoCrash` |

Assumption: `VehicleAssumption` (`Threaded` are parts, `Phases` are phases the model
knows). The first four hold in both builds and for SIGINT in every phase (section 2).
`StartAssert` is the assert of `ManagedThread::start`: the action `start_part` has
it as a guard, and the theorem shows that the guard hides nothing.
`Orderly` is the Debug build, or no SIGINT while the parts are started: section 3 says
what happens otherwise. `Polite`: SIGINT comes in the loop and on the main thread, or
also before `start_blocking` when there are no asserts.

`VehicleInv` says where the loops over `m_parts` of `main()` and of each handler
are (`PlaceInv`); that frames in a method which keeps the lock of one part are of one
thread (`LockInv`: the mutex is recursive, so two frames of the main thread may be);
that parts have no thread before their start, and a thread in a handler does not
end (`LifeInv`); that the handler on the main thread leaves joined what it has passed
(`HandlerInv`); and what `m_running` means (`RunInv`): no `stop()` has begun,
parts before the one being started are running. `StopLeavesNoThread` follows
from `HandlerInv` at the end of `m_parts`, `LoopMeansRunning` from `RunInv`. For the others this is not enough.
`OrderlyInv` follows a `stop()` that interrupts `start_blocking`: the main thread goes
on starting parts that are told to exit, and in the Debug build the assert of `resume`
ends the process before such a part could be left behind. `CalmInv` adds that handlers
are on the main thread only and that nobody resumes what was told to exit.

### The data flow

For any number of parts in any order, any topics, any choice of threads, any directory:

| Theorem | Statement |
|---|---|
| `PipelineTypes` | `Spec => []TypeOK` |
| `InputsAreSet` | `Spec => []NoNullInput` |
| `UnthreadedFramesAreSafe` | `Spec => []RacesNeedThreads` |
| `EmptyFramesExplained` | `Spec => []EmptyNeedsBadFile` |
| `ReadersKeepUp` | `Spec => []ReadersAreCurrent` |
| `InputsSettle` | `Spec => InputSettles` |
| `FilesInOrder` | `Spec => NumericOrder` |

Assumption: `PipelineAssumption` (there is a part, and each member of `Configs` is a
wiring of parts, a directory and a model). The invariant is `PipelineInv`:

* `StartInv`, `FilesInv`: nothing is updated before the loop; files are sorted and
  the index of a list camera is one of theirs, which gives `NumericOrder`;
* `DataInv`, `InputInv`: a topic holds the output of one of its producers, and
  holds one as soon as one of them has had its turn; hence a reader behind a
  producer is never given a null pointer, and one with a single producer is
  always given the same Image (`InputKept`, which gives `InputSettles`);
* `StepInv`: a part without a thread is inside `update()` only while `main()` waits for
  it in `run()`, so two of them never are; only a web camera's frame shares a buffer;
* `HeldInv`: what a reader tests is what it uses, unless `run()` has given it another
  Image in between, which needs a thread and a second producer or the constructor's Image;
* `FrameInv`: a frame that passed the test stays a picture, or is about to be replaced
  by one, if no file is unreadable (`Lasting`); without threads it just stays;
* `SeenInv`, `TurnInv`, `ShareInv`: what a reader that had its turn has seen is what its
  camera's output holds; after the camera's turn that is the file it has gone on to, and
  while a web camera's buffer is shared it is the last capture. The three give
  `ReadersAreCurrent`.

`MainFacts` and `UpdateCases` describe the steps of `main()` and of `update()` pointwise;
one lemma per conjunct shows that they preserve it.

### The map

| Theorem | Statement |
|---|---|
| `MapTypeCorrect` | `Spec => []TypeOK` |
| `NeverLeftLocked` | `Spec => []LocksBalance` |
| `NeverDangling` | `Spec => []NoDanglingEntry` |
| `IsThreadSafe` | `Spec => ImplementsAtomicMap` |

Assumption: `MapAssumption` (`NoValue` and `Default` are told apart from threads, keys and
values, the keys are finitely many). The invariant `SafeInv` says who owns the mutex
from where its call is (`LockInv`), that only a thread about to assign leaves an
unassigned entry (`DataInv`), what a thread knows of its call (`CallInv`), and that an
object is not deleted while an `insert` is about to put it (`HeapInv`). Since `at`,
`size`, `empty` and `clear` own the mutex they meet no unassigned entry
(`VisibleIsAll`), and so answer as the abstract map does. `NeverDangling` depends on
the callers handing each object over once: `Begin` says so.

### Time

| Theorem | Statement |
|---|---|
| `DeadlinesAreExact` | `Spec => []DeadlineIsExact` |
| `NoWaitEndsEarly` | `Spec => []NoEarlyTimeout` |
| `NeverOversleeps` | `Spec => []NoOversleep` |
| `KeepsFrequency` | `Spec => FrequencyIsKept` |

Assumption: `TimingAssumption`: time-outs in nanoseconds and two seconds fit `UINT64`,
the period is a whole number of nanoseconds that fits `INT`. `DeadlineValue` is the
arithmetic of `Event::wait` (no sum wraps, what is carried is kept, `DivMod`, `Fits`);
`SleepValue` that of `throttle` (rounding towards zero loses less than a millisecond,
and a duration so long that the conversion overflows asks for no sleep). The invariant
`TimingInv` adds to the properties what the loop knows of `then` and `wake`
(`SleepInv`).

### The line

| Theorem | Statement |
|---|---|
| `SpecksAreRemoved` | `Spec => []NoSpecks` |
| `LinesSurvive` | `Spec => []SolidBlocksSurvive` |
| `NoLineFromNothing` | `Spec => []NothingInvented` |
| `OncePerFilter` | `Spec => []FilterIsStable` |
| `DrawnLinesAreWhole` | `Spec => []DrawnLineIsWhole` |

For frames of any size. Assumption: `LineFollowerAssumption`, with the threshold equal to
the height of the scan region as in the code. The filters' lemmas (`CloseExtends`,
`CloseIdempotent`, `OpenShrinks`, `OpenIsBlocks`, `FilterTwice`, ...) use of the kernel
only that a window contains its centre and is symmetric (`WindowFacts`). The last
theorem counts columns with the cardinality theorems, and `MaxLoc` shows that the
maximum exists. `FrameInv`: found and display belong to the frame that is the input.

### Only model-checked

The liveness properties: `LockIsReleased`, `ExitStopsTask`, `ResumeReturns`,
`SigintEndsProgram`, `EveryPictureIsShown`, `MutexIsReleased`, `WaitReturns`. They rest on
fairness and ENABLED, which the prover does not support. Every safety property of a
passing run is a theorem, under the assumptions named above.

## 6. Plan

1. Done: all components named in section 1, each with its runs; a theorem for every safety
   property of a passing run.
2. Proofs: the abstract steps of `WorkPermit` and `AtomicMap` that other modules take
   for granted (what a caller may conclude from the abstract specification alone);
   the deadlock-freedom of the contract as an invariant, which needs no fairness.
3. Instances: four parts in `Pipeline`, wider masks in `LineFollower`.
