------------------------------- MODULE Timing -------------------------------
(***************************************************************************)
(* What the code computes with time: the deadline of Event::wait(mutex,    *)
(* timeout_ms), which a thread computes and then waits for, and            *)
(* Vehicle::throttle, by which the loop of start_blocking sleeps until its *)
(* period is over.  Both read the monotonic clock, `now' here, counted in  *)
(* nanoseconds.                                                            *)
(*                                                                         *)
(* The constants stand for 10^9, 10^6, 10.0, 2^64 and 2^31; TLC checks     *)
(* smaller ones with the same relations.                                   *)
(***************************************************************************)
EXTENDS Integers

CONSTANTS NS_PER_SECOND, NS_PER_MS,
          m_fps,
          UINT64,    \* uint64_t is 0..(UINT64 - 1)
          INT,       \* int is -INT..(INT - 1)
          Timeouts,  \* the values callers pass for timeout_ms
          Horizon,   \* bound: waits and turns of the loop begin up to then
          MaxNow     \* bound: the clock stops there

ASSUME TimingAssumption ==
    /\ NS_PER_SECOND \in Nat \ {0}
    /\ NS_PER_MS \in Nat \ {0}
    /\ UINT64 \in Nat /\ 2 * NS_PER_SECOND <= UINT64
    /\ Timeouts \subseteq Nat
    /\ \A ms \in Timeouts : ms * NS_PER_MS < UINT64
    /\ m_fps \in Nat \ {0} /\ NS_PER_SECOND % m_fps = 0
    /\ INT \in Nat /\ NS_PER_SECOND \div m_fps < INT
    /\ Horizon \in Nat
    /\ MaxNow \in Nat

VARIABLES now,
          waiter,    \* the thread in Event::wait: "idle", "waiting" or the
                     \* result, "signalled" or "timeout"
          begun,     \* when it called wait,
          wait_ms,   \* for how long
          timeout,   \* and the timespec it computed
          loop,      \* the vehicle's loop: "top", "updating" or "sleeping"
          then,      \* when this turn began
          wake       \* when the sleep it asked for is over

waitVars == <<waiter, begun, wait_ms, timeout>>
loopVars == <<loop, then, wake>>
vars == <<now, waitVars, loopVars>>

Timespec == [tv_sec : Nat, tv_nsec : 0..(UINT64 - 1)]

\* Type correctness.
TypeOK ==
    /\ now \in Nat
    /\ waiter \in {"idle", "waiting", "signalled", "timeout"}
    /\ begun \in Nat
    /\ wait_ms \in Timeouts \cup {0}
    /\ timeout \in Timespec
    /\ loop \in {"top", "updating", "sleeping"}
    /\ then \in Nat
    /\ wake \in Nat

Init ==
    /\ now \in 0..(NS_PER_SECOND - 1)
    /\ waiter = "idle" /\ begun = 0 /\ wait_ms = 0
    /\ timeout = [tv_sec |-> 0, tv_nsec |-> 0]
    /\ loop = "top" /\ then = 0 /\ wake = 0

\* Time passes.
Tick ==
    /\ now < MaxNow
    /\ now' = now + 1
    /\ UNCHANGED <<waitVars, loopVars>>

-----------------------------------------------------------------------------
(***************************************************************************)
(* The deadline of a timed wait.                                           *)
(***************************************************************************)
get_monotonic_clock_time ==
    [tv_sec |-> now \div NS_PER_SECOND, tv_nsec |-> now % NS_PER_SECOND]

\* Mutant: the argument is taken for seconds.
ms_to_timespec_seconds(milliseconds) ==
    [tv_sec |-> milliseconds * NS_PER_SECOND, tv_nsec |-> 0]

ms_to_timespec(milliseconds) ==
    LET ns == (milliseconds * NS_PER_MS) % UINT64
    IN  [tv_sec |-> ns \div NS_PER_SECOND, tv_nsec |-> ns % NS_PER_SECOND]

\* Mutant: nanoseconds are not carried.
plus_no_carry(lhs, rhs) ==
    [tv_sec  |-> lhs.tv_sec + rhs.tv_sec,
     tv_nsec |-> (lhs.tv_nsec + rhs.tv_nsec) % UINT64]

\* Mutant: exactly one second is not carried into tv_sec.
plus_carry_above(lhs, rhs) ==
    LET ns == (lhs.tv_nsec + rhs.tv_nsec) % UINT64
    IN  [tv_sec  |-> lhs.tv_sec + rhs.tv_sec
                       + (IF ns > NS_PER_SECOND THEN 1 ELSE 0),
         tv_nsec |-> ns % NS_PER_SECOND]

\* operator+ of timespec.
plus(lhs, rhs) ==
    LET ns == (lhs.tv_nsec + rhs.tv_nsec) % UINT64
    IN  [tv_sec  |-> lhs.tv_sec + rhs.tv_sec + ns \div NS_PER_SECOND,
         tv_nsec |-> ns % NS_PER_SECOND]

\* What pthread_cond_timedwait makes of a timespec: it fails with EINVAL
\* unless the nanoseconds are less than a second.
Valid(ts) == ts.tv_nsec < NS_PER_SECOND
Instant(ts) == ts.tv_sec * NS_PER_SECOND + ts.tv_nsec

\* Event::wait is called: the deadline is computed, and the thread blocks.
wait(ms) ==
    /\ waiter # "waiting" /\ now <= Horizon
    /\ LET deadline == plus(get_monotonic_clock_time, ms_to_timespec(ms))
       IN  /\ timeout' = deadline
           /\ waiter' = IF Valid(deadline) THEN "waiting" ELSE "timeout"
    /\ begun' = now
    /\ wait_ms' = ms
    /\ UNCHANGED <<now, loopVars>>

\* It returns true: a signal, or a spurious wake-up.
wait_returns_true ==
    /\ waiter = "waiting"
    /\ waiter' = "signalled"
    /\ UNCHANGED <<now, begun, wait_ms, timeout, loopVars>>

\* It returns false: ETIMEDOUT.
wait_returns_false ==
    /\ waiter = "waiting"
    /\ now >= Instant(timeout)
    /\ waiter' = "timeout"
    /\ UNCHANGED <<now, begun, wait_ms, timeout, loopVars>>

-----------------------------------------------------------------------------
(***************************************************************************)
(* Vehicle::throttle.                                                      *)
(***************************************************************************)
period_ns == NS_PER_SECOND \div m_fps

\* C++ divides towards zero.
Truncated(a, b) == IF a >= 0 THEN a \div b ELSE -((-a) \div b)

\* Mutant: the difference wraps around, as an integer conversion would.
to_int_wraps(x) == ((x + INT) % (2 * INT)) - INT

\* (int) of a double, undefined outside of int.  Here x <= period_ns < INT,
\* so it can only be too small, and x86 and ARM both give INT_MIN.
to_int(x) == IF x >= -INT THEN x ELSE -INT

\* Mutant: half of the rest of the period.
sleepy_time_ms_half(duration) ==
    Truncated(to_int(period_ns - duration), 2 * NS_PER_MS)

sleepy_time_ms(duration) ==
    Truncated(to_int(period_ns - duration), NS_PER_MS)

\* The top of the loop; update_parts begins.
update_parts ==
    /\ loop = "top" /\ now <= Horizon
    /\ loop' = "updating"
    /\ then' = now
    /\ UNCHANGED <<now, wake, waitVars>>

throttle ==
    /\ loop = "updating"
    /\ LET ms == sleepy_time_ms(now - then) IN
        \/ /\ ms > 0
           /\ loop' = "sleeping"
           /\ wake' = now + ms * NS_PER_MS
        \/ /\ ms <= 0
           /\ loop' = "top"
           /\ UNCHANGED wake
    /\ UNCHANGED <<now, then, waitVars>>

\* sleep_for returns, not before its time.
sleep_for_returns ==
    /\ loop = "sleeping" /\ now >= wake
    /\ loop' = "top"
    /\ UNCHANGED <<now, then, wake, waitVars>>

\* The clock has come to its bound.
Terminated == now = MaxNow /\ UNCHANGED vars

Next ==
    \/ Tick
    \/ \E ms \in Timeouts : wait(ms)
    \/ wait_returns_true \/ wait_returns_false
    \/ update_parts \/ throttle \/ sleep_for_returns
    \/ Terminated

Spec == Init /\ [][Next]_vars

\* The clock goes on, and a wait whose time is over returns.
FairSpec == Spec /\ WF_vars(Tick) /\ WF_vars(wait_returns_false)
                 /\ WF_vars(sleep_for_returns)

-----------------------------------------------------------------------------
(***************************************************************************)
(* The deadline that is handed to pthread_cond_timedwait is the time of    *)
(* the call plus timeout_ms, whatever is carried, and normalised.          *)
(***************************************************************************)
DeadlineIsExact ==
    waiter = "waiting" =>
        Valid(timeout) /\ Instant(timeout) = begun + wait_ms * NS_PER_MS

(***************************************************************************)
(* Event::wait says "timed out" only when timeout_ms have passed: no       *)
(* deadline is refused or in the past, which would make the wait loops of  *)
(* ManagedTaskStatus spin.                                                 *)
(***************************************************************************)
NoEarlyTimeout ==
    waiter = "timeout" => now >= begun + wait_ms * NS_PER_MS

(***************************************************************************)
(* A timed wait returns even when nobody triggers the event.               *)
(***************************************************************************)
WaitReturns == waiter = "waiting" ~> waiter # "waiting"

(***************************************************************************)
(* The loop never sleeps past the end of its period, and so not at all     *)
(* after a turn that overran it, by however much.                          *)
(***************************************************************************)
NoOversleep == loop = "sleeping" => wake <= then + period_ns

(***************************************************************************)
(* "a loop operating at a given frequency": no turn is shorter than the    *)
(* period by a whole millisecond.                                          *)
(***************************************************************************)
FrequencyIsKept ==
    [][loop # "top" /\ loop' = "top" => now - then > period_ns - NS_PER_MS]_vars
=============================================================================
