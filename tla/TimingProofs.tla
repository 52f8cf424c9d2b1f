---------------------------- MODULE TimingProofs ----------------------------
(***************************************************************************)
(* The properties of Timing for every length of a second and a             *)
(* millisecond, every frequency and all widths: in particular for those of *)
(* the code.                                                               *)
(***************************************************************************)
EXTENDS Timing, TLAPS

-----------------------------------------------------------------------------
(***************************************************************************)
(* Arithmetic.                                                             *)
(***************************************************************************)

\* Quotient and remainder make up the number again.
LEMMA DivMod ==
    ASSUME NEW a \in Nat, NEW n \in Nat \ {0}
    PROVE  /\ a \div n \in Nat
           /\ a % n \in 0..(n - 1)
           /\ a = n * (a \div n) + (a % n)
  OBVIOUS

\* A number that fits into its width is not changed by it.
LEMMA Fits ==
    ASSUME NEW n \in Nat, NEW a \in 0..(n - 1)
    PROVE  a % n = a
  OBVIOUS

\* A step of the nonlinear arithmetic the solver needs help with.
LEMMA Distributes ==
    ASSUME NEW n \in Nat, NEW a \in Nat, NEW b \in Nat, NEW c \in Nat
    PROVE  (a + b + c) * n = n * a + n * b + n * c
  OBVIOUS

\* Rounding towards zero loses less than a unit, and nothing positive comes
\* from less than one.
LEMMA TruncatedBounds ==
    ASSUME NEW d \in Int, NEW n \in Nat \ {0}
    PROVE  /\ Truncated(d, n) \in Int
           /\ Truncated(d, n) > 0 => /\ Truncated(d, n) * n <= d
                                     /\ Truncated(d, n) * n > d - n
           /\ Truncated(d, n) <= 0 => d < n
  <1>1. CASE d >= 0
    <2>a. d \in Nat
      BY <1>1
    <2>1. /\ d \div n \in Nat
          /\ d % n \in 0..(n - 1)
          /\ d = n * (d \div n) + (d % n)
      BY <2>a, DivMod
    <2>2. Truncated(d, n) = d \div n
      BY <1>1 DEF Truncated
    <2>3. (d \div n) * n = n * (d \div n)
      BY <2>1
    <2>4. d \div n <= 0 => n * (d \div n) = 0
      BY <2>1
    <2> QED
      BY <2>1, <2>2, <2>3, <2>4
  <1>2. CASE d < 0
    <2>1. (-d) \div n \in Nat
      BY <1>2, DivMod
    <2>2. Truncated(d, n) = -((-d) \div n)
      BY <1>2 DEF Truncated
    <2> QED
      BY <1>2, <2>1, <2>2
  <1> QED
    BY <1>1, <1>2

-----------------------------------------------------------------------------
(***************************************************************************)
(* Event::wait computes the time of the call plus timeout_ms, normalised,  *)
(* for every time and every timeout_ms whose nanoseconds fit into a        *)
(* uint64_t.                                                               *)
(***************************************************************************)
LEMMA DeadlineValue ==
    ASSUME now \in Nat, NEW ms \in Timeouts
    PROVE  LET d == plus(get_monotonic_clock_time, ms_to_timespec(ms))
           IN  /\ d \in Timespec
               /\ Valid(d)
               /\ Instant(d) = now + ms * NS_PER_MS
  <1> DEFINE n  == NS_PER_SECOND
             w  == ms * NS_PER_MS
             ns == (now % n) + (w % n)
             d  == plus(get_monotonic_clock_time, ms_to_timespec(ms))
  <1>1. /\ n \in Nat \ {0} /\ ms \in Nat
        /\ UINT64 \in Nat /\ 2 * n <= UINT64
        /\ w \in Nat /\ w \in 0..(UINT64 - 1)
    BY TimingAssumption
  <1> HIDE DEF n, w
  <1>2. /\ now \div n \in Nat
        /\ now % n \in 0..(n - 1)
        /\ now = n * (now \div n) + (now % n)
    BY <1>1, DivMod
  <1>3. /\ w \div n \in Nat
        /\ w % n \in 0..(n - 1)
        /\ w = n * (w \div n) + (w % n)
    BY <1>1, DivMod
  <1>4. ns \in 0..(UINT64 - 1)
    BY <1>1, <1>2, <1>3
  <1>n. ns \in Nat
    BY <1>2, <1>3
  <1> HIDE DEF ns
  <1>5. /\ ns \div n \in Nat
        /\ ns % n \in 0..(n - 1)
        /\ ns = n * (ns \div n) + (ns % n)
    BY <1>1, <1>n, DivMod
  <1>6. w % UINT64 = w /\ ns % UINT64 = ns
    BY <1>1, <1>4, Fits
  <1>7. ms_to_timespec(ms) = [tv_sec |-> w \div n, tv_nsec |-> w % n]
    BY <1>6 DEF ms_to_timespec, n, w
  <1>8. d = [tv_sec  |-> (now \div n) + (w \div n) + (ns \div n),
             tv_nsec |-> ns % n]
    BY <1>6, <1>7 DEF plus, get_monotonic_clock_time, n, ns
  <1> HIDE DEF d
  <1>9. Instant(d) = now + w
    <2>1. Instant(d) = ((now \div n) + (w \div n) + (ns \div n)) * n + (ns % n)
      BY <1>8 DEF Instant, n
    <2>2. ((now \div n) + (w \div n) + (ns \div n)) * n
            = n * (now \div n) + n * (w \div n) + n * (ns \div n)
      BY <1>1, <1>2, <1>3, <1>5, Distributes
    <2>3. /\ n * (now \div n) \in Nat /\ n * (w \div n) \in Nat
          /\ n * (ns \div n) \in Nat
      BY <1>1, <1>2, <1>3, <1>5
    <2>4. ns = (now % n) + (w % n)
      BY DEF ns
    <2> QED
      BY <1>2, <1>3, <1>5, <2>1, <2>2, <2>3, <2>4
  <1>10. d \in Timespec /\ Valid(d)
    <2>1. (now \div n) + (w \div n) + (ns \div n) \in Nat
      BY <1>2, <1>3, <1>5
    <2>2. ns % n \in 0..(UINT64 - 1) /\ ns % n < n
      BY <1>1, <1>5
    <2> QED
      BY <1>8, <2>1, <2>2 DEF Timespec, Valid, n
  <1> QED
    BY <1>9, <1>10 DEF d, w

(***************************************************************************)
(* Vehicle::throttle: a sleep ends with the period or less than a          *)
(* millisecond before, and there is none only when less than a millisecond *)
(* is left, also where the conversion to int overflows.                    *)
(***************************************************************************)
LEMMA SleepValue ==
    ASSUME NEW duration \in Nat
    PROVE  LET ms == sleepy_time_ms(duration)
           IN  /\ ms \in Int
               /\ period_ns \in Nat
               /\ ms > 0 => /\ ms * NS_PER_MS <= period_ns - duration
                            /\ ms * NS_PER_MS > period_ns - duration - NS_PER_MS
               /\ ms <= 0 => period_ns - duration < NS_PER_MS
  <1> DEFINE x == period_ns - duration
             t == Truncated(to_int(x), NS_PER_MS)
  <1>1. NS_PER_MS \in Nat \ {0} /\ INT \in Nat
    BY TimingAssumption
  <1>2. period_ns \in Nat
    BY TimingAssumption, DivMod DEF period_ns
  <1>3. x \in Int
    BY <1>2
  <1>4. to_int(x) \in Int /\ (to_int(x) = x \/ (x < to_int(x) /\ to_int(x) <= 0))
    BY <1>1, <1>3 DEF to_int
  <1>5. /\ t \in Int
        /\ t > 0 => t * NS_PER_MS <= to_int(x) /\ t * NS_PER_MS > to_int(x) - NS_PER_MS
        /\ t <= 0 => to_int(x) < NS_PER_MS
    BY <1>1, <1>4, TruncatedBounds
  <1>6. t > 0 => t * NS_PER_MS > 0
    BY <1>1, <1>5
  <1>7. t * NS_PER_MS \in Int
    BY <1>1, <1>5
  <1>8. /\ t > 0 => t * NS_PER_MS <= x /\ t * NS_PER_MS > x - NS_PER_MS
        /\ t <= 0 => x < NS_PER_MS
    <2> HIDE DEF x, t
    <2> QED
      BY <1>1, <1>3, <1>4, <1>5, <1>6, <1>7
  <1> QED
    BY <1>2, <1>5, <1>8 DEF sleepy_time_ms

-----------------------------------------------------------------------------
(***************************************************************************)
(* The inductive invariant.  A sleep is also not too short, and the clock  *)
(* never runs backwards.                                                   *)
(***************************************************************************)
SleepInv ==
    /\ loop # "top" => then <= now
    /\ loop = "sleeping" => wake > then + period_ns - NS_PER_MS

TimingInv ==
    TypeOK /\ DeadlineIsExact /\ NoEarlyTimeout /\ NoOversleep /\ SleepInv

\* The units and the period are positive numbers.
LEMMA ConstantTypes ==
    /\ NS_PER_SECOND \in Nat \ {0} /\ NS_PER_MS \in Nat \ {0}
    /\ UINT64 \in Nat \ {0} /\ Timeouts \subseteq Nat
    /\ period_ns \in Nat
  BY TimingAssumption, DivMod DEF period_ns

\* The invariant holds at the start.
LEMMA InvInit == Init => TimingInv
  BY ConstantTypes DEF Init, TimingInv, TypeOK, DeadlineIsExact,
     NoEarlyTimeout, NoOversleep, SleepInv, Timespec

\* Every step keeps the invariant.
LEMMA InvNext == TimingInv /\ [Next]_vars => TimingInv'
  <1> SUFFICES ASSUME TimingInv, [Next]_vars
               PROVE  TimingInv'
    OBVIOUS
  <1> USE ConstantTypes
  <1>t. TypeOK /\ DeadlineIsExact /\ NoEarlyTimeout /\ NoOversleep /\ SleepInv
    BY DEF TimingInv
  <1>p. period_ns' = period_ns
    BY DEF period_ns
  <1>1. CASE Tick
    <2>1. now' = now + 1 /\ UNCHANGED <<waitVars, loopVars>>
      BY <1>1 DEF Tick
    <2>2. TypeOK'
      BY <1>t, <2>1 DEF TypeOK, waitVars, loopVars
    <2>3. DeadlineIsExact' /\ NoOversleep' /\ SleepInv'
      BY <1>t, <1>p, <2>1 DEF TypeOK, waitVars, loopVars, DeadlineIsExact, Valid,
         Instant, NoOversleep, SleepInv
    <2>4. wait_ms * NS_PER_MS \in Nat
      BY <1>t DEF TypeOK
    <2>5. NoEarlyTimeout'
      BY <1>t, <2>1, <2>4 DEF TypeOK, waitVars, NoEarlyTimeout
    <2> QED
      BY <2>2, <2>3, <2>5 DEF TimingInv
  <1>2. ASSUME NEW ms \in Timeouts, wait(ms)
        PROVE  TimingInv'
    <2> DEFINE d == plus(get_monotonic_clock_time, ms_to_timespec(ms))
    <2>1. d \in Timespec /\ Valid(d) /\ Instant(d) = now + ms * NS_PER_MS
      BY <1>t, DeadlineValue DEF TypeOK
    <2>2. /\ timeout' = d /\ waiter' = "waiting"
          /\ begun' = now /\ wait_ms' = ms /\ UNCHANGED <<now, loopVars>>
      BY <1>2, <2>1 DEF wait
    <2> HIDE DEF d
    <2>3. TypeOK'
      BY <1>t, <2>1, <2>2 DEF TypeOK, loopVars
    <2>4. DeadlineIsExact' /\ NoEarlyTimeout'
      BY <2>1, <2>2 DEF DeadlineIsExact, NoEarlyTimeout, Valid, Instant
    <2>5. NoOversleep' /\ SleepInv'
      BY <1>t, <1>p, <2>2 DEF NoOversleep, SleepInv, loopVars
    <2> QED
      BY <2>3, <2>4, <2>5 DEF TimingInv
  <1>3. CASE wait_returns_true
    BY <1>t, <1>p, <1>3 DEF wait_returns_true, TimingInv, TypeOK, DeadlineIsExact,
       NoEarlyTimeout, NoOversleep, SleepInv, loopVars
  <1>4. CASE wait_returns_false
    <2>1. /\ waiter = "waiting" /\ now >= Instant(timeout) /\ waiter' = "timeout"
          /\ UNCHANGED <<now, begun, wait_ms, timeout, loop, then, wake>>
      BY <1>4 DEF wait_returns_false, loopVars
    <2>2. NoEarlyTimeout'
      BY <1>t, <2>1 DEF DeadlineIsExact, NoEarlyTimeout
    <2> QED
      BY <1>t, <1>p, <2>1, <2>2 DEF TimingInv, TypeOK, DeadlineIsExact, NoOversleep,
         SleepInv
  <1>5. CASE update_parts
    BY <1>t, <1>p, <1>5 DEF update_parts, TimingInv, TypeOK, DeadlineIsExact, Valid,
       Instant, NoEarlyTimeout, NoOversleep, SleepInv, waitVars
  <1>6. CASE throttle
    <2> DEFINE ms == sleepy_time_ms(now - then)
    <2>1. now - then \in Nat
      BY <1>t, <1>6 DEF throttle, SleepInv, TypeOK
    <2>2. /\ ms \in Int
          /\ ms > 0 => /\ ms * NS_PER_MS <= period_ns - (now - then)
                       /\ ms * NS_PER_MS > period_ns - (now - then) - NS_PER_MS
      BY <2>1, SleepValue
    <2>3. ms * NS_PER_MS \in Int /\ (ms > 0 => ms * NS_PER_MS \in Nat)
      BY <2>2
    <2>4. /\ UNCHANGED <<now, then, waiter, begun, wait_ms, timeout>>
          /\ \/ ms > 0 /\ loop' = "sleeping" /\ wake' = now + ms * NS_PER_MS
             \/ loop' = "top" /\ wake' = wake
      BY <1>6 DEF throttle, waitVars
    <2> HIDE DEF ms
    <2>5. TypeOK'
      BY <1>t, <2>3, <2>4 DEF TypeOK
    <2>6. NoOversleep' /\ SleepInv'
      BY <1>t, <1>p, <2>1, <2>2, <2>3, <2>4 DEF TypeOK, NoOversleep, SleepInv
    <2>7. DeadlineIsExact' /\ NoEarlyTimeout'
      BY <1>t, <2>4 DEF DeadlineIsExact, NoEarlyTimeout, Valid, Instant
    <2> QED
      BY <2>5, <2>6, <2>7 DEF TimingInv
  <1>7. CASE sleep_for_returns
    BY <1>t, <1>p, <1>7 DEF sleep_for_returns, TimingInv, TypeOK, DeadlineIsExact,
       Valid, Instant, NoEarlyTimeout, NoOversleep, SleepInv, waitVars
  <1>8. CASE UNCHANGED vars
    BY <1>t, <1>p, <1>8 DEF vars, waitVars, loopVars, TimingInv, TypeOK,
       DeadlineIsExact, Valid, Instant, NoEarlyTimeout, NoOversleep, SleepInv
  <1> QED
    BY <1>1, <1>2, <1>3, <1>4, <1>5, <1>6, <1>7, <1>8 DEF Next, Terminated

(***************************************************************************)
(* The invariant holds throughout.                                         *)
(***************************************************************************)
THEOREM TimingInvariant == Spec => []TimingInv
  BY InvInit, InvNext, PTL DEF Spec

(***************************************************************************)
(* Timing is type correct: the deadline's fields stay in their widths.     *)
(***************************************************************************)
THEOREM TimingTypeCorrect == Spec => []TypeOK
  <1>1. TimingInv => TypeOK
    BY DEF TimingInv
  <1> QED
    BY <1>1, TimingInvariant, PTL

(***************************************************************************)
(* Every deadline handed to pthread_cond_timedwait is exact and accepted.  *)
(***************************************************************************)
THEOREM DeadlinesAreExact == Spec => []DeadlineIsExact
  <1>1. TimingInv => DeadlineIsExact
    BY DEF TimingInv
  <1> QED
    BY <1>1, TimingInvariant, PTL

(***************************************************************************)
(* No timed wait says that its time is over before it is.                  *)
(***************************************************************************)
THEOREM NoWaitEndsEarly == Spec => []NoEarlyTimeout
  <1>1. TimingInv => NoEarlyTimeout
    BY DEF TimingInv
  <1> QED
    BY <1>1, TimingInvariant, PTL

(***************************************************************************)
(* The loop never sleeps past its period.                                  *)
(***************************************************************************)
THEOREM NeverOversleeps == Spec => []NoOversleep
  <1>1. TimingInv => NoOversleep
    BY DEF TimingInv
  <1> QED
    BY <1>1, TimingInvariant, PTL

(***************************************************************************)
(* No turn of the loop is short of its period by a millisecond.            *)
(***************************************************************************)
THEOREM KeepsFrequency == Spec => FrequencyIsKept
  <1> DEFINE A == loop # "top" /\ loop' = "top" => now - then > period_ns - NS_PER_MS
  <1>1. TimingInv /\ [Next]_vars => [A]_vars
    <2> SUFFICES ASSUME TimingInv, Next, loop # "top", loop' = "top"
                 PROVE  now - then > period_ns - NS_PER_MS
      OBVIOUS
    <2>1. TypeOK /\ SleepInv
      BY DEF TimingInv
    <2>2. throttle \/ sleep_for_returns
      BY DEF Next, Tick, wait, wait_returns_true, wait_returns_false, update_parts,
         Terminated, vars, loopVars
    <2>3. CASE throttle
      <3>1. now - then \in Nat
        BY <2>1, <2>3 DEF TypeOK, SleepInv, throttle
      <3>2. sleepy_time_ms(now - then) <= 0
        BY <2>3 DEF throttle
      <3> QED
        BY <3>1, <3>2, SleepValue, ConstantTypes
    <2>4. CASE sleep_for_returns
      BY <2>1, <2>4, ConstantTypes DEF TypeOK, SleepInv, sleep_for_returns
    <2> QED
      BY <2>2, <2>3, <2>4
  <1> QED
    BY <1>1, TimingInvariant, PTL DEF Spec, FrequencyIsKept
=============================================================================
