------------------------------ MODULE Seconds -------------------------------
(***************************************************************************)
(* The seconds that ep:wait (src/epoll.c) and ev:as_timer (src/timer.c)    *)
(* take are Lua numbers; epoll_wait takes an int of milliseconds, and      *)
(* timerfd_settime a number of seconds and one of nanoseconds.             *)
(*                                                                         *)
(* A number of seconds is t / Tick, an exact rational: the rounding of     *)
(* floating-point arithmetic is left out.                                  *)
(***************************************************************************)
EXTENDS Integers

CONSTANTS
    Tick,       \* fractions of a second that the application uses
    Milli,      \* 1000
    Nano,       \* 1000000000
    IntMax      \* INT_MAX

ASSUME SecondsAssumption ==
    /\ {Tick, Milli, Nano, IntMax} \subseteq Nat \ {0}
    /\ Milli <= IntMax

\* From here on the timeout is INT_MAX: so many whole seconds are INT_MAX
\* milliseconds, or nearly.
Saturation == (IntMax \div Milli) * Tick

\* Fault: the int overflows.
MsecWraps(t) ==
    IF t < 0
    THEN -1
    ELSE (((t * Milli) \div Tick + IntMax + 1) % (2 * IntMax + 2)) - IntMax - 1

\* -1 is for ever.
Msec(t) ==
    IF t < 0 THEN -1
    ELSE IF t >= Saturation THEN IntMax
    ELSE (t * Milli) \div Tick

\* it_interval and it_value.
Interval(t) ==
    [sec |-> t \div Tick, nsec |-> ((t % Tick) * Nano) \div Tick]

\* A timer that is set to zero does not run.
Runs(t) == Interval(t) # [sec |-> 0, nsec |-> 0]

=============================================================================
