--------------------------- MODULE SecondsProofs ----------------------------
(***************************************************************************)
(* The conversions of Seconds, for every resolution of the numbers and     *)
(* every width of the int.                                                 *)
(***************************************************************************)
EXTENDS Seconds, TLAPS

\* Division of naturals: the quotient is the only one that fits.
LEMMA Division ==
    ASSUME NEW a \in Nat, NEW b \in Nat \ {0}
    PROVE  /\ a \div b \in Nat /\ a % b \in 0 .. b - 1
           /\ a = b * (a \div b) + (a % b)
OBVIOUS

\* A quotient is at most q if the dividend is at most q divisors and a bit.
LEMMA Quotient ==
    ASSUME NEW a \in Nat, NEW b \in Nat \ {0}, NEW q \in Int
    PROVE  /\ q * b <= a => q <= a \div b
           /\ a < (q + 1) * b => a \div b <= q
<1> DEFINE d == a \div b
           m == a % b
<1>1. d \in Nat /\ m \in 0 .. b - 1 /\ a = b * d + m
  BY Division
<1> HIDE DEF d, m
<1>2. ASSUME q * b <= a, d < q  PROVE FALSE
  <2>1. d + 1 <= q
    BY <1>1, <1>2
  <2>2. (d + 1) * b <= q * b
    BY <1>1, <2>1
  <2>3. (d + 1) * b = b * d + b
    BY <1>1
  <2> QED
    BY <1>1, <1>2, <2>2, <2>3
<1>3. ASSUME a < (q + 1) * b, q < d  PROVE FALSE
  <2>1. (q + 1) * b <= d * b
    BY <1>1, <1>3
  <2> QED
    BY <1>1, <1>3, <2>1
<1> QED
  BY <1>1, <1>2, <1>3 DEF d

\* ep:wait (epoll.c:153-156): a timeout is for ever exactly if it is negative,
\* and is an int of milliseconds otherwise: the multiplication never overflows.
THEOREM MsecInRange ==
    ASSUME NEW t \in Int
    PROVE  IF t < 0 THEN Msec(t) = -1 ELSE Msec(t) \in 0 .. IntMax
<1>1. CASE t < 0
  BY <1>1 DEF Msec
<1>2. CASE t >= Saturation
  BY <1>2, SecondsAssumption DEF Msec, Saturation
<1>3. CASE t >= 0 /\ t < Saturation
  <2> DEFINE s == IntMax \div Milli
  <2>1. Tick \in Nat \ {0} /\ Milli \in Nat \ {0} /\ IntMax \in Nat \ {0}
    BY SecondsAssumption
  <2>2. s \in Nat /\ Milli * s <= IntMax
    BY <2>1, Division
  <2>3. t \in Nat /\ t < s * Tick
    BY <1>3 DEF Saturation
  <2> HIDE DEF s
  <2>4. t * Milli \in Nat /\ t * Milli <= (s * Tick) * Milli
    BY <2>1, <2>2, <2>3
  <2>5. (s * Tick) * Milli = (Milli * s) * Tick
    BY <2>1, <2>2
  <2>6. (Milli * s) * Tick <= IntMax * Tick
    BY <2>1, <2>2
  <2>7. IntMax * Tick < (IntMax + 1) * Tick
    BY <2>1
  <2>8. t * Milli < (IntMax + 1) * Tick
    BY <2>1, <2>2, <2>4, <2>5, <2>6, <2>7
  <2> DEFINE a == t * Milli
  <2>9. a \in Nat /\ a < (IntMax + 1) * Tick
    BY <2>4, <2>8
  <2> HIDE DEF a
  <2>10. a \div Tick \in Nat /\ a \div Tick <= IntMax
    BY <2>1, <2>9, Division, Quotient
  <2> QED
    BY <1>3, <2>1, <2>2, <2>10 DEF Msec, Saturation, a, s
<1> QED
  BY <1>1, <1>2, <1>3, SecondsAssumption DEF Saturation

\* Below the saturation a wait is not longer than asked for, and less than a
\* millisecond shorter.
THEOREM MsecRoundsDown ==
    ASSUME NEW t \in Nat, t < Saturation
    PROVE  /\ Msec(t) * Tick <= t * Milli
           /\ t * Milli < (Msec(t) + 1) * Tick
<1>1. Tick \in Nat \ {0} /\ t * Milli \in Nat
  BY SecondsAssumption
<1>2. Msec(t) = (t * Milli) \div Tick
  <2>1. IntMax \div Milli \in Nat
    BY SecondsAssumption
  <2>2. Saturation \in Int
    BY <1>1, <2>1 DEF Saturation
  <2> QED
    BY <2>2 DEF Msec
<1> DEFINE a == t * Milli
           d == a \div Tick
           m == a % Tick
<1>3. a \in Nat /\ d \in Nat /\ m \in 0 .. Tick - 1 /\ a = Tick * d + m
  BY <1>1, Division
<1> HIDE DEF d, m, a
<1>4. d * Tick <= a /\ a < (d + 1) * Tick
  BY <1>1, <1>3
<1> QED
  BY <1>2, <1>4 DEF d, a

\* ev:as_timer (timer.c:143-151): the nanoseconds are always less than a
\* second, so timerfd_settime does not refuse them.
THEOREM IntervalInRange ==
    ASSUME NEW t \in Nat
    PROVE  Interval(t).sec \in Nat /\ Interval(t).nsec \in 0 .. Nano - 1
<1>1. Tick \in Nat \ {0} /\ Nano \in Nat \ {0}
  BY SecondsAssumption
<1> DEFINE m == t % Tick
<1>2. t \div Tick \in Nat /\ m \in 0 .. Tick - 1
  BY <1>1, Division
<1> HIDE DEF m
<1>3. m * Nano \in Nat /\ m * Nano < ((Nano - 1) + 1) * Tick
  <2>1. m * Nano <= (Tick - 1) * Nano
    BY <1>1, <1>2
  <2>2. (Tick - 1) * Nano = Nano * Tick - Nano
    BY <1>1
  <2> QED
    BY <1>1, <1>2, <2>1, <2>2
<1> DEFINE a == m * Nano
<1>4. a \in Nat /\ a < ((Nano - 1) + 1) * Tick
  BY <1>3
<1> HIDE DEF a
<1>5. a \div Tick \in Nat /\ a \div Tick <= Nano - 1
  <2>1. Nano - 1 \in Int
    BY <1>1
  <2> QED
    BY <1>1, <1>4, <2>1, Division, Quotient
<1> QED
  BY <1>1, <1>2, <1>5 DEF Interval, m, a

\* An interval is set to zero, which disarms the timer for good, exactly if it
\* is shorter than a nanosecond.
THEOREM RunsFromOneNanosecond ==
    ASSUME NEW t \in Nat
    PROVE  Runs(t) <=> Tick <= t * Nano
<1>1. Tick \in Nat \ {0} /\ Nano \in Nat \ {0} /\ t * Nano \in Nat
  BY SecondsAssumption
<1> DEFINE s == t \div Tick
           m == t % Tick
<1>2. s \in Nat /\ m \in 0 .. Tick - 1 /\ t = Tick * s + m
  BY <1>1, Division
<1>3. Runs(t) <=> s # 0 \/ (m * Nano) \div Tick # 0
  BY DEF Runs, Interval
<1> HIDE DEF s, m
<1>4. CASE s = 0
  <2>1. t = m /\ m * Nano \in Nat
    BY <1>1, <1>2, <1>4
  <2>2. Tick <= m * Nano => 1 <= (m * Nano) \div Tick
    BY <1>1, <2>1, Quotient
  <2>3. m * Nano < Tick => (m * Nano) \div Tick <= 0
    BY <1>1, <2>1, Quotient
  <2>4. (m * Nano) \div Tick \in Nat
    BY <1>1, <2>1, Division
  <2> QED
    BY <1>1, <1>3, <1>4, <2>1, <2>2, <2>3, <2>4
<1>5. CASE s # 0
  <2>1. Tick <= Tick * s
    BY <1>1, <1>2, <1>5
  <2>2. Tick <= t
    BY <1>1, <1>2, <2>1
  <2>3. t <= t * Nano
    BY <1>1
  <2> QED
    BY <1>1, <1>3, <1>5, <2>2, <2>3
<1> QED
  BY <1>4, <1>5

=============================================================================
