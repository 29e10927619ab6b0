--------------------------- MODULE FirmwareProofs ---------------------------
(***************************************************************************)
(* The USB firmware.  For a tick counter of any width, alarms are called   *)
(* on time and no wait ends early; for any number of addresses and any     *)
(* number of changes on the wire, the host keeps its state in step.        *)
(***************************************************************************)
EXTENDS FirmwareClock, UsbHost, TLAPS

-----------------------------------------------------------------------------
(* The clock.                                                              *)

Ticks == 0 .. 2^W - 1

(* A remainder of a number below twice the modulus.                        *)
LEMMA ModSmall ==
    ASSUME NEW M \in Nat, M > 0, NEW x \in Nat, x < M + M
    PROVE  x % M = IF x < M THEN x ELSE x - M
<1>1. CASE x < M
  BY <1>1
<1>2. CASE x >= M
  BY <1>2
<1> QED
  BY <1>1, <1>2

(* A number is a multiple of the divisor and the remainder.                *)
LEMMA Remainder ==
    ASSUME NEW M \in Nat, M > 0, NEW x \in Nat
    PROVE  \E q \in Nat, s \in 0 .. M - 1 : x = M * q + s /\ x % M = s
<1>1. x - M * (x \div M) \in 0 .. M - 1 /\ x \div M \in Nat
  OBVIOUS
<1>2. \A q \in Nat : x - M * q \in 0 .. M - 1 =>
         \E s \in 0 .. M - 1 : x = M * q + s
  <2> TAKE q \in Nat
  <2>1. M * q \in Int
    OBVIOUS
  <2> QED
    BY <2>1
<1>3. PICK q \in Nat, s \in 0 .. M - 1 : x = M * q + s
  BY <1>1, <1>2
<1>4. x % M = s
  BY <1>3
<1> QED
  BY <1>3, <1>4

(* A smaller number is a smaller multiple.                                 *)
LEMMA Multiples ==
    ASSUME NEW M \in Nat, NEW a \in Nat, NEW b \in Nat, a < b
    PROVE  M * a + M <= M * b
<1>1. \A d \in Nat : M * (a + 1 + d) = M * a + M + M * d /\ M * d \in Nat /\ M * a \in Nat
  OBVIOUS
<1>2. b - a - 1 \in Nat /\ b = a + 1 + (b - a - 1)
  OBVIOUS
<1>3. PICK d \in Nat : b = a + 1 + d
  BY <1>2
<1> QED
  BY <1>1, <1>3

(* A remainder grows by no more than the number does.                      *)
LEMMA ModGrows ==
    ASSUME NEW M \in Nat, M > 0, NEW x \in Nat, NEW k \in Nat
    PROVE  (x + k) % M <= (x % M) + k
<1>1. PICK q \in Nat, s \in 0 .. M - 1 : x = M * q + s /\ x % M = s
  BY Remainder
<1>2. x + k \in Nat
  OBVIOUS
<1>3. PICK r \in Nat, t \in 0 .. M - 1 : x + k = M * r + t /\ (x + k) % M = t
  BY <1>2, Remainder
<1>4. M * q \in Nat /\ M * r \in Nat
  OBVIOUS
<1>5. M * q + s + k = M * r + t
  BY <1>1, <1>3
<1>6. t <= s + k
  <2>1. CASE r < q
    <3>1. M * r + M <= M * q
      BY <2>1, Multiples
    <3> QED
      BY <3>1, <1>4, <1>5
  <2>2. CASE q < r
    <3>1. M * q + M <= M * r
      BY <2>2, Multiples
    <3> QED
      BY <3>1, <1>4, <1>5
  <2>3. CASE q = r
    BY <2>3, <1>4, <1>5
  <2> QED
    BY <2>1, <2>2, <2>3
<1> QED
  BY <1>1, <1>3, <1>6

(* A quotient grows by one at most when the number grows by the divisor.   *)
LEMMA DivGrows ==
    ASSUME NEW R \in Nat, R > 0, NEW x \in Nat, NEW y \in Nat, y <= x + R
    PROVE  y \div R <= (x \div R) + 1
  OBVIOUS

-----------------------------------------------------------------------------
(* The clock that the waits read.                                          *)

LEMMA NextTickIs ==
    ASSUME NEW t \in Ticks
    PROVE  NextTick(t) = IF t + 1 < 2^W THEN t + 1 ELSE 0
<1> DEFINE M == 2^W
<1>1. t + 1 \in Nat /\ t + 1 < M + M /\ M \in Nat /\ M > 0 /\ t < M
  BY TimerAssumption DEF Ticks
<1>2. NextTick(t) = (t + 1) % M
  BY DEF NextTick
<1> HIDE DEF M
<1>3. \A x \in Nat : x < M + M => x % M = IF x < M THEN x ELSE x - M
  BY <1>1, ModSmall
<1>4. t \in Nat
  BY TimerAssumption DEF Ticks
<1>5. NextTick(t) = IF t + 1 < M THEN t + 1 ELSE 0
  BY <1>1, <1>2, <1>3, <1>4
<1> QED
  BY <1>5 DEF M

(* The quotient is far from the width of the counter.                      *)
LEMMA NowBounded ==
    ASSUME NEW t \in Ticks
    PROVE  Now(t) \in Nat /\ Now(t) <= (2^W - 1) \div Rate /\ (2^W - 1) \div Rate \in Nat
<1>1. 2^W \in Nat /\ 2^W > 0 /\ Rate \in Nat /\ Rate > 0 /\ t * Mult \in Nat
  BY TimerAssumption DEF Ticks
<1>2. (t * Mult) % 2^W \in 0 .. 2^W - 1
  BY <1>1
<1>3. \A R \in Nat : \A x \in Nat : \A y \in Nat :
         R > 0 /\ x <= y => x \div R \in Nat /\ y \div R \in Nat /\ x \div R <= y \div R
  OBVIOUS
<1>4. 2^W - 1 \in Nat /\ (t * Mult) % 2^W \in Nat /\ (t * Mult) % 2^W <= 2^W - 1
  BY <1>1, <1>2
<1> QED
  BY <1>1, <1>3, <1>4 DEF Now

(* A tick advances the quotient by one at most, or takes it back.          *)
LEMMA NowStep ==
    ASSUME NEW t \in Ticks
    PROVE  Now(NextTick(t)) <= Now(t) + 1
<1>1. /\ 2^W \in Nat /\ 2^W > 0 /\ Rate \in Nat /\ Rate > 0 /\ Mult \in Nat /\ Mult <= Rate
      /\ t \in Nat /\ t * Mult \in Nat
  BY TimerAssumption DEF Ticks
<1>2. CASE t + 1 < 2^W
  <2>1. NextTick(t) = t + 1
    BY <1>2, NextTickIs
  <2>2. \A m \in Nat : \A n \in Nat : (n + 1) * m = n * m + m
    OBVIOUS
  <2>3. (t + 1) * Mult = t * Mult + Mult
    BY <1>1, <2>2
  <2>4. (t * Mult + Mult) % 2^W <= ((t * Mult) % 2^W) + Mult
    BY <1>1, ModGrows
  <2>5. (t * Mult + Mult) % 2^W \in Nat /\ (t * Mult) % 2^W \in Nat
    <3>1. t * Mult + Mult \in Nat
      BY <1>1
    <3> QED
      BY <1>1, <3>1
  <2>6. (t * Mult + Mult) % 2^W <= ((t * Mult) % 2^W) + Rate
    BY <1>1, <2>4, <2>5
  <2>7. ((t * Mult + Mult) % 2^W) \div Rate <= (((t * Mult) % 2^W) \div Rate) + 1
    BY <1>1, <2>5, <2>6, DivGrows
  <2> QED
    BY <2>1, <2>3, <2>7 DEF Now
<1>3. CASE ~ (t + 1 < 2^W)
  <2>1. NextTick(t) = 0
    BY <1>3, NextTickIs
  <2>2. 0 * Mult = 0 /\ 0 % 2^W = 0 /\ 0 \div Rate = 0
    BY <1>1
  <2>3. Now(0) = 0
    BY <2>2 DEF Now
  <2> QED
    BY <2>1, <2>3, NowBounded
<1> QED
  BY <1>2, <1>3

-----------------------------------------------------------------------------
(* While a wait lasts, the clock has not gained on the ticks.              *)
Behind(wait, length) ==
    waiting = wait /\ elapsed <= XferTimeout => Now(nticks) + length <= deadline + elapsed

WaitInv ==
    /\ TimerTypeOK
    /\ Behind("settle", Settle) /\ Behind("xfer", XferTimeout)
    /\ over # "no" => waiting = "no"
    /\ NeverEarly

LEMMA WaitInit == TimerInit => WaitInv
  BY TimerAssumption DEF TimerInit, WaitInv, TimerTypeOK, Behind, NeverEarly

(* The deadline of a wait does not wrap.                                   *)
LEMMA Deadline ==
    ASSUME NEW t \in Ticks, NEW k \in Nat, k <= XferTimeout
    PROVE  (Now(t) + k) % 2^W = Now(t) + k /\ Now(t) + k \in 0 .. 2^W - 1
<1>1. 2^W \in Nat /\ XferTimeout \in Nat /\ (2^W - 1) \div Rate + XferTimeout < 2^W
  BY TimerAssumption
<1>2. Now(t) + k \in Nat /\ Now(t) + k < 2^W
  BY <1>1, NowBounded
<1> QED
  BY <1>1, <1>2

LEMMA WaitBegins ==
    ASSUME WaitInv, BeginSettle \/ BeginTransfer
    PROVE  WaitInv'
<1> USE TimerAssumption
<1>1. nticks \in Ticks
  BY DEF WaitInv, TimerTypeOK, Ticks
<1>2. Now(nticks) \in Nat
  BY <1>1, NowBounded
<1>3. CASE BeginSettle
  <2>1. deadline' = Now(nticks) + Settle /\ deadline' \in 0 .. 2^W - 1
    BY <1>1, <1>3, Deadline DEF BeginSettle
  <2>2. Behind("settle", Settle)' /\ Behind("xfer", XferTimeout)'
    BY <1>2, <1>3, <2>1 DEF BeginSettle, Behind, Now
  <2> QED
    BY <1>3, <2>1, <2>2 DEF BeginSettle, WaitInv, TimerTypeOK, NeverEarly
<1>4. CASE BeginTransfer
  <2>1. deadline' = Now(nticks) + XferTimeout /\ deadline' \in 0 .. 2^W - 1
    BY <1>1, <1>4, Deadline DEF BeginTransfer
  <2>2. Behind("settle", Settle)' /\ Behind("xfer", XferTimeout)'
    BY <1>2, <1>4, <2>1 DEF BeginTransfer, Behind, Now
  <2> QED
    BY <1>4, <2>1, <2>2 DEF BeginTransfer, WaitInv, TimerTypeOK, NeverEarly
<1> QED
  BY <1>3, <1>4

LEMMA WaitDone ==
    ASSUME WaitInv, TransferDone
    PROVE  WaitInv'
  BY DEF TransferDone, WaitInv, TimerTypeOK, Behind, NeverEarly, Now

LEMMA WaitTick ==
    ASSUME WaitInv, Millisecond
    PROVE  WaitInv'
<1> USE TimerAssumption
<1> DEFINE t == NextTick(nticks)
<1>1. nticks \in Ticks /\ deadline \in Nat /\ elapsed \in 0 .. XferTimeout + 1
  BY DEF WaitInv, TimerTypeOK, Ticks
<1>2. t \in Ticks
  BY <1>1, NextTickIs DEF Ticks
<1>3. Now(nticks) \in Nat /\ Now(t) \in Nat /\ Now(t) <= Now(nticks) + 1
  BY <1>1, <1>2, NowBounded, NowStep
<1>4. nticks' = t /\ deadline' = deadline
  BY DEF Millisecond
<1>5. Now(nticks)' = Now(t)
  BY <1>4 DEF Now
<1> HIDE DEF t
<1>6. waiting' = waiting => over' = over
  BY DEF Millisecond, WaitInv, TimerTypeOK
<1>7. waiting # "no" => elapsed' = IF elapsed > XferTimeout THEN elapsed ELSE elapsed + 1
  BY DEF Millisecond
<1>8. waiting' = "no" \/ waiting' = waiting
  BY DEF Millisecond
<1>9. TimerTypeOK'
  BY <1>1, <1>2, <1>4 DEF Millisecond, WaitInv, TimerTypeOK, Ticks
<1>10. Behind("settle", Settle)' /\ Behind("xfer", XferTimeout)'
  BY <1>1, <1>3, <1>4, <1>5, <1>7, <1>8 DEF Behind, WaitInv
<1>11. (over # "no" => waiting = "no")'
  BY <1>8 DEF Millisecond, WaitInv
<1>12. NeverEarly'
  <2>1. CASE waiting = "settle" /\ SettleOver(t)
    <3>1. over' = "settle"
      BY <2>1, <1>4 DEF Millisecond, t
    <3>2. Now(t) > deadline
      BY <2>1 DEF SettleOver
    <3>3. elapsed' > Settle
      BY <1>1, <1>3, <1>7, <2>1, <3>2 DEF Behind, WaitInv
    <3> QED
      BY <3>1, <3>3 DEF NeverEarly
  <2>2. CASE waiting = "xfer" /\ TimedOut(t)
    <3>1. over' = "xfer"
      BY <2>2, <1>4 DEF Millisecond, t
    <3>2. Now(t) >= deadline
      BY <2>2, <1>1, <1>3 DEF TimedOut
    <3>3. elapsed' >= XferTimeout
      BY <1>1, <1>3, <1>7, <2>2, <3>2 DEF Behind, WaitInv
    <3> QED
      BY <3>1, <3>3 DEF NeverEarly
  <2>3. CASE ~ (waiting = "settle" /\ SettleOver(t)) /\ ~ (waiting = "xfer" /\ TimedOut(t))
    <3>1. over' = over /\ waiting' = waiting
      BY <2>3 DEF Millisecond, t
    <3>2. over # "no" => elapsed' = elapsed
      BY DEF Millisecond, WaitInv
    <3> QED
      BY <3>1, <3>2 DEF NeverEarly, WaitInv
  <2> QED
    BY <2>1, <2>2, <2>3
<1> QED
  BY <1>9, <1>10, <1>11, <1>12 DEF WaitInv

LEMMA WaitStep == WaitInv /\ [ClockNext]_clockVars => WaitInv'
<1> SUFFICES ASSUME WaitInv, [ClockNext]_clockVars PROVE WaitInv'
  OBVIOUS
<1>1. CASE BeginSettle \/ BeginTransfer
  BY <1>1, WaitBegins
<1>2. CASE TransferDone
  BY <1>2, WaitDone
<1>3. CASE Tick
  BY <1>3, WaitTick DEF Tick
<1>4. CASE UNCHANGED timerVars
  BY <1>4 DEF timerVars, WaitInv, TimerTypeOK, Behind, NeverEarly, Now
<1> QED
  BY <1>1, <1>2, <1>3, <1>4 DEF ClockNext, StartAlarm, StopAlarm, clockVars

(* No wait of the firmware is cut short, wherever the product of the clock *)
(* wraps (transfer.c:144-163, 276-284).                                    *)
THEOREM WaitsInFull == ClockSpec => []NeverEarly
<1>1. ClockInit => WaitInv
  BY WaitInit DEF ClockInit
<1>2. WaitInv => NeverEarly
  BY DEF WaitInv
<1> QED
  BY <1>1, <1>2, WaitStep, PTL DEF ClockSpec

-----------------------------------------------------------------------------
(* What the fields of a started alarm say of the ticks it has left.        *)
Sum(t, k) == IF t + k < 2^W THEN t + k ELSE t + k - 2^W

AlarmTypes ==
    /\ nticks \in Ticks /\ linked \subseteq Alarms
    /\ time \in [Alarms -> Ticks] /\ rollover \in [Alarms -> BOOLEAN] /\ left \in [Alarms -> Int]

Set(a) ==
    /\ left[a] \in 1 .. 2^W - 1
    /\ time[a] = Sum(nticks, left[a])
    /\ rollover[a] <=> nticks + left[a] >= 2^W

AlarmInv == AlarmTypes /\ \A a \in linked : Set(a)

LEMMA PlusIs ==
    ASSUME NEW t \in Ticks, NEW k \in 0 .. 2^W - 1
    PROVE  Plus(t, k) = Sum(t, k) /\ Plus(t, k) \in Ticks
<1> DEFINE M == 2^W
<1>1. M \in Nat /\ M > 0 /\ t + k \in Nat /\ t + k < M + M /\ t \in Nat /\ k \in Nat
  BY TimerAssumption DEF Ticks
<1>2. Plus(t, k) = (t + k) % M /\ Sum(t, k) = IF t + k < M THEN t + k ELSE t + k - M
  BY DEF Plus, Sum
<1> HIDE DEF M
<1>3. (t + k) % M = IF t + k < M THEN t + k ELSE t + k - M
  BY <1>1, ModSmall
<1>4. Plus(t, k) = Sum(t, k) /\ Plus(t, k) \in 0 .. M - 1
  BY <1>1, <1>2, <1>3
<1> QED
  BY <1>4 DEF M, Ticks

(* The next tick calls an alarm when one tick is left, and then the time   *)
(* of the alarm is that tick.                                              *)
LEMMA ExpiresAtLast ==
    ASSUME AlarmInv, NEW a \in linked
    PROVE  /\ Expired(a, NextTick(nticks)) <=> left[a] = 1
           /\ left[a] = 1 => time[a] = NextTick(nticks)
<1>1. nticks \in Ticks /\ Set(a) /\ 2^W \in Nat /\ 2^W > 1
  BY TimerAssumption DEF AlarmInv, AlarmTypes
<1>2. NextTick(nticks) = IF nticks + 1 < 2^W THEN nticks + 1 ELSE 0
  BY <1>1, NextTickIs
<1> QED
  BY <1>1, <1>2 DEF Set, Sum, Expired, Rollover, Ticks

LEMMA AlarmStarts ==
    ASSUME AlarmInv, NEW a \in Alarms, NEW nt \in Periods, StartAlarm(a, nt)
    PROVE  AlarmInv'
<1> USE TimerAssumption
<1>1. nticks \in Ticks /\ nticks' = nticks /\ nt + 1 \in 1 .. 2^W - 1 /\ nt \in Nat
  BY PeriodAssumption DEF AlarmInv, AlarmTypes, StartAlarm, timerVars
<1>2. Plus(nticks, nt + 1) = Sum(nticks, nt + 1) /\ Plus(nticks, nt + 1) \in Ticks
  BY <1>1, PlusIs
<1>3. (Plus(nticks, nt + 1) < nticks) <=> nticks + (nt + 1) >= 2^W
  BY <1>1, <1>2 DEF Sum, Ticks
<1>4. (Plus(nticks, nt + 1) < nticks) \in BOOLEAN
  OBVIOUS
<1>5. AlarmTypes'
  BY <1>1, <1>2, <1>4 DEF AlarmInv, AlarmTypes, StartAlarm
<1>6. Set(a)'
  BY <1>1, <1>2, <1>3 DEF StartAlarm, AlarmInv, AlarmTypes, Set, Sum
<1>7. \A b \in linked : Set(b)'
  BY <1>1 DEF StartAlarm, AlarmInv, AlarmTypes, Set, Sum
<1> QED
  BY <1>5, <1>6, <1>7 DEF AlarmInv, StartAlarm

LEMMA AlarmStops ==
    ASSUME AlarmInv, NEW a \in Alarms, StopAlarm(a)
    PROVE  AlarmInv'
  BY DEF StopAlarm, timerVars, AlarmInv, AlarmTypes, Set, Sum

LEMMA AlarmTicks ==
    ASSUME AlarmInv, Millisecond,
           NEW answer \in [Alarms -> Periods], AlarmTick(NextTick(nticks), answer)
    PROVE  AlarmInv'
<1> USE TimerAssumption
<1> DEFINE t == NextTick(nticks)
<1> DEFINE called == {a \in linked : Expired(a, t)}
<1> DEFINE again == {a \in called : answer[a] # 0}
<1>1. nticks \in Ticks /\ linked \subseteq Alarms /\ 2^W \in Nat
  BY DEF AlarmInv, AlarmTypes
<1>2. t \in Ticks /\ t = IF nticks + 1 < 2^W THEN nticks + 1 ELSE 0
  BY <1>1, NextTickIs DEF Ticks
<1>3. nticks' = t
  BY DEF Millisecond
<1>4. \A a \in called : a \in linked /\ time[a] = t /\ left[a] = 1 /\ Expired(a, t)
  BY ExpiresAtLast
<1>5. \A a \in linked \ called : left[a] > 1 /\ left[a] \in Nat /\ ~ Expired(a, t)
  <2> TAKE a \in linked \ called
  <2>1. Set(a) /\ ~ Expired(a, t)
    BY DEF AlarmInv
  <2> QED
    BY <2>1, ExpiresAtLast DEF Set
<1>6. \A a \in Alarms : answer[a] \in 0 .. 2^W - 1 /\ answer[a] \in Nat
  <2>1. \A p \in Periods : p \in 0 .. 2^W - 1 /\ p \in Nat
    BY PeriodAssumption
  <2> QED
    BY <2>1
<1>7. \A a \in again : Plus(time[a], answer[a]) = Sum(t, answer[a]) /\ Plus(time[a], answer[a]) \in Ticks
  BY <1>1, <1>2, <1>4, <1>6, PlusIs
<1>8. /\ linked' = linked \ (called \ again)
      /\ time' = [a \in Alarms |-> IF a \in again THEN Plus(time[a], answer[a]) ELSE time[a]]
      /\ rollover' = [a \in Alarms |->
            \/ a \in linked /\ Rollover(a, t)
            \/ a \notin linked /\ rollover[a]
            \/ a \in again /\ Plus(time[a], answer[a]) < t]
      /\ left' = [a \in Alarms |-> IF a \in called THEN answer[a]
                                   ELSE IF a \in linked THEN left[a] - 1 ELSE left[a]]
  BY DEF AlarmTick
<1> HIDE DEF t, called, again
<1>9. called \subseteq linked /\ again \subseteq called /\ \A a \in again : answer[a] # 0
  BY DEF called, again
<1>10. AlarmTypes'
  <2>1. nticks' \in Ticks /\ linked' \subseteq Alarms
    BY <1>1, <1>2, <1>3, <1>8
  <2>2. time' \in [Alarms -> Ticks]
    BY <1>7, <1>8 DEF AlarmInv, AlarmTypes
  <2>3. rollover' \in [Alarms -> BOOLEAN]
    <3>1. \A a \in Alarms : (\/ a \in linked /\ Rollover(a, t)
                             \/ a \notin linked /\ rollover[a]
                             \/ a \in again /\ Plus(time[a], answer[a]) < t) \in BOOLEAN
      OBVIOUS
    <3> QED
      BY <1>8, <3>1
  <2>4. left' \in [Alarms -> Int]
    BY <1>6, <1>8 DEF AlarmInv, AlarmTypes
  <2> QED
    BY <2>1, <2>2, <2>3, <2>4 DEF AlarmTypes
<1>11. \A a \in linked' : Set(a)'
  <2> SUFFICES ASSUME NEW a \in linked' PROVE Set(a)'
    OBVIOUS
  <2>1. a \in linked /\ a \in Alarms
    BY <1>1, <1>8
  <2>2. Set(a)
    BY <2>1 DEF AlarmInv
  <2>3. CASE a \in again
    <3>1. left'[a] = answer[a] /\ answer[a] \in 1 .. 2^W - 1
      BY <1>6, <1>8, <1>9, <2>1, <2>3
    <3>2. time'[a] = Sum(t, answer[a])
      BY <1>7, <1>8, <2>1, <2>3
    <3>3. ~ Rollover(a, t)
      BY <1>4, <1>9, <2>3 DEF Expired
    <3>4. rollover'[a] <=> Plus(time[a], answer[a]) < t
      BY <1>8, <2>1, <2>3, <3>3
    <3>5. rollover'[a] <=> t + answer[a] >= 2^W
      BY <1>2, <1>7, <2>3, <3>1, <3>4 DEF Sum, Ticks
    <3> QED
      BY <1>3, <3>1, <3>2, <3>5 DEF Set, Sum
  <2>4. CASE a \notin again
    <3>1. a \notin called
      BY <1>8, <2>1, <2>4
    <3>2. left[a] > 1 /\ left[a] \in Nat /\ left'[a] = left[a] - 1 /\ time'[a] = time[a]
      BY <1>5, <1>8, <2>1, <2>4, <3>1
    <3>3. rollover'[a] <=> Rollover(a, t)
      BY <1>8, <2>1, <2>4
    <3> QED
      BY <1>1, <1>2, <1>3, <2>2, <3>2, <3>3 DEF Set, Sum, Rollover, Ticks
  <2> QED
    BY <2>3, <2>4
<1> QED
  BY <1>10, <1>11 DEF AlarmInv

LEMMA AlarmStep == AlarmInv /\ [ClockNext]_clockVars => AlarmInv'
<1> SUFFICES ASSUME AlarmInv, [ClockNext]_clockVars PROVE AlarmInv'
  OBVIOUS
<1>1. ASSUME NEW a \in Alarms, NEW nt \in Periods, StartAlarm(a, nt) PROVE AlarmInv'
  BY <1>1, AlarmStarts
<1>2. ASSUME NEW a \in Alarms, StopAlarm(a) PROVE AlarmInv'
  BY <1>2, AlarmStops
<1>3. CASE Tick
  <2>1. PICK answer \in [Alarms -> Periods] : AlarmTick(nticks', answer)
    BY <1>3 DEF Tick
  <2>2. Millisecond /\ nticks' = NextTick(nticks)
    BY <1>3 DEF Tick, Millisecond
  <2>3. AlarmTick(NextTick(nticks), answer)
    BY <2>1, <2>2
  <2> QED
    BY <2>2, <2>3, AlarmTicks
<1>4. CASE (BeginSettle \/ BeginTransfer \/ TransferDone) /\ UNCHANGED alarms
  BY <1>4 DEF BeginSettle, BeginTransfer, TransferDone, alarms, AlarmInv, AlarmTypes, Set, Sum
<1>5. CASE UNCHANGED clockVars
  BY <1>5 DEF clockVars, timerVars, alarms, AlarmInv, AlarmTypes, Set, Sum
<1> QED
  BY <1>1, <1>2, <1>3, <1>4, <1>5 DEF ClockNext

(* Every alarm is called at its tick and at no other, for a counter of any *)
(* width and any set of alarms and periods (alt_tick.c:100-141).           *)
THEOREM AlarmsAreOnTime == ClockSpec => []AlarmsOnTime
<1>1. ClockInit => AlarmInv
  <2>1. ClockInit => nticks \in Ticks /\ 0 \in Ticks
    BY TimerAssumption DEF ClockInit, TimerInit, Ticks
  <2> QED
    BY <2>1 DEF ClockInit, AlarmInv, AlarmTypes
<1>2. AlarmInv => AlarmsOnTime
  BY ExpiresAtLast DEF AlarmsOnTime
<1> QED
  BY <1>1, <1>2, AlarmStep, PTL DEF ClockSpec

-----------------------------------------------------------------------------
(* The host.                                                               *)

State == 0 .. 255

USE DEF INITIALIZE, WAIT_FOR_DEVICE, ILLEGAL, ATTACHED, SETTLE, RESET_DEVICE,
        WAIT_RESET, WAIT_SOF, GET_DESCRIPTOR, ADDRESSING, CONFIGURING, RUNNING,
        ERROR

(* The detached states are those below USB_STATE_ATTACHED.                 *)
LEMMA DetachedStates == \A s \in State : Detached(s) <=> s < 16
  BY DEF Detached, State

(* What the probe of the bus leaves.                                       *)
LEMMA Probed ==
    ASSUME NEW s \in State, dev \in Wire, Levels \subseteq {"none", "se1"}
    PROVE  /\ Busprobe(s) \in {INITIALIZE, WAIT_FOR_DEVICE, ILLEGAL, ATTACHED} \cup {s}
           /\ Busprobe(s) \in {INITIALIZE, WAIT_FOR_DEVICE, ILLEGAL, ATTACHED, WAIT_RESET}
           /\ dev \in Kinds <=> Busprobe(s) >= 16
<1>1. CASE dev \in Kinds
  <2>1. Busprobe(s) = IF s = WAIT_RESET THEN s ELSE ATTACHED
    BY <1>1 DEF Busprobe, Kinds
  <2> QED  BY <1>1, <2>1
<1>2. CASE dev = "se1"
  <2>1. Busprobe(s) = ILLEGAL /\ dev \notin Kinds
    BY <1>2 DEF Busprobe, Kinds
  <2> QED  BY <2>1
<1>3. CASE dev = "none"
  <2>1. Busprobe(s) = IF Detached(s) THEN WAIT_FOR_DEVICE ELSE INITIALIZE
    BY <1>3 DEF Busprobe, Kinds
  <2>2. dev \notin Kinds
    BY <1>3 DEF Kinds
  <2> QED  BY <2>1, <2>2
<1> QED  BY <1>1, <1>2, <1>3 DEF Wire

(* The bus event advances the state by one.                                *)
LEMMA Advanced ==
    ASSUME NEW s \in {INITIALIZE, WAIT_FOR_DEVICE, ILLEGAL, ATTACHED, WAIT_RESET}
    PROVE  Advance(s) = IF busevent THEN s + 1 ELSE s
  BY DEF Advance

-----------------------------------------------------------------------------
(* The inductive invariant, one part for each property.                    *)

(* A bus event that is pending while WAIT_RESET_COMPLETE waits is the end   *)
(* of the reset it waits for.                                              *)
ResetInv ==
    /\ NoTrafficInReset
    /\ usb_task_state = WAIT_RESET /\ rst => ~ busevent

(* What the state may be once the handler has ended a session.             *)
Ended == 1 .. 5 \cup {ATTACHED, SETTLE}

SessionInv ==
    /\ running => phase \notin {"init", "initack"}
    /\ running /\ phase = "irq" => usb_task_state = RUNNING
    /\ running /\ phase \in {"ack", "task"} => usb_task_state \in Ended \cup {RUNNING}
    /\ running /\ phase = "main" => usb_task_state \in Ended \cup {RUNNING, RESET_DEVICE}
    /\ phase = "init" => usb_task_state \in Ended \cup {RESET_DEVICE}

(* The state follows what was probed last.                                 *)
WireInv == phase # "init" => (probed \in Kinds <=> usb_task_state >= 16)

(* Entries are taken in order; the last is that of the device enumerated   *)
(* last, and the one the probe has filled in.                              *)
TableInv ==
    /\ phase = "initack" => usb_task_state \in {INITIALIZE, WAIT_FOR_DEVICE, ILLEGAL, ATTACHED}
    /\ phase \notin {"init", "initack"} => epinfo[0] # "NULL"
    /\ \A i \in InUse : \A j \in Addresses : j < i => j \in InUse
    /\ usb_task_state \in {CONFIGURING, RUNNING} =>
           tmp_addr \in InUse /\ \A j \in InUse : j <= tmp_addr
    /\ usb_task_state = RUNNING => hidAddr = tmp_addr /\ epinfo[tmp_addr] = "hid_ep"
    /\ usb_task_state = RUNNING /\ running => device = devclass[tmp_addr]

IInv == TypeOK /\ ResetInv /\ SessionInv /\ WireInv /\ TableInv

-----------------------------------------------------------------------------

LEMMA Initially == Init => IInv
<1> SUFFICES ASSUME Init PROVE IInv
  OBVIOUS
<1>1. TypeOK
  <2>1. /\ epinfo \in [0 .. NumDevices -> {"NULL", "dev0ep", "hid_ep"}]
        /\ devclass \in [0 .. NumDevices -> {UNINIT, HID_K, HID_M}]
    BY DEF Init
  <2>2. 0 \in 0 .. MaxChanges /\ usb_task_state \in 0 .. 255 /\ changes = 0
    BY HostAssumption DEF Init
  <2>3. phase \in {"init", "initack", "irq", "ack", "task", "main"} /\ probed \in Wire /\ dev \in Wire
    BY DEF Init
  <2> QED  BY <2>1, <2>2, <2>3 DEF Init, TypeOK
<1>2. ResetInv
  BY DEF Init, ResetInv, NoTrafficInReset, Traffic
<1>3. SessionInv /\ WireInv
  BY DEF Init, SessionInv, WireInv, Ended
<1>4. InUse = {}
  BY HostAssumption DEF Init, InUse, Addresses
<1>5. TableInv
  BY <1>4 DEF Init, TableInv
<1> QED  BY <1>1, <1>2, <1>3, <1>5 DEF IInv

(* Every step of USB_Task moves the program on; where to, the state tells.  *)
LEMMA TaskRange ==
    ASSUME USB_Task
    PROVE  /\ phase = "task" /\ phase' = "main" /\ UNCHANGED <<running, device, probed, sendback>>
           /\ \/ usb_task_state' = usb_task_state /\ usb_task_state \notin {INITIALIZE, ATTACHED}
              \/ usb_task_state = INITIALIZE /\ usb_task_state' = WAIT_FOR_DEVICE
              \/ usb_task_state = ATTACHED /\ usb_task_state' = SETTLE
              \/ usb_task_state = SETTLE /\ usb_task_state' = RESET_DEVICE
              \/ usb_task_state = RESET_DEVICE /\ usb_task_state' = WAIT_RESET
              \/ usb_task_state = WAIT_RESET /\ usb_task_state' = WAIT_SOF /\ ~ rst
              \/ usb_task_state = WAIT_SOF /\ usb_task_state' = GET_DESCRIPTOR
              \/ usb_task_state = GET_DESCRIPTOR /\ usb_task_state' \in {ADDRESSING, ERROR}
              \/ usb_task_state = ADDRESSING /\ usb_task_state' \in {CONFIGURING, ERROR}
              \/ usb_task_state = CONFIGURING /\ usb_task_state' \in {RUNNING, ERROR}
<1>1. CASE Initialize
  BY <1>1 DEF Initialize, Task
<1>2. CASE ArmSettle
  BY <1>2 DEF ArmSettle, Task
<1>3. CASE SettleWait
  BY <1>3 DEF SettleWait, Task
<1>4. CASE ResetDevice
  BY <1>4 DEF ResetDevice, Task
<1>5. CASE WaitReset
  BY <1>5 DEF WaitReset, Task
<1>6. CASE WaitSof
  BY <1>6 DEF WaitSof, Task
<1>7. CASE GetDescriptor
  BY <1>7 DEF GetDescriptor, Task, Fail
<1>8. CASE SetAddress
  BY <1>8 DEF SetAddress, Task, Fail
<1>9. CASE NoAddressLeft
  BY <1>9 DEF NoAddressLeft, Task, Fail
<1>10. CASE Configure
  BY <1>10 DEF Configure, Task, Fail
<1>11. CASE Rest
  BY <1>11 DEF Rest, Task, Handled
<1> QED  BY <1>1, <1>2, <1>3, <1>4, <1>5, <1>6, <1>7, <1>8, <1>9, <1>10, <1>11 DEF USB_Task

(* Only RESET_DEVICE touches the bits of the bus.                          *)
LEMMA TaskReset ==
    ASSUME USB_Task
    PROVE  \/ UNCHANGED <<rst, busevent>> /\ usb_task_state # RESET_DEVICE
           \/ usb_task_state' = WAIT_RESET /\ ~ busevent'
<1>1. CASE ResetDevice
  BY <1>1 DEF ResetDevice, ClearEvent, Task
<1>2. CASE ~ ResetDevice
  BY <1>2 DEF USB_Task, Initialize, ArmSettle, SettleWait, WaitReset, WaitSof, GetDescriptor,
     SetAddress, NoAddressLeft, Configure, Rest, Task, Handled, chip
<1> QED  BY <1>1, <1>2

-----------------------------------------------------------------------------
(* No traffic during a reset.                                              *)

LEMMA ResetPreserved == TypeOK /\ ResetInv /\ [Next]_vars => ResetInv'
<1> SUFFICES ASSUME TypeOK, ResetInv, [Next]_vars PROVE ResetInv'
  OBVIOUS
<1> USE DEF ResetInv, NoTrafficInReset, Traffic
<1>1. CASE Change
  BY <1>1 DEF Change
<1>2. CASE ResetDone
  BY <1>2 DEF ResetDone
<1>4. CASE Elapse
  BY <1>4 DEF Elapse, chip
<1>5. CASE MaxIntHandler
  <2> DEFINE s == Busprobe(usb_task_state)
  <2>1. s \in {INITIALIZE, WAIT_FOR_DEVICE, ILLEGAL, ATTACHED, WAIT_RESET}
        /\ s \in {INITIALIZE, WAIT_FOR_DEVICE, ILLEGAL, ATTACHED} \cup {usb_task_state}
    BY Probed, HostAssumption DEF TypeOK, State
  <2>2. usb_task_state' = IF busevent THEN s + 1 ELSE s
    BY <1>5, <2>1, Advanced DEF MaxIntHandler
  <2>3. UNCHANGED <<rst, busevent>>
    BY <1>5 DEF MaxIntHandler, chip
  <2> HIDE DEF s
  <2> QED  BY <2>1, <2>2, <2>3
<1>6. CASE SendBack
  BY <1>6 DEF SendBack
<1>7. CASE NoInterrupt
  BY <1>7 DEF NoInterrupt, chip
<1>8. CASE ChipInit
  BY <1>8 DEF ChipInit
<1>9. CASE ChipReady
  BY <1>9 DEF ChipReady
<1>10. CASE USB_Task
  <2>1. CASE UNCHANGED <<rst, busevent>> /\ usb_task_state # RESET_DEVICE
    BY <1>10, <2>1, TaskRange
  <2>2. CASE usb_task_state' = WAIT_RESET /\ ~ busevent'
    BY <2>2
  <2> QED  BY <1>10, <2>1, <2>2, TaskReset
<1>11. CASE Report \/ Idle \/ Restart
  BY <1>11 DEF Report, Idle, Restart, chip
<1>12. CASE UNCHANGED vars
  BY <1>12 DEF vars, chip
<1> QED
  BY <1>1, <1>2, <1>4, <1>5, <1>6, <1>7, <1>8, <1>9, <1>10, <1>11, <1>12 DEF Next, Loop

-----------------------------------------------------------------------------
(* Sessions, and the wire.                                                 *)

LEMMA SessionPreserved ==
    TypeOK /\ SessionInv /\ WireInv /\ [Next]_vars => SessionInv' /\ WireInv'
<1> SUFFICES ASSUME TypeOK, SessionInv, WireInv, [Next]_vars PROVE SessionInv' /\ WireInv'
  OBVIOUS
<1> USE DEF SessionInv, WireInv, Ended
<1>1. CASE Change
  BY <1>1 DEF Change
<1>2. CASE ResetDone
  BY <1>2 DEF ResetDone
<1>4. CASE Elapse
  BY <1>4 DEF Elapse
<1>5. CASE MaxIntHandler
  <2> DEFINE s == Busprobe(usb_task_state)
  <2>1. /\ s \in {INITIALIZE, WAIT_FOR_DEVICE, ILLEGAL, ATTACHED, WAIT_RESET}
        /\ s \in {INITIALIZE, WAIT_FOR_DEVICE, ILLEGAL, ATTACHED} \cup {usb_task_state}
        /\ dev \in Kinds <=> s >= 16
    BY Probed, HostAssumption DEF TypeOK, State
  <2>2. usb_task_state' = IF busevent THEN s + 1 ELSE s
    BY <1>5, <2>1, Advanced DEF MaxIntHandler
  <2>3. phase = "irq" /\ phase' = "ack" /\ running' = running /\ probed' = dev
    BY <1>5 DEF MaxIntHandler, Probe
  <2> HIDE DEF s
  <2>4. SessionInv'
    BY <2>1, <2>2, <2>3
  <2>5. usb_task_state' >= 16 <=> s >= 16
    BY <2>1, <2>2
  <2> QED  BY <2>1, <2>3, <2>4, <2>5
<1>6. CASE SendBack
  BY <1>6 DEF SendBack
<1>7. CASE NoInterrupt
  BY <1>7 DEF NoInterrupt
<1>8. CASE ChipInit
  <2> DEFINE s == Busprobe(usb_task_state)
  <2>1. dev \in Kinds <=> s >= 16
    BY Probed, HostAssumption DEF TypeOK, State
  <2>2. usb_task_state' = s /\ probed' = dev /\ phase = "init" /\ phase' = "initack" /\ running' = running
    BY <1>8 DEF ChipInit, Probe
  <2> HIDE DEF s
  <2> QED  BY <2>1, <2>2
<1>9. CASE ChipReady
  BY <1>9 DEF ChipReady
<1>10. CASE USB_Task
  <2>1. SessionInv'
    BY <1>10, TaskRange
  <2>2. usb_task_state' >= 16 <=> usb_task_state >= 16
    BY <1>10, TaskRange
  <2> QED  BY <1>10, <2>1, <2>2, TaskRange
<1>11. CASE Report
  BY <1>11 DEF Report
<1>12. CASE Idle
  BY <1>12 DEF Idle
<1>13. CASE Restart
  BY <1>13 DEF Restart, ClearFlag
<1>14. CASE UNCHANGED vars
  BY <1>14 DEF vars
<1> QED
  BY <1>1, <1>2, <1>4, <1>5, <1>6, <1>7, <1>8, <1>9, <1>10, <1>11, <1>12, <1>13, <1>14
  DEF Next, Loop

-----------------------------------------------------------------------------
(* Types.                                                                  *)

EpInfo == [0 .. NumDevices -> {"NULL", "dev0ep", "hid_ep"}]
DevClass == [0 .. NumDevices -> {UNINIT, HID_K, HID_M}]

(* The part of the types that a step of USB_Task can touch with the table. *)
TableTypes ==
    /\ epinfo \in EpInfo /\ devclass \in DevClass
    /\ devAddr \in Address \cup {0, NoAddress}
    /\ tmp_addr \in Address \cup {0} /\ hidAddr \in Address \cup {0}

LEMMA AddressRange ==
    /\ Address \subseteq 0 .. NumDevices /\ Addresses = Address
    /\ 0 \in 0 .. NumDevices /\ Address \subseteq Nat
  BY HostAssumption DEF Address, Addresses

LEMMA TaskTables == TypeOK /\ USB_Task => TableTypes'
<1> SUFFICES ASSUME TypeOK, USB_Task PROVE TableTypes'
  OBVIOUS
<1>0. TableTypes
  BY DEF TypeOK, TableTypes, EpInfo, DevClass
<1>1. CASE Initialize
  BY <1>0, <1>1 DEF Initialize, ClearTable, TableTypes, EpInfo, DevClass, wire, found
<1>2. CASE SetAddress
  <2>1. PICK i \in Free :
           /\ epinfo' = [epinfo EXCEPT ![i] = epinfo[0]]
           /\ devAddr' = i \/ devAddr' = devAddr
           /\ tmp_addr' = i \/ tmp_addr' = tmp_addr
           /\ UNCHANGED <<devclass, hidAddr>>
    BY <1>2 DEF SetAddress
  <2>2. i \in Address /\ epinfo[0] \in {"NULL", "dev0ep", "hid_ep"}
    BY <1>0, AddressRange DEF Free, TableTypes, EpInfo
  <2>3. epinfo' \in EpInfo
    BY <1>0, <2>1, <2>2, AddressRange DEF TableTypes, EpInfo
  <2> QED  BY <1>0, <2>1, <2>2, <2>3 DEF TableTypes
<1>3. CASE Configure
  <2>1. CASE UNCHANGED <<table, found>>
    BY <1>0, <1>3, <2>1 DEF Configure, TableTypes, table, found, wire
  <2>2. CASE Match(ClassOf(dev))
    <3>1. ClassOf(dev) \in {UNINIT, HID_K, HID_M}
      BY DEF ClassOf
    <3>2. epinfo' \in EpInfo /\ devclass' \in DevClass
      BY <1>0, <2>2, <3>1 DEF Match, TableTypes, EpInfo, DevClass
    <3>3. devAddr' = devAddr /\ hidAddr' = tmp_addr /\ tmp_addr' = tmp_addr
      BY <1>3, <2>2 DEF Configure, Match, wire
    <3> QED  BY <1>0, <3>2, <3>3 DEF TableTypes
  <2> QED  BY <1>3, <2>1, <2>2 DEF Configure
<1>4. CASE ArmSettle \/ SettleWait \/ ResetDevice \/ WaitReset \/ WaitSof
  BY <1>0, <1>4 DEF ArmSettle, SettleWait, ResetDevice, WaitReset, WaitSof, TableTypes,
     wire, table, found
<1>5. CASE GetDescriptor \/ NoAddressLeft \/ Rest
  BY <1>0, <1>5 DEF GetDescriptor, NoAddressLeft, Rest, TableTypes, wire, table, found
<1> QED  BY <1>1, <1>2, <1>3, <1>4, <1>5 DEF USB_Task

LEMMA TaskChips ==
    TypeOK /\ USB_Task =>
        /\ dev' \in Wire /\ changes' \in 0 .. MaxChanges
        /\ condet' \in BOOLEAN /\ busevent' \in BOOLEAN /\ rst' \in BOOLEAN
        /\ usb_delay' \in BOOLEAN
<1> SUFFICES ASSUME TypeOK, USB_Task
             PROVE  /\ dev' \in Wire /\ changes' \in 0 .. MaxChanges
                    /\ condet' \in BOOLEAN /\ busevent' \in BOOLEAN /\ rst' \in BOOLEAN
                    /\ usb_delay' \in BOOLEAN
  OBVIOUS
<1> USE DEF TypeOK
<1>1. CASE Initialize \/ ArmSettle \/ SettleWait
  BY <1>1 DEF Initialize, ArmSettle, SettleWait, wire, chip
<1>2. CASE ResetDevice
  <2>1. condet' \in BOOLEAN /\ busevent' \in BOOLEAN /\ rst' \in BOOLEAN
    BY <1>2 DEF ResetDevice, ClearEvent
  <2> QED  BY <1>2, <2>1 DEF ResetDevice, wire
<1>3. CASE WaitReset \/ WaitSof \/ GetDescriptor \/ NoAddressLeft \/ Rest
  BY <1>3 DEF WaitReset, WaitSof, GetDescriptor, NoAddressLeft, Rest, wire, chip
<1>4. CASE SetAddress
  <2>1. dev' = dev /\ changes' = changes /\ UNCHANGED <<chip, usb_delay>>
    BY <1>4 DEF SetAddress
  <2> QED  BY <2>1 DEF chip
<1>5. CASE Configure
  BY <1>5 DEF Configure, wire, chip
<1> QED  BY <1>1, <1>2, <1>3, <1>4, <1>5 DEF USB_Task

(* What a probe leaves.                                                    *)
LEMMA ProbeTypes ==
    TypeOK /\ Probe => /\ probed' \in Wire
                       /\ usb_delay' \in BOOLEAN
  BY DEF TypeOK, Probe

LEMMA TypePreserved == IInv /\ [Next]_vars => TypeOK'
<1> SUFFICES ASSUME IInv, [Next]_vars PROVE TypeOK'
  OBVIOUS
<1>0. TypeOK
  BY DEF IInv
<1>1. CASE Change
  <2>1. changes' \in 0 .. MaxChanges
    BY <1>0, <1>1, HostAssumption DEF Change, TypeOK
  <2>2. dev' \in Wire /\ devAddr' = NoAddress /\ condet' = TRUE
    BY <1>1 DEF Change
  <2> QED  BY <1>0, <1>1, <2>1, <2>2 DEF Change, TypeOK, table, found
<1>2. CASE ResetDone
  <2>1. devAddr' \in Address \cup {0, NoAddress}
    BY <1>0, <1>2 DEF ResetDone, TypeOK
  <2>2. rst' \in BOOLEAN /\ busevent' \in BOOLEAN
    BY <1>2 DEF ResetDone
  <2>3. changes' \in 0 .. MaxChanges
    BY <1>0, <1>2, HostAssumption DEF ResetDone, TypeOK
  <2>4. condet' \in BOOLEAN
    <3>1. condet' = condet \/ condet' = TRUE
      BY <1>2, Zenon DEF ResetDone
    <3> QED  BY <1>0, <3>1, Zenon DEF TypeOK
  <2>5. UNCHANGED <<dev, phase, sendback, usb_task_state, usb_delay, epinfo, devclass,
                    tmp_addr, hidAddr, running, device, probed>>
    BY <1>2, Zenon DEF ResetDone, table, found
  <2> QED  BY <1>0, <2>1, <2>2, <2>3, <2>4, <2>5 DEF TypeOK
<1>4. CASE Elapse
  <2>1. usb_delay' \in BOOLEAN
    BY <1>4 DEF Elapse
  <2> QED  BY <1>0, <1>4, <2>1 DEF Elapse, TypeOK, wire, chip, table, found
<1>5. CASE MaxIntHandler
  <2> DEFINE s == Busprobe(usb_task_state)
  <2>1. s \in {INITIALIZE, WAIT_FOR_DEVICE, ILLEGAL, ATTACHED, WAIT_RESET}
    BY <1>0, Probed, HostAssumption DEF TypeOK, State
  <2>2. usb_task_state' = IF busevent THEN s + 1 ELSE s
    BY <1>5, <2>1, Advanced DEF MaxIntHandler
  <2> HIDE DEF s
  <2>3. usb_task_state' \in 0 .. 255
    BY <2>1, <2>2
  <2>4. probed' \in Wire /\ usb_delay' \in BOOLEAN
    BY <1>0, <1>5, ProbeTypes DEF MaxIntHandler
  <2> QED  BY <1>0, <1>5, <2>3, <2>4 DEF MaxIntHandler, TypeOK, wire, chip, table, found
<1>6. CASE SendBack
  <2>1. condet' \in BOOLEAN /\ sendback' \in BOOLEAN /\ phase' = "task"
    BY <1>6 DEF SendBack
  <2>2. busevent' = (busevent /\ ~ sendback)
    BY <1>6 DEF SendBack
  <2>3. busevent' \in BOOLEAN
    BY <2>2
  <2> QED  BY <1>0, <1>6, <2>1, <2>3 DEF SendBack, TypeOK, wire, table, found
<1>7. CASE NoInterrupt
  BY <1>0, <1>7 DEF NoInterrupt, TypeOK, wire, chip, table, found
<1>8. CASE ChipInit
  <2>1. usb_task_state' \in 0 .. 255
    <3>1. usb_task_state \in State /\ dev \in Wire
      BY <1>0 DEF TypeOK, State
    <3>2. Busprobe(usb_task_state) \in {INITIALIZE, WAIT_FOR_DEVICE, ILLEGAL, ATTACHED, WAIT_RESET}
      BY <3>1, Probed, HostAssumption
    <3>3. usb_task_state' = Busprobe(usb_task_state)
      BY <1>8 DEF ChipInit
    <3> QED  BY <3>2, <3>3
  <2>2. probed' \in Wire /\ usb_delay' \in BOOLEAN
    BY <1>0, <1>8, ProbeTypes DEF ChipInit
  <2>3. condet' \in BOOLEAN /\ busevent' \in BOOLEAN /\ rst' \in BOOLEAN
    BY <1>8 DEF ChipInit
  <2> QED  BY <1>0, <1>8, <2>1, <2>2, <2>3 DEF ChipInit, TypeOK, wire, table, found
<1>9. CASE ChipReady
  <2>1. epinfo' \in [0 .. NumDevices -> {"NULL", "dev0ep", "hid_ep"}]
        /\ devclass' \in [0 .. NumDevices -> {UNINIT, HID_K, HID_M}]
    BY <1>9 DEF ChipReady, ClearTable
  <2>2. condet' \in BOOLEAN
    BY <1>9 DEF ChipReady
  <2> QED  BY <1>0, <1>9, <2>1, <2>2 DEF ChipReady, TypeOK, wire, found
<1>10. CASE USB_Task
  <2>1. usb_task_state' \in 0 .. 255 /\ phase' = "main" /\ UNCHANGED <<running, device, probed, sendback>>
    <3>1. usb_task_state \in 0 .. 255
      BY <1>0 DEF TypeOK
    <3>2. usb_task_state' \in 0 .. 255
      BY <1>10, <3>1, TaskRange
    <3> QED  BY <1>10, <3>2, TaskRange
  <2>2. TableTypes'
    BY <1>0, <1>10, TaskTables
  <2>3. /\ dev' \in Wire /\ changes' \in 0 .. MaxChanges
        /\ condet' \in BOOLEAN /\ busevent' \in BOOLEAN /\ rst' \in BOOLEAN
        /\ usb_delay' \in BOOLEAN
    BY <1>0, <1>10, TaskChips
  <2> QED  BY <1>0, <2>1, <2>2, <2>3 DEF TypeOK, TableTypes, EpInfo, DevClass
<1>11. CASE Report
  <2>1. usb_task_state = RUNNING /\ tmp_addr \in InUse /\ \A j \in InUse : j <= tmp_addr
    BY <1>11 DEF Report, IInv, TableInv
  <2>2. ReportedClass \in {UNINIT, HID_K, HID_M}
    <3>1. PICK i \in InUse : ReportedClass = devclass[i]
      <4> DEFINE k == CHOOSE i \in InUse : \A j \in InUse : j <= i
      <4>1. k \in InUse
        BY <2>1
      <4>2. ReportedClass = devclass[k]
        BY <2>1 DEF ReportedClass
      <4> QED  BY <4>1, <4>2
    <3>2. i \in 0 .. NumDevices
      BY AddressRange DEF InUse
    <3> QED  BY <1>0, <3>1, <3>2 DEF TypeOK
  <2> QED  BY <1>0, <1>11, <2>2 DEF Report, TypeOK, wire, chip, table, found
<1>12. CASE Idle
  BY <1>0, <1>12 DEF Idle, TypeOK, wire, chip, table, found
<1>13. CASE Restart
  <2>1. running' \in BOOLEAN /\ phase' = "init"
    BY <1>13 DEF Restart, ClearFlag
  <2> QED  BY <1>0, <1>13, <2>1 DEF Restart, TypeOK, wire, chip, table, found
<1>14. CASE UNCHANGED vars
  BY <1>0, <1>14 DEF vars, TypeOK, wire, chip, table, found
<1> QED
  BY <1>1, <1>2, <1>4, <1>5, <1>6, <1>7, <1>8, <1>9, <1>10, <1>11, <1>12, <1>13, <1>14
  DEF Next, Loop

-----------------------------------------------------------------------------
(* The device table.                                                       *)

Ordered == \A i \in InUse : \A j \in Addresses : j < i => j \in InUse
Newest == tmp_addr \in InUse /\ \A j \in InUse : j <= tmp_addr

(* Steps that leave the table, the addresses and the state alone.          *)
LEMMA TableKept ==
    ASSUME TableInv, UNCHANGED <<table, found, usb_task_state>>,
           phase' \notin {"init", "initack"} => phase \notin {"init", "initack"},
           phase' = "initack" => phase = "initack",
           running' /\ usb_task_state = RUNNING => running \/ device' = devclass[tmp_addr],
           running => device' = device
    PROVE  TableInv'
<1>1. /\ epinfo' = epinfo /\ devclass' = devclass /\ tmp_addr' = tmp_addr
      /\ hidAddr' = hidAddr /\ usb_task_state' = usb_task_state
  BY DEF table, found
<1>2. InUse' = InUse
  BY <1>1 DEF InUse, Addresses
<1> QED  BY <1>1, <1>2 DEF TableInv

(* Steps that leave the table alone and lead to a state without a device.  *)
LEMMA TableIdle ==
    ASSUME TableInv, UNCHANGED table, usb_task_state' \notin {CONFIGURING, RUNNING},
           phase' \notin {"init", "initack"} => phase \notin {"init", "initack"},
           phase' = "initack" =>
               usb_task_state' \in {INITIALIZE, WAIT_FOR_DEVICE, ILLEGAL, ATTACHED}
    PROVE  TableInv'
<1>1. epinfo' = epinfo
  BY DEF table
<1>2. InUse' = InUse
  BY <1>1 DEF InUse, Addresses
<1> QED  BY <1>1, <1>2 DEF TableInv

(* USB_init.                                                               *)
LEMMA TableCleared ==
    ASSUME ClearTable, usb_task_state' \notin {CONFIGURING, RUNNING}, phase' # "initack"
    PROVE  TableInv'
<1>1. epinfo'[0] # "NULL" /\ InUse' = {}
  BY AddressRange DEF ClearTable, InUse, Addresses, Address
<1> QED  BY <1>1 DEF TableInv

LEMMA TableAddressed ==
    ASSUME TypeOK, TableInv, phase = "task", phase' = "main", SetAddress
    PROVE  TableInv'
<1>1. PICK i \in Free :
         /\ \A j \in Free : i <= j
         /\ epinfo' = [epinfo EXCEPT ![i] = epinfo[0]]
         /\ \/ usb_task_state' = CONFIGURING /\ tmp_addr' = i
            \/ usb_task_state' = ERROR
  <2>1. PICK i \in Free :
           /\ \A j \in Free : i <= j
           /\ epinfo' = [epinfo EXCEPT ![i] = epinfo[0]]
           /\ \/ tmp_addr' = i /\ Task(ADDRESSING, CONFIGURING)
              \/ Task(ADDRESSING, Fail(ADDRESSING))
    BY DEF SetAddress
  <2>2. Task(ADDRESSING, CONFIGURING) => usb_task_state' = CONFIGURING
    BY DEF Task
  <2>3. Task(ADDRESSING, Fail(ADDRESSING)) => usb_task_state' = ERROR
    BY DEF Task, Fail
  <2>4. \/ usb_task_state' = CONFIGURING /\ tmp_addr' = i
        \/ usb_task_state' = ERROR
    <3>1. CASE tmp_addr' = i /\ Task(ADDRESSING, CONFIGURING)
      BY <2>2, <3>1
    <3>2. CASE Task(ADDRESSING, Fail(ADDRESSING))
      BY <2>3, <3>2
    <3> QED  BY <2>1, <3>1, <3>2
  <2>5. i \in Free /\ (\A j \in Free : i <= j) /\ epinfo' = [epinfo EXCEPT ![i] = epinfo[0]]
    BY <2>1
  <2> QED  BY <2>4, <2>5
<1>2. i \in Address /\ epinfo[i] = "NULL" /\ i \in 0 .. NumDevices /\ i # 0
  BY <1>1, AddressRange DEF Free, Address
<1>3. epinfo \in [0 .. NumDevices -> {"NULL", "dev0ep", "hid_ep"}]
  BY DEF TypeOK
<1>4. epinfo[0] # "NULL"
  BY DEF TableInv
<1>5. epinfo'[i] # "NULL" /\ \A k \in 0 .. NumDevices : k # i => epinfo'[k] = epinfo[k]
  BY <1>1, <1>2, <1>3, <1>4
<1>6. InUse' = InUse \cup {i}
  BY <1>2, <1>5, AddressRange DEF InUse, Addresses
<1>7. \A j \in Addresses : j < i => j \in InUse
  BY <1>1, <1>2, AddressRange DEF InUse, Free, Addresses
<1>8. Ordered'
  <2>1. \A k \in InUse : \A j \in Addresses : j < k => j \in InUse
    BY DEF TableInv
  <2> QED  BY <1>6, <1>7, <2>1 DEF Ordered, Addresses
<1>9. \A j \in InUse : j <= i
  <2> SUFFICES ASSUME NEW j \in InUse, i < j PROVE FALSE
    BY <1>2, AddressRange DEF InUse
  <2>1. i \in InUse
    BY <1>2, AddressRange DEF TableInv
  <2> QED  BY <1>2, <2>1 DEF InUse
<1>10. usb_task_state' = CONFIGURING => Newest'
  BY <1>1, <1>2, <1>6, <1>9 DEF Newest
<1>11. epinfo'[0] # "NULL" /\ phase' = "main" /\ usb_task_state' \in {CONFIGURING, ERROR}
  BY <1>1, <1>2, <1>4, <1>5, AddressRange
<1> QED  BY <1>8, <1>10, <1>11 DEF TableInv, Ordered, Newest

LEMMA TableConfigured ==
    ASSUME TypeOK, SessionInv, TableInv, Configure
    PROVE  TableInv'
<1>1. phase' = "main" /\ usb_task_state = CONFIGURING /\ usb_task_state' \in {RUNNING, ERROR}
      /\ phase = "task" /\ running' = running
  BY DEF Configure, Task, Fail
<1>2. ~ running
  BY <1>1 DEF SessionInv, Ended
<1>3. Newest /\ Ordered /\ epinfo[0] # "NULL"
  BY <1>1 DEF TableInv, Newest, Ordered
<1>4. CASE UNCHANGED <<table, found>> /\ usb_task_state' = ERROR
  BY <1>1, <1>4, TableIdle
<1>5. CASE Match(ClassOf(dev))
  <2>1. epinfo' = [epinfo EXCEPT ![tmp_addr] = "hid_ep"] /\ tmp_addr' = tmp_addr /\ hidAddr' = tmp_addr
    BY <1>5 DEF Match
  <2>2. epinfo \in [0 .. NumDevices -> {"NULL", "dev0ep", "hid_ep"}]
    BY DEF TypeOK
  <2>3. tmp_addr \in Address /\ tmp_addr \in 0 .. NumDevices /\ tmp_addr # 0 /\ epinfo[tmp_addr] # "NULL"
    BY <1>3, AddressRange DEF Newest, InUse, Address
  <2>4. epinfo'[tmp_addr] = "hid_ep" /\ \A k \in 0 .. NumDevices : k # tmp_addr => epinfo'[k] = epinfo[k]
    BY <2>1, <2>2, <2>3
  <2>5. InUse' = InUse
    BY <2>3, <2>4, AddressRange DEF InUse, Addresses
  <2>6. epinfo'[0] # "NULL"
    BY <1>3, <2>3, <2>4, AddressRange
  <2>7. Ordered' /\ Newest'
    BY <1>3, <2>1, <2>5 DEF Ordered, Newest, Addresses
  <2> QED  BY <1>1, <1>2, <2>1, <2>4, <2>6, <2>7 DEF TableInv, Ordered, Newest
<1>6. \/ UNCHANGED <<table, found>> /\ usb_task_state' = ERROR
      \/ Match(ClassOf(dev))
  BY DEF Configure, Task, Fail
<1> QED  BY <1>4, <1>5, <1>6

LEMMA TablePreserved == IInv /\ [Next]_vars => TableInv'
<1> SUFFICES ASSUME IInv, [Next]_vars PROVE TableInv'
  OBVIOUS
<1>0. TypeOK /\ SessionInv /\ TableInv
  BY DEF IInv
<1>1. CASE Change \/ ResetDone \/ Elapse
  <2>1. UNCHANGED <<table, found, usb_task_state, phase, running, device>>
    BY <1>1 DEF Change, ResetDone, Elapse
  <2> QED  BY <1>0, <2>1, TableKept
<1>2. CASE SendBack \/ NoInterrupt \/ Idle
  <2>1. UNCHANGED <<table, found, usb_task_state, running, device>>
    BY <1>2 DEF SendBack, NoInterrupt, Idle
  <2>2. phase' \notin {"init", "initack"} /\ phase \notin {"init", "initack"}
    BY <1>2 DEF SendBack, NoInterrupt, Idle
  <2> QED  BY <1>0, <2>1, <2>2, TableKept
<1>3. CASE MaxIntHandler
  <2> DEFINE s == Busprobe(usb_task_state)
  <2>1. s \in {INITIALIZE, WAIT_FOR_DEVICE, ILLEGAL, ATTACHED, WAIT_RESET}
    BY <1>0, Probed, HostAssumption DEF TypeOK, State
  <2>2. usb_task_state' = IF busevent THEN s + 1 ELSE s
    BY <1>3, <2>1, Advanced DEF MaxIntHandler
  <2>3. UNCHANGED table /\ phase = "irq" /\ phase' = "ack"
    BY <1>3 DEF MaxIntHandler
  <2> HIDE DEF s
  <2>4. usb_task_state' \notin {CONFIGURING, RUNNING}
    BY <2>1, <2>2
  <2> QED  BY <1>0, <2>3, <2>4, TableIdle
<1>4. CASE ChipInit
  <2>1. usb_task_state \in State /\ dev \in Wire
    BY <1>0 DEF TypeOK, State
  <2>2. phase = "init" /\ phase' = "initack" /\ UNCHANGED table
        /\ usb_task_state' = Busprobe(usb_task_state)
    BY <1>4 DEF ChipInit
  <2>3. usb_task_state # WAIT_RESET
    BY <1>0, <2>2 DEF SessionInv, Ended
  <2>4. usb_task_state' \in {INITIALIZE, WAIT_FOR_DEVICE, ILLEGAL, ATTACHED}
    BY <2>1, <2>2, <2>3, Probed, HostAssumption
  <2> QED  BY <1>0, <2>2, <2>4, TableIdle
<1>5. CASE ChipReady
  <2>1. ClearTable /\ phase' = "irq" /\ phase = "initack" /\ usb_task_state' = usb_task_state
    BY <1>5 DEF ChipReady
  <2>2. usb_task_state' \notin {CONFIGURING, RUNNING}
    BY <1>0, <2>1 DEF TableInv
  <2> QED  BY <2>1, <2>2, TableCleared
<1>6. CASE USB_Task
  <2>0. phase = "task" /\ phase' = "main" /\ UNCHANGED <<running, device>>
    BY <1>6, TaskRange
  <2>1. CASE Initialize
    BY <2>0, <2>1, TableCleared DEF Initialize, Task
  <2>2. CASE SetAddress
    BY <1>0, <2>0, <2>2, TableAddressed
  <2>3. CASE Configure
    BY <1>0, <2>3, TableConfigured
  <2>4. CASE ArmSettle \/ SettleWait \/ ResetDevice \/ WaitReset \/ WaitSof
    <3>1. UNCHANGED table
      BY <2>4 DEF ArmSettle, SettleWait, ResetDevice, WaitReset, WaitSof
    <3>2. usb_task_state \in {ATTACHED, SETTLE, RESET_DEVICE, WAIT_RESET, WAIT_SOF}
      BY <2>4 DEF ArmSettle, SettleWait, ResetDevice, WaitReset, WaitSof, Task
    <3>3. usb_task_state' \notin {CONFIGURING, RUNNING}
      BY <1>6, <3>2, TaskRange
    <3> QED  BY <1>0, <2>0, <3>1, <3>3, TableIdle
  <2>5. CASE GetDescriptor \/ NoAddressLeft
    <3>1. UNCHANGED table /\ usb_task_state' \notin {CONFIGURING, RUNNING}
      BY <2>5 DEF GetDescriptor, NoAddressLeft, Task, Fail
    <3> QED  BY <1>0, <2>0, <3>1, TableIdle
  <2>6. CASE Rest
    <3>1. UNCHANGED <<table, found, usb_task_state>>
      BY <2>6 DEF Rest, Task
    <3> QED  BY <1>0, <2>0, <3>1, TableKept
  <2> QED  BY <1>6, <2>1, <2>2, <2>3, <2>4, <2>5, <2>6 DEF USB_Task
<1>7. CASE Report
  <2>1. /\ UNCHANGED <<table, found, usb_task_state>> /\ phase = "main" /\ phase' = "irq"
        /\ ~ running /\ device' = ReportedClass /\ usb_task_state = RUNNING
    BY <1>7 DEF Report
  <2>2. Newest
    BY <1>0, <2>1 DEF TableInv, Newest
  <2>3. ReportedClass = devclass[tmp_addr]
    <3> DEFINE k == CHOOSE i \in InUse : \A j \in InUse : j <= i
    <3>1. k \in InUse /\ \A j \in InUse : j <= k
      BY <2>2 DEF Newest
    <3>2. k <= tmp_addr /\ tmp_addr <= k /\ k \in Nat /\ tmp_addr \in Nat
      BY <2>2, <3>1, AddressRange DEF Newest, InUse
    <3>3. ReportedClass = devclass[k]
      BY <2>2 DEF ReportedClass, Newest
    <3> HIDE DEF k
    <3>4. k = tmp_addr
      BY <3>2
    <3> QED  BY <3>3, <3>4
  <2> QED  BY <1>0, <2>1, <2>3, TableKept
<1>8. CASE Restart
  <2>1. UNCHANGED <<table, found, usb_task_state>> /\ phase' = "init" /\ running' = FALSE
        /\ device' = device
    BY <1>8 DEF Restart, ClearFlag
  <2> QED  BY <1>0, <2>1, TableKept
<1>9. CASE UNCHANGED vars
  <2>1. UNCHANGED <<table, found, usb_task_state, phase, running, device>>
    BY <1>9 DEF vars
  <2> QED  BY <1>0, <2>1, TableKept
<1> QED
  BY <1>1, <1>2, <1>3, <1>4, <1>5, <1>6, <1>7, <1>8, <1>9 DEF Next, Loop

-----------------------------------------------------------------------------

LEMMA Preserved == IInv /\ [Next]_vars => IInv'
  BY TypePreserved, ResetPreserved, SessionPreserved, TablePreserved DEF IInv

LEMMA Invariance == Spec => []IInv
<1>1. Init => IInv
  BY Initially
<1>2. IInv /\ [Next]_vars => IInv'
  BY Preserved
<1> QED  BY <1>1, <1>2, PTL DEF Spec

(* No packet goes out during a bus reset, and the state variables keep     *)
(* their types (MAX3421E.c:137, transfer.c:286-291).                       *)
THEOREM QuietReset == Spec => [](TypeOK /\ NoTrafficInReset)
<1>1. IInv => TypeOK /\ NoTrafficInReset
  BY DEF IInv, ResetInv
<1> QED  BY <1>1, Invariance, PTL

(* Whatever the table still holds of earlier devices, main polls the       *)
(* device enumerated last, with the class its probe found.                 *)
THEOREM NewestPolled == Spec => []PollsNewest
<1>1. IInv => PollsNewest
  BY DEF IInv, TableInv, PollsNewest
<1> QED  BY <1>1, Invariance, PTL

(* A session that has ended is never taken for the next one.               *)
THEOREM SessionsEnd == Spec => []FlagFollowsSession
<1>1. IInv => FlagFollowsSession
  BY DEF IInv, SessionInv, FlagFollowsSession
<1> QED  BY <1>1, Invariance, PTL

(* A served interrupt leaves the state in step with the wire, however      *)
(* often that changes and wherever in the loop it does.                    *)
THEOREM StateInStep == Spec => []StateFollowsWire
<1>1. IInv => StateFollowsWire
  <2> SUFFICES ASSUME IInv, phase = "irq", dev = probed
               PROVE  dev \in Kinds <=> ~ Detached(usb_task_state)
    BY DEF StateFollowsWire
  <2>1. usb_task_state \in State
    BY DEF IInv, TypeOK, State
  <2>2. Detached(usb_task_state) <=> usb_task_state < 16
    BY <2>1, DetachedStates
  <2>3. probed \in Kinds <=> usb_task_state >= 16
    BY DEF IInv, WireInv
  <2> QED  BY <2>1, <2>2, <2>3 DEF State
<1> QED  BY <1>1, Invariance, PTL
=============================================================================
