---------------------------- MODULE FirmwareClock ----------------------------
(***************************************************************************)
(* The timer interrupt of the firmware: it advances the tick counter that  *)
(* the waits of UsbTimer read, and calls the alarms that have expired      *)
(* (HAL/src/alt_alarm_start.c, alt_tick.c).  The firmware has one, with    *)
(* which the JTAG UART driver looks for its host once a second.  The time  *)
(* of an alarm wraps with the counter; a flag says that the counter has to *)
(* wrap before the two can be compared.                                    *)
(***************************************************************************)
EXTENDS UsbTimer

CONSTANTS
    Alarms,     \* alt_alarm structures
    Periods     \* arguments of alt_alarm_start and answers of callbacks

(* An alarm a whole turn of the counter ahead would be called at once.     *)
ASSUME PeriodAssumption == Periods \subseteq 0 .. 2^W - 2

VARIABLES
    linked,         \* alt_alarm_list
    time, rollover, \* the fields of each alarm
    left            \* history: ticks until the alarm is to be called

alarms == <<linked, time, rollover, left>>
clockVars == <<timerVars, alarms>>

ClockInit ==
    /\ TimerInit
    /\ linked = {} /\ time = [a \in Alarms |-> 0]
    /\ rollover = [a \in Alarms |-> FALSE] /\ left = [a \in Alarms |-> 0]

Plus(t, k) == (t + k) % 2^W

(* alt_alarm_start, with interrupts off.  The tick under way is not        *)
(* counted.                                                                *)
StartAlarm(a, nt) ==
    /\ a \notin linked
    /\ linked' = linked \cup {a}
    /\ time' = [time EXCEPT ![a] = Plus(nticks, nt + 1)]
    /\ rollover' = [rollover EXCEPT ![a] = Plus(nticks, nt + 1) < nticks]
    /\ left' = [left EXCEPT ![a] = nt + 1]
    /\ UNCHANGED timerVars

StopAlarm(a) ==
    /\ a \in linked
    /\ linked' = linked \ {a} /\ left' = [left EXCEPT ![a] = 0]
    /\ UNCHANGED <<timerVars, time, rollover>>

(* The counter has passed 0: a flag that is set is cleared.                *)
Rollover(a, t) == rollover[a] /\ t # 0

Expired(a, t) == time[a] <= t /\ ~ Rollover(a, t)

(* A fault for the mutants: the tick itself does not set the flag.         *)
AlarmTickUnflagged(t, answer) ==
    LET called == {a \in linked : Expired(a, t)}
        again == {a \in called : answer[a] # 0}
    IN /\ linked' = linked \ (called \ again)
       /\ time' = [a \in Alarms |-> IF a \in again THEN Plus(time[a], answer[a]) ELSE time[a]]
       /\ rollover' = [a \in Alarms |-> IF a \in linked THEN Rollover(a, t) ELSE rollover[a]]
       /\ left' = [a \in Alarms |-> IF a \in called THEN answer[a]
                                    ELSE IF a \in linked THEN left[a] - 1 ELSE left[a]]

(* alt_tick: every alarm of the list in turn; what its callback answers is *)
(* the period until the next call, and 0 takes it off the list.            *)
AlarmTick(t, answer) ==
    LET called == {a \in linked : Expired(a, t)}
        again == {a \in called : answer[a] # 0}
    IN /\ linked' = linked \ (called \ again)
       /\ time' = [a \in Alarms |-> IF a \in again THEN Plus(time[a], answer[a]) ELSE time[a]]
       /\ rollover' = [a \in Alarms |->
             \/ a \in linked /\ Rollover(a, t)
             \/ a \notin linked /\ rollover[a]
             \/ a \in again /\ Plus(time[a], answer[a]) < t]
       /\ left' = [a \in Alarms |-> IF a \in called THEN answer[a]
                                    ELSE IF a \in linked THEN left[a] - 1 ELSE left[a]]

Tick ==
    /\ Millisecond
    /\ \E answer \in [Alarms -> Periods] : AlarmTick(nticks', answer)

ClockNext ==
    \/ (BeginSettle \/ BeginTransfer \/ TransferDone) /\ UNCHANGED alarms
    \/ \E a \in Alarms : (\E nt \in Periods : StartAlarm(a, nt)) \/ StopAlarm(a)
    \/ Tick

ClockSpec == ClockInit /\ [][ClockNext]_clockVars /\ WF_clockVars(Tick)

-----------------------------------------------------------------------------
(* An alarm is called at the tick it has been set for and at no other,     *)
(* wherever the counter stands and however often it wraps: the next tick   *)
(* calls it if and only if it is the last of its period (alt_tick.c:106,   *)
(* 113; the flag's comments at alt_alarm_start.c:86 and alt_tick.c:128).   *)
AlarmsOnTime ==
    \A a \in linked : Expired(a, NextTick(nticks)) <=> left[a] = 1
=============================================================================
