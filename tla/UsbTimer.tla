------------------------------ MODULE UsbTimer -------------------------------
(***************************************************************************)
(* The millisecond clock of the USB firmware and the two waits built on    *)
(* it: the settle delay of USB_Task (transfer.c:277-284) and the transfer  *)
(* timeout of XferDispatchPkt (transfer.c:144-163).  Both read             *)
(* (alt_nticks()*1000)/alt_ticks_per_second(), whose product is an alt_u32 *)
(* and wraps long before the tick counter does.                            *)
(***************************************************************************)
EXTENDS Integers

CONSTANTS
    W,          \* width of alt_u32 (32)
    Mult,       \* 1000
    Rate,       \* alt_ticks_per_second(): 1000
    Settle,     \* milliseconds of the initial settle: 200
    XferTimeout \* USB_XFER_TIMEOUT: 5000

ASSUME TimerAssumption ==
    /\ 2^W \in Nat /\ 2^W > 1
    /\ Mult \in Nat /\ Rate \in Nat /\ 1 <= Mult /\ Mult <= Rate
    /\ Settle \in Nat /\ XferTimeout \in Nat /\ 1 <= Settle /\ Settle < XferTimeout
    /\ (2^W - 1) \div Rate + XferTimeout < 2^W

VARIABLES
    nticks,     \* _alt_nticks
    deadline,   \* usb_delay, or timeout of the transfer
    waiting,    \* "no", or which of the two the firmware waits for
    elapsed,    \* history: ticks since the wait began, up to XferTimeout + 1
    over        \* history: the wait that the clock has ended last, or "no"

timerVars == <<nticks, deadline, waiting, elapsed, over>>

TimerTypeOK ==
    /\ nticks \in 0 .. 2^W - 1 /\ deadline \in 0 .. 2^W - 1
    /\ waiting \in {"no", "settle", "xfer"}
    /\ elapsed \in 0 .. XferTimeout + 1 /\ over \in {"no", "settle", "xfer"}

TimerInit ==
    /\ nticks \in 0 .. 2^W - 1
    /\ deadline = 0 /\ waiting = "no" /\ elapsed = 0 /\ over = "no"

(* The product wraps; the quotient then starts again from 0.               *)
Now(t) == ((t * Mult) % 2^W) \div Rate

(* usb_delay = now + 200, timeout = now + USB_XFER_TIMEOUT; neither sum    *)
(* can wrap, for now is at most (2^32 - 1) / 1000.                         *)
BeginSettle ==
    /\ waiting = "no"
    /\ waiting' = "settle" /\ deadline' = (Now(nticks) + Settle) % 2^W
    /\ elapsed' = 0 /\ over' = "no"
    /\ UNCHANGED nticks

BeginTransfer ==
    /\ waiting = "no"
    /\ waiting' = "xfer" /\ deadline' = (Now(nticks) + XferTimeout) % 2^W
    /\ elapsed' = 0 /\ over' = "no"
    /\ UNCHANGED nticks

(* A fault for the mutants: a loose comparison.                            *)
SettleOverLoose(t) == Now(t) >= deadline

SettleOver(t) == Now(t) > deadline
TimedOut(t) == ~ (Now(t) < deadline)
NextTick(t) == (t + 1) % 2^W

(* HXFRDNIRQ ends the wait for a transfer; the settle has no other end.    *)
TransferDone ==
    /\ waiting = "xfer"
    /\ waiting' = "no"
    /\ UNCHANGED <<nticks, deadline, elapsed, over>>

(* One tick of the timer interrupt, after which the polling loops look at  *)
(* the clock: they turn faster than a millisecond.                         *)
Millisecond ==
    LET t == NextTick(nticks)
        ends == \/ waiting = "settle" /\ SettleOver(t)
                \/ waiting = "xfer" /\ TimedOut(t)
    IN /\ nticks' = t
       /\ elapsed' = IF waiting = "no" \/ elapsed > XferTimeout THEN elapsed ELSE elapsed + 1
       /\ over' = IF ends THEN waiting ELSE over
       /\ waiting' = IF ends THEN "no" ELSE waiting
       /\ UNCHANGED deadline

TimerNext == BeginSettle \/ BeginTransfer \/ TransferDone \/ Millisecond

(* The timer interrupt always comes again.                                 *)
TimerSpec == TimerInit /\ [][TimerNext]_timerVars /\ WF_timerVars(Millisecond)

-----------------------------------------------------------------------------

(* A wait that the clock has ended lasted at least as long as it says, on  *)
(* both sides of a wrap of the product: the settle a whole 200 ms, for     *)
(* which the first tick, which may come at once, cannot be counted.        *)
NeverEarly ==
    /\ over = "settle" => elapsed > Settle
    /\ over = "xfer" => elapsed >= XferTimeout

(* transfer.c:280 waits "for settle timer to expire": it must.             *)
SettleEnds == (waiting = "settle") ~> (waiting = "no")
=============================================================================
