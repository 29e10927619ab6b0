------------------------------- MODULE UsbPoll -------------------------------
(***************************************************************************)
(* The main loop polling a boot keyboard through its interrupt IN endpoint *)
(* (main.c:157-184, HID.c:216-222): XferInTransfer with the data toggle it *)
(* keeps per endpoint (transfer.c:191-227), on top of XferDispatchPkt with *)
(* its retries (transfer.c:142-186).  The other half of the alternating    *)
(* bit is the keyboard's; the bus between them may lose the token, the     *)
(* data or the acknowledgement.                                            *)
(*                                                                         *)
(* A boot report is one packet, and the chip ends every transaction, long  *)
(* before the five second timeout.                                         *)
(***************************************************************************)
EXTENDS Sequences, Naturals

CONSTANTS
    Reports,        \* boot keyboard reports: the six key codes of each
    Shown,          \* how many of them main.c packs into the register (4)
    MaxPending,     \* bound: reports the keyboard holds back
    NakLimit,       \* USB_NAK_LIMIT (200)
    RetryLimit      \* USB_RETRY_LIMIT (3)

ASSUME PollAssumption ==
    /\ Reports \subseteq Seq(Nat) /\ {Shown, MaxPending} \subseteq Nat
    /\ \A r \in Reports : Shown <= Len(r)
    /\ NakLimit \in Nat \ {0} /\ RetryLimit \in Nat \ {0}

VARIABLES
    queue, devToggle,   \* the keyboard: reports it holds, toggle of the first
    chipToggle,         \* the MAX3421E: toggle it expects of the next data
    fifo,               \* RCVFIFO: empty, or the one report that RCVDAVIRQ tells of
    hrsl,               \* result of the last transaction, "busy" during one
    pc,                 \* where XferDispatchPkt is: "idle", "wait"
    nak_count, retry_count,
    rcvToggle,          \* devtable[addr].epinfo[1].rcvToggle
    keycode             \* the keycode register

device == <<queue, devToggle>>
chip == <<chipToggle, fifo, hrsl>>
host == <<pc, nak_count, retry_count, rcvToggle>>
vars == <<device, chip, host, keycode>>

Toggle == {0, 1}
Results == {"SUCCESS", "NAK", "TIMEOUT", "TOGERR", "CRCERR"}

TypeOK ==
    /\ queue \in Seq(Reports) /\ Len(queue) <= MaxPending
    /\ devToggle \in Toggle /\ chipToggle \in Toggle /\ rcvToggle \in Toggle
    /\ fifo \in {<<>>} \cup {<<r>> : r \in Reports}
    /\ hrsl \in Results \cup {"busy"}
    /\ pc \in {"idle", "wait"}
    /\ nak_count \in 0 .. NakLimit - 1 /\ retry_count \in 0 .. RetryLimit - 1
    /\ keycode \in Seq(Nat)

(* HID_init has cleared the toggle, SET_CONFIGURATION the keyboard's.       *)
Init ==
    /\ queue = <<>> /\ devToggle = 0 /\ rcvToggle = 0
    /\ chipToggle \in Toggle /\ fifo = <<>> /\ hrsl = "SUCCESS"
    /\ pc = "idle" /\ nak_count = 0 /\ retry_count = 0
    /\ keycode = <<>>

-----------------------------------------------------------------------------
(* The keyboard and the wire.                                              *)

Type(r) ==
    /\ Len(queue) < MaxPending
    /\ queue' = Append(queue, r)
    /\ UNCHANGED <<devToggle, chip, host, keycode>>

(* The keyboard does not hear the token, or has nothing to send.           *)
NoData(result) ==
    /\ pc = "wait" /\ hrsl = "busy"
    /\ \/ result = "TIMEOUT"
       \/ result = "NAK" /\ queue = <<>>
       \/ result = "CRCERR" /\ queue # <<>>
    /\ hrsl' = result
    /\ UNCHANGED <<device, chipToggle, fifo, host, keycode>>

Acknowledged ==
    /\ queue' = Tail(queue) /\ devToggle' = 1 - devToggle

(* The chip acknowledges what it receives; data with the wrong toggle it   *)
(* has had before, and drops.  The acknowledgement may be lost.            *)
Data(acked) ==
    /\ pc = "wait" /\ hrsl = "busy" /\ queue # <<>>
    /\ \/ /\ devToggle = chipToggle
          /\ fifo' = <<Head(queue)>> /\ chipToggle' = 1 - chipToggle
          /\ hrsl' = "SUCCESS"
       \/ /\ devToggle # chipToggle
          /\ hrsl' = "TOGERR"
          /\ UNCHANGED <<fifo, chipToggle>>
    /\ IF acked THEN Acknowledged ELSE UNCHANGED device
    /\ UNCHANGED <<host, keycode>>

(* Transfers on other endpoints leave their own toggle in the chip.        *)
OtherTransfer ==
    /\ pc = "idle"
    /\ chipToggle' \in Toggle
    /\ UNCHANGED <<device, fifo, hrsl, host, keycode>>

-----------------------------------------------------------------------------
(* The firmware.                                                           *)

(* Faults for the mutants: the toggle is not saved; a NAK is not counted.  *)
SaveToggleNot == UNCHANGED rcvToggle
Recount ==
    /\ retry_count + 1 # RetryLimit
    /\ retry_count' = retry_count + 1 /\ UNCHANGED nak_count
AgainUncounted(result) ==
    \/ result = "NAK" /\ UNCHANGED <<nak_count, retry_count>>
    \/ result = "TIMEOUT" /\ Recount

SaveToggle == rcvToggle' = chipToggle
LoadToggle == chipToggle' = rcvToggle

(* NAKs and bus timeouts are counted apart; either limit ends the dispatch. *)
Again(result) ==
    \/ /\ result = "NAK" /\ nak_count + 1 # NakLimit
       /\ nak_count' = nak_count + 1 /\ UNCHANGED retry_count
    \/ result = "TIMEOUT" /\ Recount

LastTry(result) ==
    \/ result = "NAK" /\ nak_count + 1 = NakLimit
    \/ result = "TIMEOUT" /\ retry_count + 1 = RetryLimit
    \/ result \notin {"NAK", "TIMEOUT"}

(* main.c:172-179: the first four codes of the report.                     *)
Pack(r) == SubSeq(r, 1, Shown)

(* kbdPoll: load the toggle, launch the first IN.                          *)
Poll ==
    /\ pc = "idle"
    /\ LoadToggle
    /\ pc' = "wait" /\ hrsl' = "busy"
    /\ nak_count' = 0 /\ retry_count' = 0
    /\ UNCHANGED <<device, fifo, rcvToggle, keycode>>

(* HXFRDNIRQ, and a result that has XferDispatchPkt launch again.          *)
Relaunch ==
    /\ pc = "wait" /\ hrsl # "busy"
    /\ Again(hrsl)
    /\ hrsl' = "busy"
    /\ UNCHANGED <<device, chipToggle, fifo, pc, rcvToggle, keycode>>

(* A result other than success is returned, and main goes on polling.      *)
Fail ==
    /\ pc = "wait" /\ hrsl # "busy"
    /\ LastTry(hrsl) /\ hrsl # "SUCCESS"
    /\ pc' = "idle"
    /\ UNCHANGED <<device, chip, nak_count, retry_count, rcvToggle, keycode>>

(* RCVDAVIRQ is there: the report is read, the buffer freed, the toggle    *)
(* kept, and the codes go to the register.                                 *)
Receive ==
    /\ pc = "wait" /\ hrsl = "SUCCESS" /\ fifo # <<>>
    /\ keycode' = Pack(fifo[1]) /\ fifo' = <<>>
    /\ SaveToggle
    /\ pc' = "idle"
    /\ UNCHANGED <<device, chipToggle, hrsl, nak_count, retry_count>>

Wire ==
    \/ \E result \in Results : NoData(result)
    \/ \E acked \in BOOLEAN : Data(acked)

Firmware == Poll \/ Relaunch \/ Fail \/ Receive

Next ==
    \/ \E r \in Reports : Type(r)
    \/ Wire \/ OtherTransfer \/ Firmware

(* The main loop goes round, the chip ends its transactions, and a wire on *)
(* which transactions are tried for ever lets some of them through whole.  *)
Spec == /\ Init /\ [][Next]_vars
        /\ WF_vars(Firmware) /\ WF_vars(Wire) /\ SF_vars(Data(TRUE))

-----------------------------------------------------------------------------

(* What the firmware expects next: while it waits, the chip knows.         *)
Expected == IF pc = "wait" THEN chipToggle ELSE rcvToggle

(* The first report of the keyboard has been received already when its     *)
(* acknowledgement was lost.                                               *)
Unseen == IF devToggle = Expected THEN queue ELSE Tail(queue)

(* A report in the chip is the one the firmware is about to read.          *)
ToggleInv ==
    /\ hrsl = "busy" => pc # "idle"
    /\ devToggle # Expected => queue # <<>>
    /\ fifo # <<>> <=> pc = "wait" /\ hrsl = "SUCCESS"
    /\ fifo # <<>> => rcvToggle # chipToggle
    /\ pc = "wait" /\ fifo = <<>> => rcvToggle = chipToggle

(* Every report reaches the register once and in order, though any token,  *)
(* data or acknowledgement may be lost (transfer.c:198, 218-223).          *)
Stream == INSTANCE ReportStream WITH
    pending <- fifo \o Unseen, up <- TRUE, MaxPending <- MaxPending + 1

(* A dispatch comes back to the main loop whatever mixture of NAKs and     *)
(* timeouts it meets (transfer.c:165-182), so unplugging is noticed.       *)
PollReturns == (pc = "wait") ~> (pc = "idle")
=============================================================================
