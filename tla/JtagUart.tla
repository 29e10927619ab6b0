------------------------------ MODULE JtagUart -------------------------------
(***************************************************************************)
(* The console of the USB firmware: the interrupt driven JTAG UART driver  *)
(* (drivers/src/altera_avalon_jtag_uart_init.c, _write.c, _read.c,         *)
(* _ioctl.c) under the printf calls of main.c, with the UART itself        *)
(* (NIOSIIe_jtag_uart_0.v).  The main program and the interrupt routine    *)
(* share two ring buffers without a lock; an alarm tells once a second     *)
(* whether a debugger has visited the UART since.                          *)
(*                                                                         *)
(* One action is one stretch of code between two looks at something        *)
(* another party may change.  The main program stands still while the      *)
(* interrupt routine runs; the UART and the debugger behind it do not.     *)
(* The loops that wait look at host_inactive each time round, although it  *)
(* is not volatile: the firmware is built without optimisation (-O0).      *)
(* Characters are numbered, modulo K, in the order they are sent.          *)
(***************************************************************************)
EXTENDS Integers, Sequences

CONSTANTS
    BufLen,           \* ALTERA_AVALON_JTAG_UART_BUF_LEN (2048)
    WDepth,         \* JTAG_UART_0_WRITE_DEPTH (64)
    WThreshold,     \* JTAG_UART_0_WRITE_THRESHOLD (8)
    RDepth,         \* JTAG_UART_0_READ_DEPTH (64)
    RThreshold,     \* JTAG_UART_0_READ_THRESHOLD (8)
    DefaultTimeout, \* ALTERA_AVALON_JTAG_UART_DEFAULT_TIMEOUT (10)
    IntMax,         \* INT_MAX
    K,              \* numbers of the characters
    MaxCount,       \* bound: the longest write or read
    Timeouts,       \* arguments of TIOCSTIMEOUT
    Programs        \* the sets of driver calls that a program may make

Chars == 0 .. K - 1
Index == 0 .. BufLen - 1

ASSUME SizeAssumption ==
    /\ BufLen \in Nat /\ BufLen >= 2
    /\ WDepth \in Nat /\ WThreshold \in Nat /\ WThreshold < WDepth
    /\ RDepth \in Nat /\ RThreshold \in Nat /\ RThreshold < RDepth
    /\ K \in Nat /\ K >= 1 /\ MaxCount \in Nat

ASSUME CallAssumption ==
    /\ IntMax \in Nat /\ DefaultTimeout \in 2 .. IntMax - 1 /\ Timeouts \subseteq Int
    /\ Programs \subseteq SUBSET {"write", "read", "close"}

VARIABLES
    irq_enable,             \* the enables of the control register: RE, WE
    tx_buf, tx_in, tx_out,  \* transmit ring: written at in, sent from out
    rx_buf, rx_in, rx_out,  \* receive ring: filled at in, read from out
    host_inactive, timeout,
    wfifo, rfifo,           \* the UART: two FIFOs,
    AC, pause_irq,          \* activity since last cleared, a pause in it
    program,                \* the calls it makes
    pc, flags,              \* the main program: where it is, O_NONBLOCK or {}
    in, out, n,             \* its snapshots of a ring, and what it copies
    count, moved,           \* characters still to move, and those a read has moved
    copied,                 \* what memcpy has taken out of rx_buf
    irq,                    \* where the interrupt routine is, "off" if nowhere
    wi, space, more,        \* its snapshots: WI, WSPACE, RAVAIL
    written, typed          \* history: the next numbers to be written, typed

rings == <<tx_buf, tx_in, tx_out, rx_buf, rx_in, rx_out>>
uart == <<wfifo, rfifo, AC, pause_irq>>
call == <<program, pc, flags, in, out, n, count, moved, copied>>
isr == <<irq, wi, space, more>>
clock == <<host_inactive, timeout>>
history == <<written, typed>>
vars == <<irq_enable, rings, clock, uart, call, isr, history>>

WritePcs == {"w_look", "w_copy", "w_publish", "w_kick", "w_spin", "w_check"}
ReadPcs == {"r_look", "r_copy", "r_publish", "r_spin", "r_check", "r_enable"}

TypeOK ==
    /\ irq_enable \subseteq {"RE", "WE"}
    /\ tx_buf \in [Index -> Chars] /\ rx_buf \in [Index -> Chars]
    /\ {tx_in, tx_out, rx_in, rx_out, in, out} \subseteq Index
    /\ host_inactive \in 0 .. IntMax - 2 /\ timeout \in 2 .. IntMax - 1
    /\ wfifo \in Seq(Chars) /\ rfifo \in Seq(Chars)
    /\ AC \in BOOLEAN /\ pause_irq \in BOOLEAN
    /\ program \in Programs
    /\ pc \in WritePcs \cup ReadPcs \cup {"idle", "close"}
    /\ flags \subseteq {"O_NONBLOCK"}
    /\ n \in 0 .. MaxCount /\ count \in 0 .. MaxCount /\ moved \in 0 .. MaxCount
    /\ copied \in Seq(Chars)
    /\ irq \in {"off", "look", "receive", "send"}
    /\ wi \in BOOLEAN /\ more \in BOOLEAN /\ space \in 0 .. WDepth
    /\ written \in Chars /\ typed \in Chars

(* altera_avalon_jtag_uart_init, with the alarm granted.                   *)
Init ==
    /\ irq_enable = {"RE"}
    /\ tx_buf = [i \in Index |-> 0] /\ tx_in = 0 /\ tx_out = 0
    /\ rx_buf = [i \in Index |-> 0] /\ rx_in = 0 /\ rx_out = 0
    /\ host_inactive = 0 /\ timeout = DefaultTimeout
    /\ wfifo = <<>> /\ rfifo = <<>> /\ AC \in BOOLEAN /\ pause_irq = FALSE
    /\ program \in Programs
    /\ pc = "idle" /\ flags = {} /\ in = 0 /\ out = 0 /\ n = 0
    /\ count = 0 /\ moved = 0 /\ copied = <<>>
    /\ irq = "off" /\ wi = FALSE /\ space = 0 /\ more = FALSE
    /\ written = 0 /\ typed = 0

Wrap(i) == i % BufLen
Smaller(a, b) == IF a < b THEN a ELSE b
Gone == host_inactive >= timeout
Numbered(c, k) == [i \in 1 .. k |-> (c + i - 1) % K]

(* memcpy into a ring at i, and out of one.                                *)
CopyIn(buf, i, s) ==
    [j \in Index |-> IF j \in i .. i + Len(s) - 1 THEN s[j - i + 1] ELSE buf[j]]
CopyOut(buf, i, k) == [j \in 1 .. k |-> buf[i + j - 1]]

-----------------------------------------------------------------------------
(* The main program.  It runs when the interrupt routine does not; locals  *)
(* that are no longer needed are cleared.                                  *)
Running(at) == irq = "off" /\ pc = at
Goto(next) == pc' = next /\ UNCHANGED <<program, clock, uart, isr, typed>>
TxKept == UNCHANGED <<tx_buf, tx_in, tx_out, written>>
RxKept == UNCHANGED <<rx_buf, rx_in, rx_out, copied>>
CallKept == UNCHANGED <<flags, count, moved>>

Call(name, first) ==
    /\ Running("idle") /\ name \in program
    /\ count' \in (IF name = "close" THEN {0} ELSE 1 .. MaxCount) /\ flags' \in SUBSET {"O_NONBLOCK"}
    /\ Goto(first)
    /\ UNCHANGED <<irq_enable, in, out, n, moved>> /\ TxKept /\ RxKept

Return ==
    /\ flags' = {} /\ count' = 0 /\ moved' = 0 /\ in' = 0 /\ out' = 0 /\ n' = 0
    /\ Goto("idle")
Wait(next) == Goto(next) /\ UNCHANGED <<in, out, n>> /\ CallKept

(* Faults for the mutants: the slot that tells full from empty is filled;  *)
(* the interrupt is turned on only when the ring is full; a write waits    *)
(* for a host that is not there; the room in the FIFO is not counted down. *)
WriteRoomAll(i, o) == IF i < o THEN o - i ELSE BufLen - i

WriteKickIfFull ==
    /\ Running("w_kick")
    /\ irq_enable' = IF count > 0 THEN irq_enable \cup {"WE"} ELSE irq_enable
    /\ IF count > 0 /\ flags = {} THEN Wait("w_spin") ELSE Return
    /\ TxKept /\ RxKept

WriteSpinForever ==
    /\ Running("w_spin")
    /\ out # tx_out
    /\ Wait("w_check")
    /\ UNCHANGED irq_enable /\ TxKept /\ RxKept

IsrSendUncounted ==
    /\ irq = "send" /\ space > 0 /\ tx_out # tx_in
    /\ wfifo' = Append(wfifo, tx_buf[tx_out])
    /\ tx_out' = Wrap(tx_out + 1)
    /\ UNCHANGED <<irq_enable, tx_buf, tx_in, rx_buf, rx_in, rx_out, irq, wi, more, rfifo>>
    /\ UNCHANGED <<space, pause_irq, clock, AC, call, history>>

(* The room in one piece, without the slot that tells full from empty.     *)
WriteRoom(i, o) ==
    IF i < o THEN o - 1 - i ELSE IF o > 0 THEN BufLen - i ELSE BufLen - 1 - i

WriteLook ==
    /\ Running("w_look")
    /\ n' = Smaller(WriteRoom(tx_in, tx_out), count)
    /\ in' = IF n' = 0 THEN 0 ELSE tx_in
    /\ out' = IF n' = 0 THEN tx_out ELSE 0
    /\ Goto(IF n' = 0 THEN "w_kick" ELSE "w_copy")
    /\ UNCHANGED irq_enable /\ CallKept /\ TxKept /\ RxKept

WriteCopy ==
    /\ Running("w_copy")
    /\ tx_buf' = CopyIn(tx_buf, in, Numbered(written, n))
    /\ Goto("w_publish")
    /\ UNCHANGED <<irq_enable, tx_in, tx_out, in, out, n, written>> /\ CallKept /\ RxKept

WritePublish ==
    /\ Running("w_publish")
    /\ tx_in' = Wrap(in + n)
    /\ count' = count - n /\ written' = (written + n) % K
    /\ in' = 0 /\ n' = 0
    /\ Goto(IF count' = 0 THEN "w_kick" ELSE "w_look")
    /\ UNCHANGED <<irq_enable, tx_buf, tx_out, out, flags, moved>> /\ RxKept

(* Interrupts are off around the two statements.                           *)
WriteKick ==
    /\ Running("w_kick")
    /\ irq_enable' = irq_enable \cup {"WE"}
    /\ IF count > 0 /\ flags = {} THEN Wait("w_spin") ELSE Return
    /\ TxKept /\ RxKept

(* Until the interrupt routine has removed some data, or nobody is there.  *)
WriteSpin ==
    /\ Running("w_spin")
    /\ out # tx_out \/ Gone
    /\ Wait("w_check")
    /\ UNCHANGED irq_enable /\ TxKept /\ RxKept

(* host_inactive is looked at again, and any value but 0 ends the call.    *)
WriteCheck ==
    /\ Running("w_check")
    /\ IF host_inactive # 0 THEN Return ELSE Wait("w_look")
    /\ UNCHANGED irq_enable /\ TxKept /\ RxKept

ReadRoom(i, o) == IF i >= o THEN i - o ELSE BufLen - o

(* A call that finds nothing, or nothing more, ends if it has moved some   *)
(* characters or may not wait.                                             *)
ReadLook ==
    /\ Running("r_look")
    /\ LET k == Smaller(ReadRoom(rx_in, rx_out), count)
       IN \/ /\ k > 0
             /\ n' = k /\ in' = rx_in /\ out' = rx_out
             /\ Goto("r_copy") /\ CallKept
          \/ /\ k = 0 /\ (moved > 0 \/ flags = {})
             /\ n' = 0 /\ in' = rx_in /\ out' = 0
             /\ Goto(IF moved > 0 THEN "r_enable" ELSE "r_spin") /\ CallKept
          \/ /\ k = 0 /\ moved = 0 /\ flags # {}
             /\ Return
    /\ UNCHANGED irq_enable /\ TxKept /\ RxKept

ReadCopy ==
    /\ Running("r_copy")
    /\ copied' = CopyOut(rx_buf, out, n)
    /\ Goto("r_publish")
    /\ UNCHANGED <<irq_enable, rx_buf, rx_in, rx_out, in, out, n>> /\ CallKept /\ TxKept

ReadPublish ==
    /\ Running("r_publish")
    /\ rx_out' = Wrap(out + n)
    /\ count' = count - n /\ moved' = moved + n
    /\ out' = 0 /\ n' = 0 /\ copied' = <<>>
    /\ Goto(IF count' = 0 THEN "r_enable" ELSE "r_look")
    /\ UNCHANGED <<irq_enable, rx_buf, rx_in, in, flags>> /\ TxKept

ReadSpin ==
    /\ Running("r_spin")
    /\ in # rx_in \/ Gone
    /\ Wait("r_check")
    /\ UNCHANGED irq_enable /\ TxKept /\ RxKept

ReadCheck ==
    /\ Running("r_check")
    /\ IF in = rx_in THEN Return ELSE Wait("r_look")
    /\ UNCHANGED irq_enable /\ TxKept /\ RxKept

(* Some data has been read, so there is space in the ring.                 *)
ReadEnable ==
    /\ Running("r_enable")
    /\ irq_enable' = irq_enable \cup {"RE"}
    /\ Return
    /\ TxKept /\ RxKept

(* close waits for the transmit ring to drain.                             *)
Close ==
    /\ Running("close")
    /\ tx_out = tx_in \/ Gone \/ flags # {}
    /\ Return
    /\ UNCHANGED irq_enable /\ TxKept /\ RxKept

(* ioctl(TIOCSTIMEOUT): anything that is not a proper timeout means never. *)
SetTimeout(t) ==
    /\ Running("idle")
    /\ timeout' = IF 2 <= t /\ t < IntMax THEN t ELSE IntMax - 1
    /\ UNCHANGED <<irq_enable, rings, host_inactive, uart, call, isr, history>>

MainStep ==
    \/ WriteLook \/ WriteCopy \/ WritePublish \/ WriteKick \/ WriteSpin \/ WriteCheck
    \/ ReadLook \/ ReadCopy \/ ReadPublish \/ ReadSpin \/ ReadCheck \/ ReadEnable
    \/ Close

-----------------------------------------------------------------------------
(* The interrupt routine.                                                  *)

(* A UART that holds characters asks for the routine when its FIFO is      *)
(* nearly full, or the debugger has paused since the last was read.        *)
RI == "RE" \in irq_enable /\ (pause_irq \/ RDepth - Len(rfifo) <= RThreshold)
WI == "WE" \in irq_enable /\ Len(wfifo) <= WThreshold

IsrKept == UNCHANGED <<clock, AC, call, history>>

Interrupt ==
    /\ irq = "off" /\ (RI \/ WI)
    /\ irq' = "look"
    /\ UNCHANGED <<irq_enable, rings, wi, space, more, wfifo, rfifo, pause_irq>>
    /\ IsrKept

(* The control register: what asks for service, and the room in the FIFO.  *)
IsrLook ==
    /\ irq = "look"
    /\ irq' = IF RI THEN "receive" ELSE IF WI THEN "send" ELSE "off"
    /\ wi' = WI /\ more' = RI
    /\ space' = IF WI THEN WDepth - Len(wfifo) ELSE 0
    /\ UNCHANGED <<irq_enable, rings, wfifo, rfifo, pause_irq>> /\ IsrKept

RxFull == Wrap(rx_in + 1) = rx_out

(* One character from the FIFO, and whether it holds more.                 *)
IsrReceive ==
    /\ irq = "receive" /\ ~ RxFull /\ rfifo # <<>>
    /\ rx_buf' = [rx_buf EXCEPT ![rx_in] = Head(rfifo)]
    /\ rx_in' = Wrap(rx_in + 1)
    /\ rfifo' = Tail(rfifo) /\ more' = (Tail(rfifo) # <<>>) /\ pause_irq' = FALSE
    /\ UNCHANGED <<irq_enable, tx_buf, tx_in, tx_out, rx_out, irq, wi, space, wfifo>>
    /\ IsrKept

(* The ring is full, or a read of the FIFO has found nothing.  If there    *)
(* was more to come, receive interrupts go off.                            *)
IsrReceived ==
    /\ irq = "receive" /\ (RxFull \/ rfifo = <<>>)
    /\ irq_enable' = IF RxFull /\ more THEN irq_enable \ {"RE"} ELSE irq_enable
    /\ more' = FALSE /\ pause_irq' = (pause_irq /\ RxFull)
    /\ irq' = IF wi THEN "send" ELSE "look"
    /\ UNCHANGED <<rings, wi, space, wfifo, rfifo>> /\ IsrKept

(* What the FIFO had room for when the control register was read.          *)
IsrSend ==
    /\ irq = "send" /\ space > 0 /\ tx_out # tx_in
    /\ wfifo' = Append(wfifo, tx_buf[tx_out])
    /\ tx_out' = Wrap(tx_out + 1) /\ space' = space - 1
    /\ UNCHANGED <<irq_enable, tx_buf, tx_in, rx_buf, rx_in, rx_out, irq, wi, more, rfifo>>
    /\ UNCHANGED pause_irq /\ IsrKept

(* Room is left: there is nothing more to send.                            *)
IsrSent ==
    /\ irq = "send" /\ (space = 0 \/ tx_out = tx_in)
    /\ irq_enable' = IF space > 0 THEN irq_enable \ {"WE"} ELSE irq_enable
    /\ space' = 0 /\ wi' = FALSE
    /\ irq' = "look"
    /\ UNCHANGED <<rings, more, wfifo, rfifo, pause_irq>> /\ IsrKept

Isr == Interrupt \/ IsrLook \/ IsrReceive \/ IsrReceived \/ IsrSend \/ IsrSent

-----------------------------------------------------------------------------
(* The alarm, in the timer's interrupt, which waits for this one's end.    *)
Timeout ==
    /\ irq = "off"
    /\ AC' = FALSE
    /\ host_inactive' = IF AC THEN 0
                        ELSE IF host_inactive < IntMax - 2 THEN host_inactive + 1
                        ELSE host_inactive
    /\ UNCHANGED <<irq_enable, rings, timeout, wfifo, rfifo, pause_irq, call, isr, history>>

(* A debugger visits the UART: it takes what has been sent, leaves k       *)
(* characters typed since, and may pause.  Only typing and pausing count   *)
(* as activity.                                                            *)
Visit(k, pauses) ==
    /\ Len(rfifo) + k <= RDepth
    /\ wfifo' = <<>> /\ AC' = (AC \/ k > 0 \/ pauses)
    /\ rfifo' = rfifo \o Numbered(typed, k)
    /\ pause_irq' = (pause_irq \/ (pauses /\ rfifo' # <<>>))
    /\ typed' = (typed + k) % K
    /\ UNCHANGED <<irq_enable, rings, clock, call, isr, written>>

Next ==
    \/ Call("write", "w_look") \/ Call("read", "r_look") \/ Call("close", "close")
    \/ \E t \in Timeouts : SetTimeout(t)
    \/ MainStep \/ Isr \/ Timeout
    \/ \E k \in 0 .. RDepth, pauses \in BOOLEAN : Visit(k, pauses)

(* The processor runs and the timer ticks; the debugger owes nothing.      *)
Spec == Init /\ [][Next]_vars /\ WF_vars(MainStep) /\ WF_vars(Isr) /\ WF_vars(Timeout)

-----------------------------------------------------------------------------
(* What is in a ring, oldest first.                                        *)
Used(i, o) == IF i >= o THEN i - o ELSE BufLen - o + i
Content(buf, i, o) == [j \in 1 .. Used(i, o) |-> buf[Wrap(o + j - 1)]]

(* No wake-up is lost: characters in the transmit ring keep the transmit   *)
(* interrupt on, unless their writer is about to turn it on; receive       *)
(* interrupts are off only while the ring is full, unless its reader is    *)
(* about to turn them on (init.c:190-198, 219-226; write.c:136-139,        *)
(* read.c:188-195).                                                        *)
Wakeups ==
    /\ tx_in # tx_out /\ "WE" \notin irq_enable =>
          pc \in {"w_look", "w_copy", "w_publish", "w_kick"}
    /\ "RE" \notin irq_enable =>
          \/ RxFull
          \/ moved > 0 /\ pc \in {"r_look", "r_copy", "r_publish", "r_enable"}

(* The routine sends by the room it saw when it read the control register: *)
(* never more than the FIFO holds (init.c:205-217).                        *)
NoOverrun == Len(wfifo) + (IF irq = "send" THEN space ELSE 0) <= WDepth

(* Both directions are streams, over the ring and the FIFO together,       *)
(* though the indices of the rings are read and written without a lock.    *)
Sent == INSTANCE ByteStream WITH
    Capacity <- BufLen - 1 + WDepth, next <- written,
    queue <- wfifo \o Content(tx_buf, tx_in, tx_out)

(* What memcpy has taken and rx_out still covers is what the reader got.   *)
Unread ==
    LET ring == Content(rx_buf, rx_in, rx_out)
    IN copied \o SubSeq(ring, Len(copied) + 1, Len(ring))

Received == INSTANCE ByteStream WITH
    Capacity <- BufLen - 1 + RDepth, next <- typed,
    queue <- Unread \o rfifo

ImplementsStreams == Sent!Spec /\ Received!Spec

(* Why: a piece that is copied into the ring goes to free slots behind the *)
(* last character, and one that is copied out of it stays until rx_out has *)
(* passed it; the other side can only add to the room there is.            *)
StreamInv ==
    /\ pc \in {"w_copy", "w_publish"} =>
          in = tx_in /\ Used(tx_in, tx_out) + n <= BufLen - 1
    /\ pc = "w_publish" => \A j \in 1 .. n : tx_buf[in + j - 1] = (written + j - 1) % K
    /\ pc \in {"r_copy", "r_publish"} => out = rx_out /\ n <= Used(rx_in, rx_out)
    /\ copied = IF pc = "r_publish" THEN CopyOut(rx_buf, out, n) ELSE <<>>
    /\ Len(rfifo) <= RDepth

(* With a timeout set, every call comes back: write and close whether or  *)
(* not anybody visits the UART, ever or now and then; read unless the      *)
(* visitor stays and types nothing.  The main loop's printf stops the      *)
(* keyboard for a while at most (main.c:148), and a character that nobody  *)
(* reads does not keep the interrupt routine busy for ever.                *)
CallsReturn ==
    (pc # "idle" /\ timeout < IntMax - 1) ~> (pc = "idle" \/ (pc \in ReadPcs /\ AC))
=============================================================================
