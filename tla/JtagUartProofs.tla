--------------------------- MODULE JtagUartProofs ----------------------------
(***************************************************************************)
(* Whatever the sizes of the rings and the FIFOs, no wake-up of the JTAG   *)
(* UART driver is lost, its interrupt routine never overruns the UART, and *)
(* what goes in at one end of either direction comes out at the other.     *)
(***************************************************************************)
EXTENDS JtagUart, SequenceTheorems, TLAPS

(* What the main program has in hand: a piece of the ring that does not    *)
(* pass its end, and a call whose parts add up.                            *)
CallInv ==
    /\ moved + count <= MaxCount
    /\ pc = "idle" => moved = 0
    /\ pc \in {"w_copy", "w_publish"} => n >= 1 /\ n <= count /\ in + n <= BufLen
    /\ pc \in {"r_copy", "r_publish"} => n >= 1 /\ n <= count /\ out + n <= BufLen

(* What the interrupt routine knows still holds: interrupts it has been    *)
(* called for are on, and the FIFO has the room that it saw.               *)
IsrInv ==
    /\ Len(wfifo) <= WDepth
    /\ irq = "receive" => "RE" \in irq_enable
    /\ irq = "send" \/ (irq = "receive" /\ wi) =>
          "WE" \in irq_enable /\ Len(wfifo) + space <= WDepth

(* Types of the variables the argument reads; the contents of the buffers  *)
(* and the history are not among them.                                     *)
Types ==
    /\ irq_enable \subseteq {"RE", "WE"}
    /\ tx_in \in Index /\ tx_out \in Index /\ rx_in \in Index /\ rx_out \in Index
    /\ in \in Index /\ out \in Index
    /\ n \in 0 .. MaxCount /\ count \in 0 .. MaxCount /\ moved \in 0 .. MaxCount
    /\ wi \in BOOLEAN /\ space \in 0 .. WDepth

Buffers ==
    /\ tx_buf \in [Index -> Chars] /\ rx_buf \in [Index -> Chars]
    /\ wfifo \in Seq(Chars) /\ rfifo \in Seq(Chars) /\ copied \in Seq(Chars)
    /\ written \in Chars /\ typed \in Chars

IInv == Types /\ Buffers /\ CallInv /\ IsrInv /\ Wakeups

(* The next slot of a ring is a slot.                                      *)
LEMMA WrapType == \A i \in Nat : Wrap(i) \in Index
  BY SizeAssumption DEF Wrap, Index

(* So is the next number a number.                                         *)
LEMMA NextChar == \A i \in Int : i % K \in Chars
  BY SizeAssumption DEF Chars

(* The driver starts with empty rings and nobody waiting.                  *)
LEMMA InitInv == Init => IInv
<1> SUFFICES ASSUME Init PROVE IInv
  OBVIOUS
<1>1. Types
  <2>1. 0 \in Index /\ 0 \in 0 .. MaxCount /\ 0 \in 0 .. WDepth
    BY SizeAssumption DEF Index
  <2>2. irq_enable \subseteq {"RE", "WE"}
    BY DEF Init
  <2>3. wi \in BOOLEAN
    BY DEF Init
  <2> QED
    BY <2>1, <2>2, <2>3 DEF Init, Types
<1>a. CallInv
  BY SizeAssumption DEF Init, CallInv
<1>b. IsrInv
  BY SizeAssumption DEF Init, IsrInv
<1>c. Wakeups
  BY DEF Init, Wakeups
<1>2. Buffers
  BY SizeAssumption DEF Init, Buffers, Index, Chars
<1> QED
  BY <1>1, <1>2, <1>a, <1>b, <1>c DEF IInv

(* A write looks for room, and takes no more than is there.                *)
LEMMA WriteLookInv == IInv /\ WriteLook => IInv'
<1> SUFFICES ASSUME IInv, WriteLook PROVE IInv'
  OBVIOUS
<1> USE SizeAssumption DEF IInv, WriteLook, Running, Goto, TxKept, RxKept, CallKept, clock, uart, isr
<1>1. WriteRoom(tx_in, tx_out) \in Nat /\ tx_in + WriteRoom(tx_in, tx_out) <= BufLen
  BY DEF Types, WriteRoom, Index
<1>2. n' \in 0 .. count /\ n' <= WriteRoom(tx_in, tx_out)
  BY <1>1 DEF Types, Smaller
<1>3. Types'
  <2>1. 0 \in Index /\ n' \in 0 .. MaxCount
    BY <1>2 DEF Types, Index
  <2> QED
    BY <2>1 DEF Types
<1>4. Buffers'
  BY DEF Buffers
<1>5. CallInv'
  BY <1>1, <1>2 DEF CallInv, Types, Index
<1>6. IsrInv' /\ Wakeups'
  BY DEF IsrInv, Wakeups, RxFull
<1> QED
  BY <1>3, <1>4, <1>5, <1>6

(* The characters go where no reader of the ring looks.                    *)
LEMMA WriteCopyInv == IInv /\ WriteCopy => IInv'
<1> SUFFICES ASSUME IInv, WriteCopy PROVE IInv'
  OBVIOUS
<1> USE SizeAssumption DEF IInv, WriteCopy, Running, Goto, TxKept, RxKept, CallKept, clock, uart, isr
<1>1. Types'
  BY DEF Types
<1>2. Buffers'
  <2>1. tx_buf' \in [Index -> Chars]
    <3>1. \A j \in 1 .. n : (written + j - 1) % K \in Chars
      <4>1. written \in Int
        BY DEF Buffers, Chars
      <4>2. \A j \in 1 .. n : written + j - 1 \in Int
        BY <4>1
      <4> QED
        BY <4>2, NextChar
    <3>2. \A j \in Index : j \in in .. in + n - 1 => j - in + 1 \in 1 .. n
      BY DEF Types, Index
    <3>3. Len(Numbered(written, n)) = n
      BY DEF Numbered, Types
    <3> QED
      BY <3>1, <3>2, <3>3 DEF CopyIn, Numbered, Buffers
  <2> QED
    BY <2>1 DEF Buffers
<1>3. CallInv'
  BY DEF CallInv
<1>4. IsrInv' /\ Wakeups'
  BY DEF IsrInv, Wakeups, RxFull
<1> QED
  BY <1>1, <1>2, <1>3, <1>4

(* Published, they are the interrupt routine's, which may not be awake.    *)
LEMMA WritePublishInv == IInv /\ WritePublish => IInv'
<1> SUFFICES ASSUME IInv, WritePublish PROVE IInv'
  OBVIOUS
<1> USE SizeAssumption DEF IInv, WritePublish, Running, Goto, TxKept, RxKept, CallKept, clock, uart, isr
<1>a. n >= 1 /\ n <= count /\ in + n \in Nat
  BY DEF CallInv, Types, Index
<1>b. tx_in' \in Index /\ 0 \in Index
  BY <1>a, WrapType DEF Index
<1>1. Types'
  <2>1. count' \in 0 .. MaxCount /\ moved' \in 0 .. MaxCount /\ n' \in 0 .. MaxCount
    BY <1>a DEF Types, CallInv
  <2> QED
    BY <2>1, <1>b DEF Types
<1>2. Buffers'
  <2>1. written + n \in Int
    BY DEF Buffers, Chars, Types
  <2>2. written' \in Chars
    BY <2>1, NextChar
  <2> QED
    BY <2>2 DEF Buffers
<1>3. CallInv'
  BY <1>a DEF CallInv, Types
<1>4. IsrInv' /\ Wakeups'
  BY DEF IsrInv, Wakeups, RxFull
<1> QED
  BY <1>1, <1>2, <1>3, <1>4

(* A step that waits or returns leaves on, or turns on, every interrupt    *)
(* that it was to turn on before the call ended.                           *)
Rouses ==
    /\ irq_enable \subseteq irq_enable' /\ irq_enable' \subseteq {"RE", "WE"}
    /\ pc \in {"w_look", "w_copy", "w_publish", "w_kick"} => "WE" \in irq_enable'
    /\ pc \in {"r_look", "r_copy", "r_publish", "r_enable"} /\ moved > 0 => "RE" \in irq_enable'

(* A call ends with nothing of its own left in hand.                       *)
LEMMA ReturnInv == IInv /\ Return /\ Rouses /\ TxKept /\ RxKept => IInv'
<1> SUFFICES ASSUME IInv, Return, Rouses, TxKept, RxKept PROVE IInv'
  OBVIOUS
<1> USE SizeAssumption DEF IInv, Return, Rouses, Goto, TxKept, RxKept, clock, uart, isr
<1>1. Types'
  <2>1. 0 \in Index /\ 0 \in 0 .. MaxCount
    BY DEF Index
  <2> QED
    BY <2>1 DEF Types
<1>2. Buffers'
  BY DEF Buffers
<1>3. CallInv'
  BY DEF CallInv, Types
<1>4. IsrInv'
  BY DEF IsrInv
<1>5. Wakeups'
  BY DEF Wakeups, RxFull, Types
<1> QED
  BY <1>1, <1>2, <1>3, <1>4, <1>5

(* Waiting changes nothing.                                                *)
LEMMA WaitInv ==
    ASSUME NEW next \in {"w_spin", "w_check", "w_look", "r_check", "r_look"},
           IInv, Wait(next), Rouses, TxKept, RxKept
    PROVE  IInv'
<1> USE SizeAssumption DEF IInv, Wait, CallKept, Rouses, Goto, TxKept, RxKept, clock, uart, isr
<1>1. Types'
  BY DEF Types
<1>2. Buffers'
  BY DEF Buffers
<1>3. CallInv'
  BY DEF CallInv, Types
<1>4. IsrInv'
  BY DEF IsrInv
<1>5. Wakeups'
  BY DEF Wakeups, RxFull, Types
<1> QED
  BY <1>1, <1>2, <1>3, <1>4, <1>5

(* Now it is.                                                              *)
LEMMA WriteKickInv == IInv /\ WriteKick => IInv'
<1> SUFFICES ASSUME IInv, WriteKick PROVE IInv'
  OBVIOUS
<1>1. Rouses
  BY DEF IInv, Types, Rouses, WriteKick, Running
<1> QED
  BY <1>1, ReturnInv, WaitInv DEF WriteKick

(* A wait for the routine, or for a host, leaves everything as it is.      *)
LEMMA WriteSpinInv == IInv /\ WriteSpin => IInv'
<1> SUFFICES ASSUME IInv, WriteSpin PROVE IInv'
  OBVIOUS
<1>1. Rouses
  BY DEF IInv, Types, Rouses, WriteSpin, Running
<1> QED
  BY <1>1, WaitInv DEF WriteSpin

(* Nobody there: the call gives up.                                        *)
LEMMA WriteCheckInv == IInv /\ WriteCheck => IInv'
<1> SUFFICES ASSUME IInv, WriteCheck PROVE IInv'
  OBVIOUS
<1>1. Rouses
  BY DEF IInv, Types, Rouses, WriteCheck, Running
<1> QED
  BY <1>1, ReturnInv, WaitInv DEF WriteCheck

(* A read looks for characters, and takes no more than are there.          *)
LEMMA ReadLookInv == IInv /\ ReadLook => IInv'
<1> DEFINE k == Smaller(ReadRoom(rx_in, rx_out), count)
<1> SUFFICES ASSUME IInv, ReadLook PROVE IInv'
  OBVIOUS
<1>a. ReadRoom(rx_in, rx_out) \in Nat /\ rx_out + ReadRoom(rx_in, rx_out) <= BufLen
  BY SizeAssumption DEF IInv, Types, ReadRoom, Index
<1>b. k \in 0 .. count /\ k <= ReadRoom(rx_in, rx_out)
  BY <1>a DEF IInv, Types, Smaller
<1>c. 0 \in Index
  BY SizeAssumption DEF Index
<1>d. pc = "r_look" /\ irq_enable' = irq_enable /\ TxKept /\ RxKept
  BY DEF ReadLook, Running
<1>1. CASE k > 0 /\ n' = k /\ in' = rx_in /\ out' = rx_out /\ Goto("r_copy") /\ CallKept
  <2> USE <1>1, <1>b, <1>d DEF IInv, Goto, TxKept, RxKept, CallKept, clock, uart, isr
  <2> HIDE DEF k
  <2>1. Types'
    <3>1. n' \in 0 .. MaxCount
      BY SizeAssumption DEF Types
    <3> QED
      BY <3>1 DEF Types
  <2>2. Buffers'
    BY DEF Buffers
  <2>3. CallInv'
    <3>1. pc' = "r_copy" /\ n' >= 1 /\ n' <= count' /\ moved' + count' <= MaxCount
      BY DEF CallInv, Types
    <3>2. out' + n' <= BufLen
      BY <1>a, SizeAssumption DEF Types, Index
    <3> QED
      BY <3>1, <3>2 DEF CallInv
  <2>4. IsrInv' /\ Wakeups'
    BY DEF IsrInv, Wakeups, RxFull
  <2> QED
    BY <2>1, <2>2, <2>3, <2>4
<1>2. CASE /\ n' = 0 /\ in' = rx_in /\ out' = 0
           /\ Goto(IF moved > 0 THEN "r_enable" ELSE "r_spin") /\ CallKept
  <2> USE <1>2, <1>c, <1>d DEF IInv, Goto, TxKept, RxKept, CallKept, clock, uart, isr
  <2>1. Types'
    <3>1. n' \in 0 .. MaxCount
      BY SizeAssumption
    <3> QED
      BY <3>1 DEF Types
  <2>2. Buffers'
    BY DEF Buffers
  <2>3. CallInv'
    BY DEF CallInv
  <2>4. IsrInv' /\ Wakeups'
    BY DEF IsrInv, Wakeups, RxFull, Types
  <2> QED
    BY <2>1, <2>2, <2>3, <2>4
<1>3. CASE moved = 0 /\ Return
  <2>1. Rouses
    BY <1>3, <1>d DEF IInv, Types, Rouses
  <2> QED
    BY <1>3, <1>d, <2>1, ReturnInv
<1>4. \/ k > 0 /\ n' = k /\ in' = rx_in /\ out' = rx_out /\ Goto("r_copy") /\ CallKept
      \/ /\ n' = 0 /\ in' = rx_in /\ out' = 0
         /\ Goto(IF moved > 0 THEN "r_enable" ELSE "r_spin") /\ CallKept
      \/ moved = 0 /\ Return
  BY DEF ReadLook
<1> QED
  BY <1>1, <1>2, <1>3, <1>4

(* It copies a piece of the ring.                                          *)
LEMMA ReadCopyInv == IInv /\ ReadCopy => IInv'
<1> SUFFICES ASSUME IInv, ReadCopy PROVE IInv'
  OBVIOUS
<1> USE SizeAssumption DEF IInv, ReadCopy, Running, Goto, TxKept, RxKept, CallKept, clock, uart, isr
<1>1. Types'
  BY DEF Types
<1>2. Buffers'
  <2>1. \A j \in 1 .. n : out + j - 1 \in Index
    BY DEF CallInv, Types, Index
  <2>2. copied' = [j \in 1 .. n |-> rx_buf[out + j - 1]] /\ n \in Nat
    BY DEF CopyOut, Types
  <2>3. copied' \in Seq(Chars)
    BY <2>1, <2>2 DEF Buffers
  <2> QED
    BY <2>3 DEF Buffers
<1>3. CallInv'
  BY DEF CallInv
<1>4. IsrInv' /\ Wakeups'
  BY DEF IsrInv, Wakeups, RxFull
<1> QED
  BY <1>1, <1>2, <1>3, <1>4

(* The slots are free again, and the reader knows that it has moved some.  *)
LEMMA ReadPublishInv == IInv /\ ReadPublish => IInv'
<1> SUFFICES ASSUME IInv, ReadPublish PROVE IInv'
  OBVIOUS
<1> USE SizeAssumption DEF IInv, ReadPublish, Running, Goto, TxKept, RxKept, CallKept, clock, uart, isr
<1>a. n >= 1 /\ n <= count /\ out + n \in Nat /\ moved' > 0
  BY DEF CallInv, Types, Index
<1>b. rx_out' \in Index /\ 0 \in Index
  BY <1>a, WrapType DEF Index
<1>1. Types'
  BY <1>a, <1>b DEF Types, CallInv
<1>2. Buffers'
  BY DEF Buffers
<1>3. CallInv'
  BY <1>a DEF CallInv, Types
<1>4. IsrInv' /\ Wakeups'
  BY <1>a DEF IsrInv, Wakeups, RxFull
<1> QED
  BY <1>1, <1>2, <1>3, <1>4

(* A read waits in the same way.                                           *)
LEMMA ReadSpinInv == IInv /\ ReadSpin => IInv'
<1> SUFFICES ASSUME IInv, ReadSpin PROVE IInv'
  OBVIOUS
<1>1. Rouses
  BY DEF IInv, Types, Rouses, ReadSpin, Running
<1> QED
  BY <1>1, WaitInv DEF ReadSpin

(* Nothing has come: the call gives up.                                    *)
LEMMA ReadCheckInv == IInv /\ ReadCheck => IInv'
<1> SUFFICES ASSUME IInv, ReadCheck PROVE IInv'
  OBVIOUS
<1>1. Rouses
  BY DEF IInv, Types, Rouses, ReadCheck, Running
<1> QED
  BY <1>1, ReturnInv, WaitInv DEF ReadCheck

(* Receive interrupts come back.                                           *)
LEMMA ReadEnableInv == IInv /\ ReadEnable => IInv'
<1> SUFFICES ASSUME IInv, ReadEnable PROVE IInv'
  OBVIOUS
<1>1. Rouses
  BY DEF IInv, Types, Rouses, ReadEnable, Running
<1> QED
  BY <1>1, ReturnInv DEF ReadEnable

(* A close has nothing to keep.                                            *)
LEMMA CloseInv == IInv /\ Close => IInv'
<1> SUFFICES ASSUME IInv, Close PROVE IInv'
  OBVIOUS
<1>1. Rouses
  BY DEF IInv, Types, Rouses, Close, Running
<1> QED
  BY <1>1, ReturnInv DEF Close

(* A call begins with everything still to move.                            *)
LEMMA CallStepInv ==
    ASSUME NEW name, NEW first \in {"w_look", "r_look", "close"}, IInv, Call(name, first)
    PROVE  IInv'
<1> USE SizeAssumption DEF IInv, Call, Running, Goto, TxKept, RxKept, clock, uart, isr
<1>1. Types'
  <2>1. count' \in 0 .. MaxCount
    OBVIOUS
  <2> QED
    BY <2>1 DEF Types
<1>2. Buffers'
  BY DEF Buffers
<1>3. CallInv'
  <2>1. moved' = 0 /\ count' \in 0 .. MaxCount
    BY DEF CallInv
  <2>2. pc' = first /\ first \in {"w_look", "r_look", "close"}
    OBVIOUS
  <2>3. pc' \notin {"w_copy", "w_publish", "r_copy", "r_publish"}
    BY <2>2
  <2>4. \A c \in 0 .. MaxCount : 0 + c <= MaxCount
    OBVIOUS
  <2> QED
    BY <2>1, <2>3, <2>4 DEF CallInv
<1>4. IsrInv' /\ Wakeups'
  BY DEF IsrInv, Wakeups, RxFull
<1> QED
  BY <1>1, <1>2, <1>3, <1>4

(* The timeout and the alarm concern the host only.                        *)
LEMMA ClockInv ==
    ASSUME IInv, (\E t \in Timeouts : SetTimeout(t)) \/ Timeout
    PROVE  IInv'
<1> USE DEF IInv, Types, Buffers, CallInv, IsrInv, Wakeups, RxFull, rings, uart, call, isr, history, clock
<1>1. CASE \E t \in Timeouts : SetTimeout(t)
  BY <1>1 DEF SetTimeout
<1>2. CASE Timeout
  BY <1>2 DEF Timeout
<1> QED
  BY <1>1, <1>2

(* A visitor only makes room in the FIFO.                                  *)
LEMMA VisitInv ==
    ASSUME NEW k \in 0 .. RDepth, NEW pauses \in BOOLEAN, IInv, Visit(k, pauses)
    PROVE  IInv'
<1> USE SizeAssumption DEF IInv, Visit, rings, clock, call, isr
<1>1. Types'
  BY DEF Types
<1>2. Buffers'
  <2>1. Numbered(typed, k) \in Seq(Chars)
    BY DEF Numbered, Buffers, Chars
  <2>2. rfifo' \in Seq(Chars) /\ typed' \in Chars
    BY <2>1 DEF Buffers, Chars
  <2> QED
    BY <2>2 DEF Buffers
<1>3. CallInv'
  BY DEF CallInv
<1>4. IsrInv' /\ Wakeups'
  <2>1. Len(wfifo') = 0 /\ Len(wfifo) \in Nat
    BY DEF Buffers
  <2> QED
    BY <2>1 DEF IsrInv, Wakeups, RxFull, Types
<1> QED
  BY <1>1, <1>2, <1>3, <1>4

(* The processor goes to the routine.                                      *)
LEMMA InterruptInv == IInv /\ Interrupt => IInv'
<1> SUFFICES ASSUME IInv, Interrupt PROVE IInv'
  OBVIOUS
<1> USE SizeAssumption DEF IInv, Interrupt, IsrKept, rings, clock, call, history
<1>1. Types'
  BY DEF Types
<1>2. Buffers'
  BY DEF Buffers
<1>3. CallInv'
  BY DEF CallInv
<1>4. IsrInv' /\ Wakeups'
  BY DEF IsrInv, Wakeups, RxFull
<1> QED
  BY <1>1, <1>2, <1>3, <1>4

(* The routine learns what asks for it and how much room there is.         *)
LEMMA IsrLookInv == IInv /\ IsrLook => IInv'
<1> SUFFICES ASSUME IInv, IsrLook PROVE IInv'
  OBVIOUS
<1> USE SizeAssumption DEF IInv, IsrLook, IsrKept, rings, clock, call, history
<1>a. Len(wfifo) \in Nat /\ Len(wfifo) <= WDepth
  BY DEF Buffers, IsrInv
<1>1. Types'
  BY <1>a DEF Types, WI
<1>2. Buffers'
  BY DEF Buffers
<1>3. CallInv'
  BY DEF CallInv
<1>4. IsrInv' /\ Wakeups'
  <2>1. IsrInv'
    <3>1. CASE WI
      BY <3>1, <1>a DEF IsrInv, RI, WI
    <3>2. CASE ~WI
      BY <3>2, <1>a DEF IsrInv, RI
    <3> QED
      BY <3>1, <3>2
  <2>2. Wakeups'
    BY DEF Wakeups, RxFull
  <2> QED
    BY <2>1, <2>2
<1> QED
  BY <1>1, <1>2, <1>3, <1>4

(* It receives only while its interrupt is on.                             *)
LEMMA IsrReceiveInv == IInv /\ IsrReceive => IInv'
<1> SUFFICES ASSUME IInv, IsrReceive PROVE IInv'
  OBVIOUS
<1> USE SizeAssumption DEF IInv, IsrReceive, IsrKept, rings, clock, call, history
<1>a. rx_in' \in Index
  BY WrapType DEF Types, Index
<1>b. Head(rfifo) \in Chars /\ rfifo' \in Seq(Chars)
  BY DEF Buffers
<1>1. Types'
  BY <1>a DEF Types
<1>2. Buffers'
  BY <1>b DEF Buffers, Types
<1>3. CallInv'
  BY DEF CallInv
<1>4. IsrInv' /\ Wakeups'
  BY DEF IsrInv, Wakeups, RxFull
<1> QED
  BY <1>1, <1>2, <1>3, <1>4

(* It turns its interrupt off only over a full ring.                       *)
LEMMA IsrReceivedInv == IInv /\ IsrReceived => IInv'
<1> SUFFICES ASSUME IInv, IsrReceived PROVE IInv'
  OBVIOUS
<1> USE SizeAssumption DEF IInv, IsrReceived, IsrKept, rings, clock, call, history
<1>1. Types'
  BY DEF Types
<1>2. Buffers'
  BY DEF Buffers
<1>3. CallInv'
  BY DEF CallInv
<1>4. IsrInv' /\ Wakeups'
  BY DEF IsrInv, Wakeups, RxFull
<1> QED
  BY <1>1, <1>2, <1>3, <1>4

(* It sends while there is room and something to send.                     *)
LEMMA IsrSendInv == IInv /\ IsrSend => IInv'
<1> SUFFICES ASSUME IInv, IsrSend PROVE IInv'
  OBVIOUS
<1> USE SizeAssumption DEF IInv, IsrSend, IsrKept, rings, clock, call, history
<1>a. tx_out' \in Index
  BY WrapType DEF Types, Index
<1>b. Len(wfifo') = Len(wfifo) + 1 /\ wfifo' \in Seq(Chars) /\ Len(wfifo) \in Nat
  BY DEF Buffers, Types
<1>1. Types'
  BY <1>a DEF Types
<1>2. Buffers'
  BY <1>b DEF Buffers
<1>3. CallInv'
  BY DEF CallInv
<1>4. IsrInv' /\ Wakeups'
  BY <1>b DEF IsrInv, Wakeups, RxFull, Types
<1> QED
  BY <1>1, <1>2, <1>3, <1>4

(* It turns its interrupt off only when there is nothing to send.          *)
LEMMA IsrSentInv == IInv /\ IsrSent => IInv'
<1> SUFFICES ASSUME IInv, IsrSent PROVE IInv'
  OBVIOUS
<1> USE SizeAssumption DEF IInv, IsrSent, IsrKept, rings, clock, call, history
<1>1. Types'
  <2>1. irq_enable' \subseteq {"RE", "WE"}
    BY DEF Types
  <2>2. wi' \in BOOLEAN
    OBVIOUS
  <2>3. space' \in 0 .. WDepth
    OBVIOUS
  <2> QED
    BY <2>1, <2>2, <2>3 DEF Types
<1>2. Buffers'
  BY DEF Buffers
<1>3. CallInv'
  BY DEF CallInv
<1>4. IsrInv' /\ Wakeups'
  <2>1. Len(wfifo) \in Nat
    BY DEF Buffers
  <2> QED
    BY <2>1 DEF IsrInv, Wakeups, RxFull, Types
<1> QED
  BY <1>1, <1>2, <1>3, <1>4

(* Together these are inductive.                                           *)
THEOREM Invariance == Spec => []IInv
<1>1. Init => IInv
  BY InitInv
<1>2. IInv /\ [Next]_vars => IInv'
  <2> SUFFICES ASSUME IInv, [Next]_vars PROVE IInv'
    OBVIOUS
  <2>1. CASE MainStep
    BY <2>1, WriteLookInv, WriteCopyInv, WritePublishInv, WriteKickInv, WriteSpinInv,
       WriteCheckInv, ReadLookInv, ReadCopyInv, ReadPublishInv, ReadSpinInv,
       ReadCheckInv, ReadEnableInv, CloseInv DEF MainStep
  <2>2. CASE Isr
    BY <2>2, InterruptInv, IsrLookInv, IsrReceiveInv, IsrReceivedInv, IsrSendInv,
       IsrSentInv DEF Isr
  <2>3. CASE (\E t \in Timeouts : SetTimeout(t)) \/ Timeout
    BY <2>3, ClockInv
  <2>4. CASE \E k \in 0 .. RDepth, pauses \in BOOLEAN : Visit(k, pauses)
    BY <2>4, VisitInv
  <2>5. CASE Call("write", "w_look") \/ Call("read", "r_look") \/ Call("close", "close")
    BY <2>5, CallStepInv
  <2>6. CASE UNCHANGED vars
    BY <2>6 DEF vars, IInv, Types, Buffers, CallInv, IsrInv, Wakeups, RxFull, rings,
                uart, call, isr, history, clock
  <2> QED
    BY <2>1, <2>2, <2>3, <2>4, <2>5, <2>6 DEF Next
<1> QED
  BY <1>1, <1>2, PTL DEF Spec

(* No wake-up is lost, for rings of any size, calls of any length and any  *)
(* order of the two sides' steps.                                          *)
THEOREM NoLostWakeup == Spec => []Wakeups
  BY Invariance, PTL DEF IInv

(* The routine never puts a character into a full FIFO.                    *)
THEOREM NeverOverruns == Spec => []NoOverrun
<1>1. IInv => NoOverrun
  <2>1. Buffers => Len(wfifo) \in Nat
    BY DEF Buffers
  <2> QED
    BY <2>1, SizeAssumption DEF IInv, IsrInv, NoOverrun
<1> QED
  BY <1>1, Invariance, PTL

-----------------------------------------------------------------------------
(* The rings.                                                              *)

(* A remainder of a number below twice the modulus.                        *)
LEMMA ModSmall ==
    ASSUME NEW M \in Nat, M > 0, NEW x \in Nat, x < M + M
    PROVE  x % M = IF x < M THEN x ELSE x - M
<1>1. CASE x < M
  BY <1>1
<1>2. CASE x >= M
  BY <1>2
<1> QED
  BY <1>1, <1>2

(* An index wraps at most once.                                            *)
LEMMA WrapIs ==
    \A x \in Nat : x < BufLen + BufLen => Wrap(x) = IF x < BufLen THEN x ELSE x - BufLen
<1> TAKE x \in Nat
<1> HAVE x < BufLen + BufLen
<1>1. BufLen \in Nat /\ BufLen > 0
  BY SizeAssumption
<1>2. x % BufLen = IF x < BufLen THEN x ELSE x - BufLen
  BY <1>1, ModSmall
<1> QED
  BY <1>2 DEF Wrap

(* How much a ring holds, and that every slot it uses is one.              *)
LEMMA UsedType ==
    ASSUME NEW i \in Index, NEW o \in Index
    PROVE  /\ Used(i, o) \in 0 .. BufLen - 1
           /\ Used(i, o) = 0 <=> i = o
           /\ \A j \in 1 .. Used(i, o) : o + j - 1 \in Nat /\ o + j - 1 < BufLen + BufLen
  BY SizeAssumption DEF Used, Index

(* The slot of the j-th character.                                         *)
Slot(o, j) == IF o + j - 1 < BufLen THEN o + j - 1 ELSE o + j - 1 - BufLen

LEMMA ContentIs ==
    ASSUME NEW buf \in [Index -> Chars], NEW i \in Index, NEW o \in Index
    PROVE  /\ Content(buf, i, o) \in Seq(Chars) /\ Len(Content(buf, i, o)) = Used(i, o)
           /\ \A j \in 1 .. Used(i, o) :
                 Slot(o, j) \in Index /\ Content(buf, i, o)[j] = buf[Slot(o, j)]
<1>1. Used(i, o) \in Nat
  BY UsedType, SizeAssumption
<1>2. \A j \in 1 .. Used(i, o) : Wrap(o + j - 1) = Slot(o, j)
  <2> TAKE j \in 1 .. Used(i, o)
  <2>1. PICK x \in Nat : x = o + j - 1 /\ x < BufLen + BufLen
    BY UsedType
  <2>2. Wrap(x) = IF x < BufLen THEN x ELSE x - BufLen
    BY <2>1, WrapIs
  <2>3. Wrap(o + j - 1) = IF x < BufLen THEN x ELSE x - BufLen
    BY <2>1, <2>2, Zenon
  <2>4. Slot(o, j) = IF x < BufLen THEN x ELSE x - BufLen
    <3>1. o \in Int /\ j \in Int /\ BufLen \in Int
      BY <1>1, SizeAssumption DEF Index
    <3> QED
      BY <2>1, <3>1 DEF Slot
  <2> QED
    BY <2>3, <2>4
<1>3. \A j \in 1 .. Used(i, o) : Slot(o, j) \in Index
  BY SizeAssumption DEF Slot, Used, Index
<1>4. Content(buf, i, o) = [j \in 1 .. Used(i, o) |-> buf[Slot(o, j)]]
  BY <1>2 DEF Content
<1>5. \A j \in 1 .. Used(i, o) : buf[Slot(o, j)] \in Chars
  BY <1>3
<1> DEFINE u == Used(i, o)
<1> HIDE DEF u
<1>6. [j \in 1 .. u |-> buf[Slot(o, j)]] \in Seq(Chars) /\ Len([j \in 1 .. u |-> buf[Slot(o, j)]]) = u
  BY <1>1, <1>5 DEF u
<1> QED
  BY <1>3, <1>4, <1>6 DEF u

(* What is written to slots that are not used does not show.               *)
LEMMA RingKeeps ==
    ASSUME NEW buf \in [Index -> Chars], NEW new \in [Index -> Chars],
           NEW i \in Index, NEW o \in Index,
           \A j \in 1 .. Used(i, o) : new[Slot(o, j)] = buf[Slot(o, j)]
    PROVE  Content(new, i, o) = Content(buf, i, o)
  BY ContentIs, SeqEqual

(* A piece behind the last character is added as it is.                    *)
LEMMA RingPuts ==
    ASSUME NEW buf \in [Index -> Chars], NEW i \in Index, NEW o \in Index,
           NEW s \in Seq(Chars), NEW m \in Nat, Len(s) = m,
           i + m <= BufLen, Used(i, o) + m <= BufLen - 1,
           \A j \in 1 .. m : buf[i + j - 1] = s[j]
    PROVE  Content(buf, Wrap(i + m), o) = Content(buf, i, o) \o s
<1> DEFINE w == Wrap(i + m)
           u == Used(i, o)
           old == Content(buf, i, o)
           new == Content(buf, w, o)
<1>1. BufLen \in Nat /\ BufLen >= 2 /\ i \in Nat /\ i < BufLen /\ o \in Nat /\ o < BufLen
  BY SizeAssumption DEF Index
<1>2. w = IF i + m < BufLen THEN i + m ELSE 0
  <2>1. PICK x \in Nat : x = i + m /\ x < BufLen + BufLen
    BY <1>1
  <2>2. Wrap(x) = IF x < BufLen THEN x ELSE x - BufLen
    BY <2>1, WrapIs
  <2> QED
    BY <1>1, <2>1, <2>2
<1>3. w \in Index
  BY <1>1, <1>2 DEF Index
<1>4. Used(w, o) = u + m /\ u \in Nat
  BY <1>1, <1>2 DEF Used
<1>5. /\ old \in Seq(Chars) /\ Len(old) = u
      /\ \A j \in 1 .. u : Slot(o, j) \in Index /\ old[j] = buf[Slot(o, j)]
  BY ContentIs
<1>6. /\ new \in Seq(Chars) /\ Len(new) = u + m
      /\ \A j \in 1 .. u + m : new[j] = buf[Slot(o, j)]
  <2> HIDE DEF w, u
  <2>1. /\ new \in Seq(Chars) /\ Len(new) = Used(w, o)
        /\ \A j \in 1 .. Used(w, o) : new[j] = buf[Slot(o, j)]
    BY <1>3, ContentIs
  <2> QED
    BY <1>4, <2>1
<1>7. \A j \in 1 .. m : Slot(o, u + j) = i + j - 1
  BY <1>1 DEF Slot, Used
<1> HIDE DEF w, u, old, new
<1>8. /\ old \o s \in Seq(Chars) /\ Len(old \o s) = u + m
      /\ \A j \in 1 .. u + m : (old \o s)[j] = IF j <= u THEN old[j] ELSE s[j - u]
  BY <1>5, ConcatProperties
<1>9. \A j \in 1 .. u + m : new[j] = (old \o s)[j]
  <2> TAKE j \in 1 .. u + m
  <2>1. CASE j <= u
    <3>1. j \in 1 .. u
      BY <1>4, <2>1
    <3>2. old[j] = buf[Slot(o, j)] /\ new[j] = buf[Slot(o, j)] /\ (old \o s)[j] = old[j]
      BY <1>5, <1>6, <1>8, <2>1, <3>1
    <3> QED
      BY <3>2
  <2>2. CASE j > u
    <3>1. j - u \in 1 .. m /\ j = u + (j - u)
      BY <1>4, <2>2
    <3>2. Slot(o, j) = i + (j - u) - 1
      BY <1>7, <3>1
    <3>3. buf[i + (j - u) - 1] = s[j - u]
      BY <3>1
    <3>4. ~ (j <= u)
      BY <1>4, <2>2
    <3> QED
      BY <1>6, <1>8, <3>2, <3>3, <3>4
  <2>3. u \in Int /\ j \in Int
    BY <1>4
  <2>4. j <= u \/ j > u
    BY <2>3
  <2> QED
    BY <2>1, <2>2, <2>4
<1>10. new = old \o s
  BY <1>6, <1>8, <1>9, SeqEqual
<1> QED
  BY <1>10 DEF new, old, w

(* A piece that does not pass the end is taken from the front.             *)
LEMMA RingTakes ==
    ASSUME NEW buf \in [Index -> Chars], NEW i \in Index, NEW o \in Index,
           NEW m \in Nat, m <= Used(i, o), o + m <= BufLen
    PROVE  /\ Content(buf, i, Wrap(o + m)) = SubSeq(Content(buf, i, o), m + 1, Used(i, o))
           /\ \A j \in 1 .. m : Content(buf, i, o)[j] = buf[o + j - 1]
           /\ Used(i, Wrap(o + m)) = Used(i, o) - m
<1> DEFINE w == Wrap(o + m)
           u == Used(i, o)
           old == Content(buf, i, o)
           new == Content(buf, i, w)
           cut == SubSeq(old, m + 1, u)
<1>1. BufLen \in Nat /\ BufLen >= 2 /\ i \in Nat /\ i < BufLen /\ o \in Nat /\ o < BufLen
  BY SizeAssumption DEF Index
<1>2. w = IF o + m < BufLen THEN o + m ELSE 0
  <2>1. PICK x \in Nat : x = o + m /\ x < BufLen + BufLen
    BY <1>1
  <2>2. Wrap(x) = IF x < BufLen THEN x ELSE x - BufLen
    BY <2>1, WrapIs
  <2> QED
    BY <1>1, <2>1, <2>2
<1>3. w \in Index
  BY <1>1, <1>2 DEF Index
<1>4. Used(i, w) = u - m /\ u \in Nat /\ u - m \in Nat
  BY <1>1, <1>2 DEF Used
<1>5. /\ old \in Seq(Chars) /\ Len(old) = u
      /\ \A j \in 1 .. u : Slot(o, j) \in Index /\ old[j] = buf[Slot(o, j)]
  BY ContentIs
<1>6. /\ new \in Seq(Chars) /\ Len(new) = u - m
      /\ \A j \in 1 .. u - m : new[j] = buf[Slot(w, j)]
  <2>1. /\ new \in Seq(Chars) /\ Len(new) = Used(i, w)
        /\ \A j \in 1 .. Used(i, w) : new[j] = buf[Slot(w, j)]
    BY <1>3, ContentIs
  <2> QED
    BY <2>1, <1>4
<1>7. \A j \in 1 .. u - m : Slot(w, j) = Slot(o, m + j)
  BY <1>1, <1>2 DEF Slot, Used
<1>8. \A j \in 1 .. m : Slot(o, j) = o + j - 1 /\ j \in 1 .. u
  BY <1>1, <1>4 DEF Slot
<1> HIDE DEF w, u, old, new
<1>9. /\ cut \in Seq(Chars) /\ Len(cut) = u - m
      /\ \A j \in 1 .. u - m : cut[j] = old[m + j]
  <2>1. \A j \in m + 1 .. u : old[j] \in Chars
    BY <1>4, <1>5
  <2>2. /\ cut \in Seq(Chars) /\ Len(cut) = IF m + 1 <= u THEN u - (m + 1) + 1 ELSE 0
        /\ \A j \in 1 .. u - (m + 1) + 1 : cut[j] = old[(m + 1) + j - 1]
    BY <1>4, <2>1, SubSeqProperties
  <2> QED
    BY <1>4, <2>2
<1>10. \A j \in 1 .. u - m : new[j] = cut[j]
  <2> TAKE j \in 1 .. u - m
  <2>1. m + j \in 1 .. u
    BY <1>4
  <2> QED
    BY <1>4, <1>5, <1>6, <1>7, <1>9, <2>1
<1>11. new = cut
  BY <1>6, <1>9, <1>10, SeqEqual
<1>12. \A j \in 1 .. m : old[j] = buf[o + j - 1]
  BY <1>5, <1>8
<1> QED
  BY <1>4, <1>11, <1>12 DEF new, old, w, u

(* The slots behind the last character are free.                           *)
LEMMA FreeSlots ==
    ASSUME NEW i \in Index, NEW o \in Index, NEW m \in Nat,
           i + m <= BufLen, Used(i, o) + m <= BufLen - 1
    PROVE  \A j \in 1 .. Used(i, o) : Slot(o, j) \notin i .. i + m - 1
  BY SizeAssumption DEF Used, Slot, Index

(* A ring that is not full has room for one character.                     *)
LEMMA RoomForOne ==
    ASSUME NEW i \in Index, NEW o \in Index, Wrap(i + 1) # o
    PROVE  Used(i, o) + 1 <= BufLen - 1 /\ i + 1 <= BufLen
<1>1. BufLen \in Nat /\ BufLen >= 2 /\ i \in Nat /\ i < BufLen /\ o \in Nat /\ o < BufLen
  BY SizeAssumption DEF Index
<1>2. PICK x \in Nat : x = i + 1 /\ x < BufLen + BufLen
  BY <1>1
<1>3. Wrap(x) = IF x < BufLen THEN x ELSE x - BufLen
  BY <1>2, WrapIs
<1>4. Wrap(x) # o
  BY <1>2
<1> QED
  BY <1>1, <1>2, <1>3, <1>4 DEF Used

(* What is left of a sequence without its first m.                         *)
LEMMA CutIs ==
    ASSUME NEW s \in Seq(Chars), NEW a \in Nat, a = Len(s), NEW m \in Nat, m <= a
    PROVE  /\ SubSeq(s, m + 1, a) \in Seq(Chars) /\ Len(SubSeq(s, m + 1, a)) = a - m
           /\ \A i \in 1 .. a - m : SubSeq(s, m + 1, a)[i] = s[m + i]
<1>1. \A i \in m + 1 .. a : s[i] \in Chars
  <2>1. \A i \in 1 .. a : s[i] \in Chars
    OBVIOUS
  <2> QED
    BY <2>1
<1>2. m + 1 \in Int /\ a \in Int
  OBVIOUS
<1>3. /\ SubSeq(s, m + 1, a) \in Seq(Chars)
      /\ Len(SubSeq(s, m + 1, a)) = IF m + 1 <= a THEN a - (m + 1) + 1 ELSE 0
      /\ \A i \in 1 .. a - (m + 1) + 1 : SubSeq(s, m + 1, a)[i] = s[(m + 1) + i - 1]
  BY <1>1, <1>2, SubSeqProperties
<1>4. a - (m + 1) + 1 = a - m /\ (IF m + 1 <= a THEN a - (m + 1) + 1 ELSE 0) = a - m
  OBVIOUS
<1>5. \A i \in 1 .. a - m : (m + 1) + i - 1 = m + i
  OBVIOUS
<1> HIDE <1>1
<1> QED
  BY <1>3, <1>4, <1>5

(* Taking the first m of two sequences that follow each other.             *)
LEMMA CutFirst ==
    ASSUME NEW s \in Seq(Chars), NEW t \in Seq(Chars), NEW m \in Nat, m <= Len(s)
    PROVE  SubSeq(s \o t, m + 1, Len(s \o t)) = SubSeq(s, m + 1, Len(s)) \o t
<1>a. PICK a \in Nat : a = Len(s)
  BY LenProperties
<1>b. PICK b \in Nat : b = Len(t)
  BY LenProperties
<1>c. PICK c \in Nat : c = a + b
  OBVIOUS
<1>d. a - m \in Nat
  BY <1>a
<1>p. PICK p \in Nat : p = a - m
  BY <1>d
<1> DEFINE st == s \o t
           cut == SubSeq(s, m + 1, a)
           left == SubSeq(st, m + 1, c)
           right == cut \o t
<1>1. m <= a /\ m <= c /\ p + b = c - m /\ c - m \in Nat
  BY <1>a, <1>c, <1>p
<1>2. /\ st \in Seq(Chars) /\ Len(st) = c
      /\ \A i \in 1 .. c : st[i] = IF i <= a THEN s[i] ELSE t[i - a]
  BY <1>a, <1>b, <1>c, ConcatProperties
<1>3. /\ cut \in Seq(Chars) /\ Len(cut) = p
      /\ \A i \in 1 .. p : cut[i] = s[m + i]
  BY <1>a, <1>p, <1>1, CutIs
<1> HIDE DEF st, cut
<1>4. /\ right \in Seq(Chars) /\ Len(right) = p + b
      /\ \A i \in 1 .. p + b : right[i] = IF i <= p THEN cut[i] ELSE t[i - p]
  <2>1. cut \in Seq(Chars) /\ Len(cut) = p /\ Len(t) = b
    BY <1>b, <1>3
  <2>2. /\ cut \o t \in Seq(Chars) /\ Len(cut \o t) = Len(cut) + Len(t)
        /\ \A i \in 1 .. Len(cut) + Len(t) :
              (cut \o t)[i] = IF i <= Len(cut) THEN cut[i] ELSE t[i - Len(cut)]
    BY <2>1, ConcatProperties
  <2> QED
    BY <2>1, <2>2
<1>5. /\ left \in Seq(Chars) /\ Len(left) = c - m
      /\ \A i \in 1 .. c - m : left[i] = st[m + i]
  BY <1>1, <1>2, CutIs
<1> HIDE DEF left, right
<1>6. \A i \in 1 .. c - m : left[i] = right[i]
  <2> TAKE i \in 1 .. c - m
  <2>1. m + i \in 1 .. c /\ i \in Int /\ i \in 1 .. p + b
    BY <1>1
  <2>2. CASE i <= p
    <3>1. m + i <= a /\ i \in 1 .. p
      BY <1>p, <1>1, <2>1, <2>2
    <3>2. left[i] = s[m + i] /\ right[i] = s[m + i]
      BY <1>2, <1>3, <1>4, <1>5, <2>1, <2>2, <3>1
    <3> QED
      BY <3>2
  <2>3. CASE ~ (i <= p)
    <3>1. ~ (m + i <= a) /\ (m + i) - a = i - p
      BY <1>p, <1>1, <2>1, <2>3
    <3>2. left[i] = t[(m + i) - a]
      BY <1>2, <1>5, <2>1, <3>1
    <3>3. right[i] = t[i - p]
      BY <1>4, <2>1, <2>3
    <3> QED
      BY <3>1, <3>2, <3>3
  <2> QED
    BY <2>2, <2>3
<1>7. left = right
  <2>1. Len(left) = Len(right) /\ Len(left) = c - m
    BY <1>1, <1>4, <1>5
  <2> QED
    BY <1>4, <1>5, <1>6, <2>1, SeqEqual
<1> QED
  BY <1>a, <1>2, <1>7 DEF left, right, cut, st

LEMMA DropFirst ==
    ASSUME NEW s \in Seq(Chars), NEW t \in Seq(Chars)
    PROVE  SubSeq(s \o t, Len(s) + 1, Len(s \o t)) = t
<1>1. Len(s) \in Nat
  BY LenProperties
<1>2. SubSeq(s \o t, Len(s) + 1, Len(s \o t)) = SubSeq(s, Len(s) + 1, Len(s)) \o t
  BY <1>1, CutFirst
<1>3. SubSeq(s, Len(s) + 1, Len(s)) = <<>>
  BY <1>1, SubSeqEmpty
<1> QED
  BY <1>2, <1>3, ConcatEmptySeq

(* The first of what follows moves over.                                   *)
LEMMA MoveOver ==
    ASSUME NEW w \in Seq(Chars), NEW c \in Seq(Chars), c # <<>>
    PROVE  /\ Append(w, c[1]) \o SubSeq(c, 2, Len(c)) = w \o c
           /\ Append(w, Head(c)) \o Tail(c) = w \o c
<1>1. Head(c) = c[1] /\ c[1] \in Chars /\ Tail(c) \in Seq(Chars) /\ Tail(c) = SubSeq(c, 2, Len(c))
  BY HeadTailProperties, TailIsSubSeq
<1>2. c = <<c[1]>> \o Tail(c)
  BY <1>1
<1>3. Append(w, c[1]) = w \o <<c[1]>> /\ <<c[1]>> \in Seq(Chars)
  BY <1>1, AppendIsConcat
<1>4. (w \o <<c[1]>>) \o Tail(c) = w \o (<<c[1]>> \o Tail(c))
  BY <1>1, <1>3, ConcatAssociative
<1> QED
  BY <1>1, <1>2, <1>3, <1>4

(* What has been copied out and what the ring holds behind it is the ring. *)
LEMMA UnreadIs ==
    ASSUME NEW buf \in [Index -> Chars], NEW i \in Index, NEW o \in Index,
           NEW m \in Nat, m <= Used(i, o), o + m <= BufLen,
           NEW c, c = CopyOut(buf, o, m)
    PROVE  LET ring == Content(buf, i, o)
           IN c \o SubSeq(ring, Len(c) + 1, Len(ring)) = ring
<1> DEFINE ring == Content(buf, i, o)
<1>u. PICK u \in Nat : u = Used(i, o)
  BY UsedType, SizeAssumption
<1>1. ring \in Seq(Chars) /\ Len(ring) = u
  BY <1>u, ContentIs
<1>2. \A j \in 1 .. m : ring[j] = buf[o + j - 1] /\ o + j - 1 \in Index
  <2>1. \A j \in 1 .. m : o + j - 1 \in Index
    BY SizeAssumption DEF Index
  <2> QED
    BY <2>1, RingTakes
<1>3. c \in Seq(Chars) /\ Len(c) = m /\ \A j \in 1 .. m : c[j] = ring[j]
  <2>1. c = [j \in 1 .. m |-> buf[o + j - 1]]
    BY DEF CopyOut
  <2>2. \A j \in 1 .. m : buf[o + j - 1] \in Chars
    BY <1>2
  <2> HIDE DEF ring
  <2> QED
    BY <1>2, <2>1, <2>2
<1> HIDE DEF ring
<1>p. PICK p \in Nat : p = u - m
  <2>1. u - m \in Nat
    BY <1>u
  <2> QED
    BY <2>1
<1> DEFINE cut == SubSeq(ring, m + 1, u)
<1>4. /\ cut \in Seq(Chars) /\ Len(cut) = p
      /\ \A j \in 1 .. p : cut[j] = ring[m + j]
  BY <1>u, <1>p, <1>1, CutIs
<1> HIDE DEF cut
<1>5. /\ c \o cut \in Seq(Chars) /\ Len(c \o cut) = u
      /\ \A j \in 1 .. u : (c \o cut)[j] = IF j <= m THEN c[j] ELSE cut[j - m]
  <2>1. /\ c \o cut \in Seq(Chars) /\ Len(c \o cut) = Len(c) + Len(cut)
        /\ \A j \in 1 .. Len(c) + Len(cut) :
              (c \o cut)[j] = IF j <= Len(c) THEN c[j] ELSE cut[j - Len(c)]
    BY <1>3, <1>4, ConcatProperties, ZenonT(30)
  <2>2. m + p = u
    BY <1>p
  <2> QED
    BY <1>3, <1>4, <2>1, <2>2
<1>6. \A j \in 1 .. u : (c \o cut)[j] = ring[j]
  <2> TAKE j \in 1 .. u
  <2>1. CASE j <= m
    <3>1. j \in 1 .. m
      BY <2>1
    <3> QED
      BY <1>3, <1>5, <2>1, <3>1
  <2>2. CASE ~ (j <= m)
    <3>1. j - m \in 1 .. p /\ m + (j - m) = j
      BY <1>p, <2>2
    <3>2. cut[j - m] = ring[m + (j - m)]
      BY <1>4, <3>1
    <3> QED
      BY <1>5, <2>2, <3>1, <3>2
  <2> QED
    BY <2>1, <2>2
<1>7. c \o cut = ring
  BY <1>1, <1>5, <1>6, SeqEqual
<1>8. SubSeq(ring, Len(c) + 1, Len(ring)) = cut
  BY <1>1, <1>3 DEF cut
<1> QED
  BY <1>7, <1>8 DEF ring

(* Nothing has been copied out.                                            *)
LEMMA UnreadNone ==
    ASSUME NEW buf \in [Index -> Chars], NEW i \in Index, NEW o \in Index,
           NEW c, c = <<>>
    PROVE  LET ring == Content(buf, i, o)
           IN c \o SubSeq(ring, Len(c) + 1, Len(ring)) = ring
<1>1. 0 <= Used(i, o) /\ o + 0 <= BufLen /\ 0 \in Nat
  BY UsedType, SizeAssumption DEF Index
<1>2. c = CopyOut(buf, o, 0)
  BY DEF CopyOut
<1> QED
  BY <1>1, <1>2, UnreadIs

TxRing == Content(tx_buf, tx_in, tx_out)
RxRing == Content(rx_buf, rx_in, rx_out)

LEMMA UnreadIsRing == IInv /\ StreamInv => Unread = RxRing
<1> SUFFICES ASSUME IInv, StreamInv PROVE Unread = RxRing
  OBVIOUS
<1>1. rx_buf \in [Index -> Chars] /\ rx_in \in Index /\ rx_out \in Index /\ n \in Nat
  BY SizeAssumption DEF IInv, Types, Buffers
<1>2. CASE pc = "r_publish"
  <2>1. copied = CopyOut(rx_buf, rx_out, n) /\ n <= Used(rx_in, rx_out) /\ rx_out + n <= BufLen
    BY <1>2 DEF StreamInv, IInv, CallInv
  <2> QED
    BY <1>1, <2>1, UnreadIs DEF Unread, RxRing
<1>3. CASE pc # "r_publish"
  <2>1. copied = <<>>
    BY <1>3 DEF StreamInv
  <2> QED
    BY <1>1, <2>1, UnreadNone DEF Unread, RxRing
<1> QED
  BY <1>2, <1>3

(* What the two sides of the queues are.                                   *)
LEMMA RingTypes ==
    IInv => /\ TxRing \in Seq(Chars) /\ Len(TxRing) = Used(tx_in, tx_out)
            /\ RxRing \in Seq(Chars) /\ Len(RxRing) = Used(rx_in, rx_out)
            /\ Used(tx_in, tx_out) \in Nat /\ Used(rx_in, rx_out) \in Nat
            /\ Used(tx_in, tx_out) <= BufLen - 1 /\ Used(rx_in, rx_out) <= BufLen - 1
            /\ Len(wfifo) \in Nat /\ Len(rfifo) \in Nat
            /\ wfifo \in Seq(Chars) /\ rfifo \in Seq(Chars)
<1> SUFFICES ASSUME IInv
             PROVE  /\ TxRing \in Seq(Chars) /\ Len(TxRing) = Used(tx_in, tx_out)
                    /\ RxRing \in Seq(Chars) /\ Len(RxRing) = Used(rx_in, rx_out)
                    /\ Used(tx_in, tx_out) \in Nat /\ Used(rx_in, rx_out) \in Nat
                    /\ Used(tx_in, tx_out) <= BufLen - 1 /\ Used(rx_in, rx_out) <= BufLen - 1
                    /\ Len(wfifo) \in Nat /\ Len(rfifo) \in Nat
                    /\ wfifo \in Seq(Chars) /\ rfifo \in Seq(Chars)
  OBVIOUS
<1>1. /\ tx_buf \in [Index -> Chars] /\ tx_in \in Index /\ tx_out \in Index
      /\ rx_buf \in [Index -> Chars] /\ rx_in \in Index /\ rx_out \in Index
      /\ wfifo \in Seq(Chars) /\ rfifo \in Seq(Chars)
  BY DEF IInv, Types, Buffers
<1>2. TxRing \in Seq(Chars) /\ Len(TxRing) = Used(tx_in, tx_out)
  BY <1>1, ContentIs DEF TxRing
<1>3. RxRing \in Seq(Chars) /\ Len(RxRing) = Used(rx_in, rx_out)
  BY <1>1, ContentIs DEF RxRing
<1>4. Used(tx_in, tx_out) \in 0 .. BufLen - 1 /\ Used(rx_in, rx_out) \in 0 .. BufLen - 1
  BY <1>1, UsedType
<1> QED
  BY <1>1, <1>2, <1>3, <1>4, SizeAssumption

-----------------------------------------------------------------------------
(* The copies are in step with the rings.                                  *)

LEMMA InitStream == Init => StreamInv
  BY SizeAssumption DEF Init, StreamInv

(* The room that a write sees never fills the ring.                        *)
LEMMA WriteLookStream == IInv /\ StreamInv /\ WriteLook => StreamInv'
<1> SUFFICES ASSUME IInv, StreamInv, WriteLook PROVE StreamInv'
  OBVIOUS
<1> USE DEF WriteLook, Running, Goto, TxKept, RxKept, CallKept, clock, uart, isr
<1>1. pc' # "w_publish" /\ pc' \notin {"r_copy", "r_publish"} /\ pc # "r_publish"
  OBVIOUS
<1>2. pc' = "w_copy" => in' = tx_in' /\ Used(tx_in', tx_out') + n' <= BufLen - 1
  <2> SUFFICES ASSUME pc' = "w_copy"
               PROVE  in' = tx_in /\ Used(tx_in, tx_out) + n' <= BufLen - 1
    OBVIOUS
  <2>1. in' = tx_in
    BY SizeAssumption DEF IInv, Types, Index
  <2>3. /\ Used(tx_in, tx_out) \in Nat /\ WriteRoom(tx_in, tx_out) \in Nat
        /\ Used(tx_in, tx_out) + WriteRoom(tx_in, tx_out) <= BufLen - 1
    BY SizeAssumption DEF IInv, Types, Index, Used, WriteRoom
  <2>4. n' \in Nat /\ n' <= WriteRoom(tx_in, tx_out)
    BY <2>3, SizeAssumption DEF IInv, Types, Smaller
  <2> QED
    BY <2>1, <2>3, <2>4, SizeAssumption
<1> QED
  BY <1>1, <1>2 DEF StreamInv

(* The copy has what was to be written, and every character its slot.      *)
LEMMA WriteCopyStream == IInv /\ StreamInv /\ WriteCopy => StreamInv'
<1> SUFFICES ASSUME IInv, StreamInv, WriteCopy PROVE StreamInv'
  OBVIOUS
<1> USE DEF WriteCopy, Running, Goto, TxKept, RxKept, CallKept, clock, uart, isr
<1>1. \A j \in 1 .. n : tx_buf'[in + j - 1] = (written + j - 1) % K
  <2>1. n \in Nat /\ in \in Nat /\ in + n <= BufLen
    BY SizeAssumption DEF IInv, Types, CallInv, Index
  <2>2. Len(Numbered(written, n)) = n
    BY <2>1 DEF Numbered
  <2> TAKE j \in 1 .. n
  <2>3. PICK x \in Nat : x = in + j - 1
    BY <2>1
  <2>4. x \in Index /\ x \in in .. in + n - 1 /\ x - in + 1 = j
    BY <2>1, <2>3, SizeAssumption DEF Index
  <2>5. tx_buf'[x] = Numbered(written, n)[j]
    BY <2>2, <2>4 DEF CopyIn
  <2> QED
    BY <2>3, <2>5 DEF Numbered
<1> QED
  BY <1>1 DEF StreamInv

(* What a read takes is there.                                             *)
LEMMA ReadLookStream == IInv /\ StreamInv /\ ReadLook => StreamInv'
<1> SUFFICES ASSUME IInv, StreamInv, ReadLook PROVE StreamInv'
  OBVIOUS
<1>1. /\ pc = "r_look" /\ pc' \in {"r_copy", "r_enable", "r_spin", "idle"}
      /\ UNCHANGED <<copied, rfifo, rx_in, rx_out>>
  BY DEF ReadLook, Running, Goto, Return, RxKept, uart
<1>2. pc' = "r_copy" => out' = rx_out /\ n' = Smaller(ReadRoom(rx_in, rx_out), count)
  BY DEF ReadLook, Return, Goto
<1>3. pc' = "r_copy" => n' <= Used(rx_in, rx_out)
  BY <1>2, SizeAssumption DEF IInv, Types, Index, Used, ReadRoom, Smaller
<1> QED
  BY <1>1, <1>2, <1>3 DEF StreamInv

LEMMA ReadCopyStream == StreamInv /\ ReadCopy => StreamInv'
  BY DEF StreamInv, ReadCopy, Running, Goto, TxKept, RxKept, CallKept, clock, uart, isr

(* The steps of the main program that copy nothing.                        *)
LEMMA OtherMainStream ==
    ASSUME StreamInv,
           \/ WritePublish \/ WriteKick \/ WriteSpin \/ WriteCheck
           \/ ReadPublish \/ ReadSpin \/ ReadCheck \/ ReadEnable \/ Close
           \/ Call("write", "w_look") \/ Call("read", "r_look") \/ Call("close", "close")
    PROVE  StreamInv'
<1>1. /\ rfifo' = rfifo
      /\ pc' \notin {"w_copy", "w_publish", "r_copy", "r_publish"}
      /\ IF pc = "r_publish" THEN copied' = <<>> ELSE copied' = copied
  BY DEF WritePublish, WriteKick, WriteSpin, WriteCheck, ReadPublish, ReadSpin, ReadCheck,
         ReadEnable, Close, Call, Running, Goto, Wait, Return, RxKept, uart
<1> QED
  BY <1>1 DEF StreamInv

(* A character that comes in goes behind those that are being copied.      *)
LEMMA IsrReceiveStream == IInv /\ StreamInv /\ IsrReceive => StreamInv'
<1> SUFFICES ASSUME IInv, StreamInv, IsrReceive PROVE StreamInv'
  OBVIOUS
<1>1. UNCHANGED <<tx_buf, tx_in, tx_out, rx_out, in, out, n, pc, copied, written>>
  BY DEF IsrReceive, IsrKept, call, history
<1>2. /\ rx_in \in Index /\ rx_out \in Index /\ rx_buf \in [Index -> Chars] /\ n \in Nat
      /\ rx_in' = Wrap(rx_in + 1)
  BY SizeAssumption DEF IInv, Types, Buffers, IsrReceive
<1>3. Used(rx_in, rx_out) + 1 <= BufLen - 1 /\ rx_in + 1 <= BufLen
  BY <1>2, RoomForOne DEF IsrReceive, RxFull
<1>4. Used(rx_in', rx_out) = Used(rx_in, rx_out) + 1
  <2>1. PICK x \in Nat : x = rx_in + 1 /\ x < BufLen + BufLen
    BY <1>2, SizeAssumption DEF Index
  <2>2. Wrap(x) = IF x < BufLen THEN x ELSE x - BufLen
    BY <2>1, WrapIs
  <2>3. rx_in' = Wrap(x)
    BY <1>2, <2>1
  <2> QED
    BY <1>2, <1>3, <2>1, <2>2, <2>3, SizeAssumption DEF Used, Index
<1>5. pc \in {"r_copy", "r_publish"} => out = rx_out /\ n <= Used(rx_in', rx_out)
  BY <1>2, <1>4, UsedType, SizeAssumption DEF StreamInv
<1>6. pc = "r_publish" => CopyOut(rx_buf', out, n) = CopyOut(rx_buf, out, n)
  <2> SUFFICES ASSUME pc = "r_publish"
               PROVE  CopyOut(rx_buf', out, n) = CopyOut(rx_buf, out, n)
    OBVIOUS
  <2>1. out = rx_out /\ n <= Used(rx_in, rx_out) /\ out + n <= BufLen
    BY DEF StreamInv, IInv, CallInv
  <2>2. \A j \in 1 .. n : out + j - 1 \in Index /\ out + j - 1 # rx_in
    BY <1>2, <1>3, <2>1, SizeAssumption DEF Used, Index
  <2>3. \A j \in Index : j # rx_in => rx_buf'[j] = rx_buf[j]
    BY <1>2 DEF IsrReceive
  <2>4. \A j \in 1 .. n : rx_buf'[out + j - 1] = rx_buf[out + j - 1]
    BY <2>2, <2>3
  <2> QED
    BY <2>4 DEF CopyOut
<1>7. Len(rfifo') <= RDepth
  BY SizeAssumption DEF IInv, Buffers, StreamInv, IsrReceive
<1> QED
  BY <1>1, <1>5, <1>6, <1>7 DEF StreamInv

(* One that goes out only makes room.                                      *)
LEMMA IsrSendStream == IInv /\ StreamInv /\ IsrSend => StreamInv'
<1> SUFFICES ASSUME IInv, StreamInv, IsrSend PROVE StreamInv'
  OBVIOUS
<1>1. UNCHANGED <<tx_buf, tx_in, rx_buf, rx_in, rx_out, rfifo, in, out, n, pc, copied, written>>
  BY DEF IsrSend, IsrKept, call, history
<1>2. /\ tx_in \in Index /\ tx_out \in Index /\ tx_out # tx_in /\ n \in Nat
      /\ tx_out' = Wrap(tx_out + 1)
  BY SizeAssumption DEF IInv, Types, IsrSend
<1>3. Used(tx_in, tx_out') <= Used(tx_in, tx_out) /\ Used(tx_in, tx_out') \in Int
      /\ Used(tx_in, tx_out) \in Int
  <2>1. PICK x \in Nat : x = tx_out + 1 /\ x < BufLen + BufLen
    BY <1>2, SizeAssumption DEF Index
  <2>2. Wrap(x) = IF x < BufLen THEN x ELSE x - BufLen
    BY <2>1, WrapIs
  <2>3. tx_out' = Wrap(x)
    BY <1>2, <2>1
  <2> QED
    BY <1>2, <2>1, <2>2, <2>3, SizeAssumption DEF Used, Index
<1>4. pc \in {"w_copy", "w_publish"} => Used(tx_in, tx_out') + n <= BufLen - 1
  BY <1>2, <1>3, SizeAssumption DEF StreamInv
<1> QED
  BY <1>1, <1>4 DEF StreamInv

(* The rest of the routine, the alarm and the timeout touch no ring.       *)
LEMMA QuietStream ==
    ASSUME StreamInv,
           \/ Interrupt \/ IsrLook \/ IsrReceived \/ IsrSent \/ Timeout
           \/ (\E t \in Timeouts : SetTimeout(t)) \/ UNCHANGED vars
    PROVE  StreamInv'
<1>1. UNCHANGED <<rings, rfifo, call, written>>
  BY DEF Interrupt, IsrLook, IsrReceived, IsrSent, Timeout, SetTimeout, IsrKept, history, vars, uart
<1> QED
  BY <1>1 DEF StreamInv, rings, call

LEMMA VisitStream ==
    ASSUME NEW k \in 0 .. RDepth, NEW pauses \in BOOLEAN, IInv, StreamInv, Visit(k, pauses)
    PROVE  StreamInv'
<1>1. UNCHANGED <<rings, call, written>> /\ rfifo' = rfifo \o Numbered(typed, k)
      /\ Len(rfifo) + k <= RDepth
  BY DEF Visit
<1>2. Len(rfifo') <= RDepth
  <2>1. Numbered(typed, k) \in Seq(Chars) /\ Len(Numbered(typed, k)) = k
    BY SizeAssumption DEF Numbered, IInv, Buffers, Chars
  <2> QED
    BY <1>1, <2>1, SizeAssumption, ConcatProperties DEF IInv, Buffers
<1> QED
  BY <1>1, <1>2 DEF StreamInv, rings, call

(* So they stay.                                                           *)
THEOREM InStep == Spec => []StreamInv
<1>1. Init => StreamInv
  BY InitStream
<1>2. IInv /\ StreamInv /\ [Next]_vars => StreamInv'
  <2> SUFFICES ASSUME IInv, StreamInv, [Next]_vars PROVE StreamInv'
    OBVIOUS
  <2>1. CASE MainStep
    BY <2>1, WriteLookStream, WriteCopyStream, ReadLookStream, ReadCopyStream, OtherMainStream
       DEF MainStep
  <2>2. CASE Isr
    BY <2>2, IsrReceiveStream, IsrSendStream, QuietStream DEF Isr
  <2>3. CASE (\E t \in Timeouts : SetTimeout(t)) \/ Timeout \/ UNCHANGED vars
    BY <2>3, QuietStream
  <2>4. CASE \E k \in 0 .. RDepth, pauses \in BOOLEAN : Visit(k, pauses)
    BY <2>4, VisitStream
  <2>5. CASE Call("write", "w_look") \/ Call("read", "r_look") \/ Call("close", "close")
    BY <2>5, OtherMainStream
  <2> QED
    BY <2>1, <2>2, <2>3, <2>4, <2>5 DEF Next
<1> QED
  BY <1>1, <1>2, Invariance, PTL DEF Spec

-----------------------------------------------------------------------------
(* The two directions are streams.                                         *)

(* The steps that leave what is under way to the host alone.               *)
LEMMA SentQuiet ==
    ASSUME UNCHANGED <<wfifo, written>>, TxRing' = TxRing
    PROVE  UNCHANGED Sent!vars
  BY DEF Sent!vars, TxRing

(* A piece of the numbering.                                               *)
LEMMA NumberedIs ==
    ASSUME NEW c \in Chars, NEW k \in Nat
    PROVE  /\ Numbered(c, k) \in Seq(Chars) /\ Len(Numbered(c, k)) = k
           /\ \A j \in 1 .. k : Numbered(c, k)[j] = (c + j - 1) % K
           /\ k = 0 => Numbered(c, k) = <<>>
<1>1. \A j \in 1 .. k : (c + j - 1) % K \in Chars
  <2>1. \A j \in 1 .. k : c + j - 1 \in Int
    BY SizeAssumption DEF Chars
  <2> QED
    BY <2>1, NextChar
<1>2. Numbered(c, k) \in Seq(Chars) /\ Len(Numbered(c, k)) = k
  BY <1>1 DEF Numbered
<1>3. \A j \in 1 .. k : Numbered(c, k)[j] = (c + j - 1) % K
  BY DEF Numbered
<1>4. k = 0 => Numbered(c, k) = <<>>
  BY <1>2, EmptySeq
<1> QED
  BY <1>2, <1>3, <1>4

(* A write fills free slots.                                               *)
LEMMA WriteCopySent == IInv /\ StreamInv /\ IInv' /\ WriteCopy => UNCHANGED Sent!vars
<1> SUFFICES ASSUME IInv, StreamInv, IInv', WriteCopy PROVE UNCHANGED Sent!vars
  OBVIOUS
<1>1. /\ pc = "w_copy" /\ tx_buf' = CopyIn(tx_buf, in, Numbered(written, n))
      /\ UNCHANGED <<tx_in, tx_out, wfifo, written>>
  BY DEF WriteCopy, Running, Goto, uart
<1>2. /\ tx_buf \in [Index -> Chars] /\ tx_buf' \in [Index -> Chars]
      /\ tx_in \in Index /\ tx_out \in Index /\ n \in Nat
  BY SizeAssumption DEF IInv, Types, Buffers
<1>3. in = tx_in /\ Used(tx_in, tx_out) + n <= BufLen - 1 /\ tx_in + n <= BufLen
  BY <1>1 DEF StreamInv, IInv, CallInv
<1>4. \A j \in 1 .. Used(tx_in, tx_out) : Slot(tx_out, j) \in Index /\ Slot(tx_out, j) \notin in .. in + n - 1
  BY <1>2, <1>3, FreeSlots, ContentIs
<1>5. Len(Numbered(written, n)) = n
  BY <1>2 DEF Numbered
<1>6. \A x \in Index : x \notin in .. in + n - 1 => tx_buf'[x] = tx_buf[x]
  BY <1>1, <1>5 DEF CopyIn
<1>7. \A j \in 1 .. Used(tx_in, tx_out) : tx_buf'[Slot(tx_out, j)] = tx_buf[Slot(tx_out, j)]
  BY <1>4, <1>6
<1>8. Content(tx_buf', tx_in, tx_out) = Content(tx_buf, tx_in, tx_out)
  BY <1>2, <1>7, RingKeeps
<1> QED
  BY <1>1, <1>8, SentQuiet DEF TxRing

(* Publishing them puts them into the stream, all at once.                 *)
LEMMA WritePublishSent == IInv /\ StreamInv /\ WritePublish => Sent!Put
<1> SUFFICES ASSUME IInv, StreamInv, WritePublish PROVE Sent!Put
  OBVIOUS
<1> DEFINE s == Numbered(written, n)
<1>1. /\ pc = "w_publish" /\ tx_in' = Wrap(in + n) /\ written' = (written + n) % K
      /\ UNCHANGED <<tx_buf, tx_out, wfifo>>
  BY DEF WritePublish, Running, Goto, uart
<1>2. /\ tx_buf \in [Index -> Chars] /\ tx_in \in Index /\ tx_out \in Index /\ n \in Nat
      /\ written \in Chars
  BY SizeAssumption DEF IInv, Types, Buffers
<1>3. /\ in = tx_in /\ Used(tx_in, tx_out) + n <= BufLen - 1 /\ tx_in + n <= BufLen /\ n >= 1
      /\ \A j \in 1 .. n : tx_buf[in + j - 1] = (written + j - 1) % K
  BY <1>1 DEF StreamInv, IInv, CallInv
<1>4. s \in Seq(Chars) /\ Len(s) = n /\ \A j \in 1 .. n : s[j] = (written + j - 1) % K
  BY <1>2, NumberedIs
<1> HIDE DEF s
<1>5. TxRing' = TxRing \o s
  <2>1. Content(tx_buf, Wrap(tx_in + n), tx_out) = Content(tx_buf, tx_in, tx_out) \o s
    <3>1. \A j \in 1 .. n : tx_buf[tx_in + j - 1] = s[j]
      BY <1>3, <1>4
    <3> QED
      BY <1>2, <1>3, <1>4, <3>1, RingPuts
  <2> QED
    BY <1>1, <1>3, <2>1 DEF TxRing
<1>6. wfifo' \o TxRing' = (wfifo \o TxRing) \o s
  <2>1. wfifo \in Seq(Chars) /\ TxRing \in Seq(Chars) /\ s \in Seq(Chars)
    BY <1>4, RingTypes
  <2>2. wfifo \o (TxRing \o s) = (wfifo \o TxRing) \o s
    BY <2>1, ConcatAssociative
  <2> QED
    BY <1>1, <1>5, <2>2
<1>7. n \in 1 .. (BufLen - 1 + WDepth) - Len(wfifo \o TxRing)
  <2>1. Len(wfifo \o TxRing) = Len(wfifo) + Used(tx_in, tx_out) /\ Len(wfifo) <= WDepth
    BY RingTypes, ConcatProperties DEF IInv, IsrInv
  <2> QED
    BY <1>2, <1>3, <2>1, RingTypes, SizeAssumption
<1>8. s = Sent!Numbered(written, n)
  BY DEF s, Numbered, Sent!Numbered
<1> QED
  <2>1. /\ n \in 1 .. (BufLen - 1 + WDepth) - Len(wfifo \o Content(tx_buf, tx_in, tx_out))
        /\ (wfifo \o Content(tx_buf, tx_in, tx_out))'
              = (wfifo \o Content(tx_buf, tx_in, tx_out)) \o Sent!Numbered(written, n)
        /\ written' = (written + n) % K
    BY <1>1, <1>6, <1>7, <1>8 DEF TxRing
  <2> QED
    BY <2>1 DEF Sent!Put

(* The routine only hands a character on, from the ring to the FIFO.       *)
LEMMA IsrSendSent == IInv /\ IsrSend => UNCHANGED Sent!vars
<1> SUFFICES ASSUME IInv, IsrSend PROVE UNCHANGED Sent!vars
  OBVIOUS
<1>1. /\ wfifo' = Append(wfifo, tx_buf[tx_out]) /\ tx_out' = Wrap(tx_out + 1) /\ tx_out # tx_in
      /\ UNCHANGED <<tx_buf, tx_in, written>>
  BY DEF IsrSend, IsrKept, history
<1>2. tx_buf \in [Index -> Chars] /\ tx_in \in Index /\ tx_out \in Index
  BY DEF IInv, Types, Buffers
<1>3. 1 <= Used(tx_in, tx_out) /\ tx_out + 1 <= BufLen
  <2>1. Used(tx_in, tx_out) \in 0 .. BufLen - 1 /\ Used(tx_in, tx_out) # 0
    BY <1>1, <1>2, UsedType
  <2> QED
    BY <1>2, <2>1, SizeAssumption DEF Index
<1>4. /\ Content(tx_buf, tx_in, Wrap(tx_out + 1)) = SubSeq(TxRing, 1 + 1, Used(tx_in, tx_out))
      /\ \A j \in 1 .. 1 : TxRing[j] = tx_buf[tx_out + j - 1]
  BY <1>2, <1>3, RingTakes DEF TxRing
<1>5. TxRing' = SubSeq(TxRing, 2, Len(TxRing))
  BY <1>1, <1>4, RingTypes DEF TxRing
<1>6. TxRing[1] = tx_buf[tx_out]
  <2>1. tx_out + 1 - 1 = tx_out
    BY <1>2, SizeAssumption DEF Index
  <2> QED
    BY <1>4, <2>1
<1>7. TxRing # <<>>
  BY <1>3, RingTypes
<1>8. wfifo' \o TxRing' = wfifo \o TxRing
  BY <1>1, <1>5, <1>6, <1>7, RingTypes, MoveOver
<1> QED
  BY <1>1, <1>8 DEF Sent!vars, TxRing

(* A visitor takes what is in the FIFO, the oldest characters.             *)
LEMMA VisitSent ==
    ASSUME NEW k \in 0 .. RDepth, NEW pauses \in BOOLEAN, IInv, Visit(k, pauses)
    PROVE  Sent!Get \/ UNCHANGED Sent!vars
<1>1. wfifo' = <<>> /\ TxRing' = TxRing /\ written' = written
  BY DEF Visit, rings, TxRing
<1>2. wfifo' \o TxRing' = TxRing
  BY <1>1, RingTypes, ConcatEmptySeq
<1>3. CASE wfifo = <<>>
  <2>1. wfifo \o TxRing = TxRing
    BY <1>3, RingTypes, ConcatEmptySeq
  <2> QED
    BY <1>1, <1>2, <2>1 DEF Sent!vars, TxRing
<1>4. CASE wfifo # <<>>
  <2>1. wfifo' \o TxRing' = SubSeq(wfifo \o TxRing, Len(wfifo) + 1, Len(wfifo \o TxRing))
    BY <1>2, RingTypes, DropFirst
  <2>2. Len(wfifo) \in 1 .. Len(wfifo \o TxRing)
    <3>1. Len(wfifo) # 0
      BY <1>4, RingTypes, EmptySeq
    <3> QED
      BY <3>1, RingTypes, ConcatProperties
  <2> QED
    BY <1>1, <2>1, <2>2 DEF Sent!Get, TxRing
<1> QED
  BY <1>3, <1>4

(* What the debugger has typed is in the ring, its unread part first, and  *)
(* the FIFO.  With the copies in step, that is one queue.                  *)
Incoming == RxRing \o rfifo

LEMMA ReceivedIs ==
    ASSUME IInv, StreamInv, IInv', StreamInv'
    PROVE  Unread \o rfifo = Incoming /\ (Unread \o rfifo)' = Incoming'
<1>1. Unread = RxRing
  BY UnreadIsRing
<1>2. (IInv /\ StreamInv => Unread = RxRing)'
  BY UnreadIsRing, PTL
<1> QED
  BY <1>1, <1>2 DEF Incoming

(* The steps that leave it alone; copying it is one of them.               *)
LEMMA ReceivedQuiet ==
    ASSUME UNCHANGED <<rfifo, typed>>, RxRing' = RxRing
    PROVE  Incoming' = Incoming /\ typed' = typed
  BY DEF Incoming

(* The reader moves on, and the piece it has copied leaves the stream.     *)
LEMMA ReadPublishReceived ==
    ASSUME IInv, StreamInv, ReadPublish
    PROVE  /\ n \in 1 .. Len(Incoming)
           /\ Incoming' = SubSeq(Incoming, n + 1, Len(Incoming))
           /\ typed' = typed
<1>1. /\ pc = "r_publish" /\ rx_out' = Wrap(out + n) /\ UNCHANGED <<rx_buf, rx_in, rfifo, typed>>
  BY DEF ReadPublish, Running, Goto, uart
<1>2. /\ rx_buf \in [Index -> Chars] /\ rx_in \in Index /\ rx_out \in Index /\ n \in Nat
  BY SizeAssumption DEF IInv, Types, Buffers
<1>3. out = rx_out /\ n >= 1 /\ n <= Used(rx_in, rx_out) /\ rx_out + n <= BufLen
  BY <1>1 DEF StreamInv, IInv, CallInv
<1>4. RxRing' = SubSeq(RxRing, n + 1, Len(RxRing))
  <2>1. Content(rx_buf, rx_in, Wrap(rx_out + n)) = SubSeq(RxRing, n + 1, Used(rx_in, rx_out))
    BY <1>2, <1>3, RingTakes DEF RxRing
  <2> QED
    BY <1>1, <1>3, <2>1, RingTypes DEF RxRing
<1>5. Incoming' = SubSeq(Incoming, n + 1, Len(Incoming))
  BY <1>1, <1>2, <1>3, <1>4, RingTypes, CutFirst DEF Incoming
<1>6. n \in 1 .. Len(Incoming)
  <2>1. Len(Incoming) = Used(rx_in, rx_out) + Len(rfifo)
    BY RingTypes, ConcatProperties DEF Incoming
  <2> QED
    BY <1>2, <1>3, <2>1, RingTypes
<1> QED
  BY <1>1, <1>5, <1>6

(* The routine takes a character over from the FIFO.                       *)
LEMMA IsrReceiveReceived ==
    ASSUME IInv, IInv', IsrReceive
    PROVE  Incoming' = Incoming /\ typed' = typed
<1>1. /\ rx_buf' = [rx_buf EXCEPT ![rx_in] = Head(rfifo)] /\ rx_in' = Wrap(rx_in + 1)
      /\ rfifo # <<>> /\ rfifo' = Tail(rfifo) /\ Wrap(rx_in + 1) # rx_out
      /\ UNCHANGED <<rx_out, typed>>
  BY DEF IsrReceive, IsrKept, history, RxFull
<1>2. /\ rx_buf \in [Index -> Chars] /\ rx_buf' \in [Index -> Chars]
      /\ rx_in \in Index /\ rx_out \in Index /\ Head(rfifo) \in Chars
  BY <1>1, RingTypes, HeadTailProperties DEF IInv, Types, Buffers
<1>3. Used(rx_in, rx_out) + 1 <= BufLen - 1 /\ rx_in + 1 <= BufLen
  BY <1>1, <1>2, RoomForOne
<1>4. Content(rx_buf', rx_in, rx_out) = RxRing
  <2>1. \A j \in 1 .. Used(rx_in, rx_out) :
           Slot(rx_out, j) \in Index /\ Slot(rx_out, j) \notin rx_in .. rx_in + 1 - 1
    BY <1>2, <1>3, FreeSlots, ContentIs
  <2>2. rx_in \in rx_in .. rx_in + 1 - 1
    BY <1>2, SizeAssumption DEF Index
  <2>3. \A x \in Index : x # rx_in => rx_buf'[x] = rx_buf[x]
    BY <1>1, <1>2
  <2>4. \A j \in 1 .. Used(rx_in, rx_out) : rx_buf'[Slot(rx_out, j)] = rx_buf[Slot(rx_out, j)]
    BY <2>1, <2>2, <2>3
  <2> QED
    BY <1>2, <2>4, RingKeeps DEF RxRing
<1>5. Content(rx_buf', Wrap(rx_in + 1), rx_out) = RxRing \o <<Head(rfifo)>>
  <2>1. <<Head(rfifo)>> \in Seq(Chars) /\ Len(<<Head(rfifo)>>) = 1 /\ 1 \in Nat
    BY <1>2
  <2>2. \A j \in 1 .. 1 : rx_buf'[rx_in + j - 1] = <<Head(rfifo)>>[j]
    <3>1. rx_in + 1 - 1 = rx_in
      BY <1>2, SizeAssumption DEF Index
    <3>2. rx_buf'[rx_in] = Head(rfifo)
      BY <1>1, <1>2
    <3> QED
      BY <3>1, <3>2
  <2>3. Content(rx_buf', Wrap(rx_in + 1), rx_out)
           = Content(rx_buf', rx_in, rx_out) \o <<Head(rfifo)>>
    BY <1>2, <1>3, <2>1, <2>2, RingPuts
  <2> QED
    BY <1>4, <2>3
<1>6. RxRing' = Append(RxRing, Head(rfifo))
  <2>1. RxRing' = RxRing \o <<Head(rfifo)>>
    BY <1>1, <1>5 DEF RxRing
  <2>2. Append(RxRing, Head(rfifo)) = RxRing \o <<Head(rfifo)>>
    BY <1>2, RingTypes, AppendIsConcat
  <2> QED
    BY <2>1, <2>2
<1>7. Append(RxRing, Head(rfifo)) \o Tail(rfifo) = RxRing \o rfifo
  BY <1>1, RingTypes, MoveOver
<1> QED
  BY <1>1, <1>6, <1>7 DEF Incoming

(* What a visitor types goes in last.                                      *)
LEMMA VisitReceived ==
    ASSUME NEW k \in 0 .. RDepth, NEW pauses \in BOOLEAN, IInv, Visit(k, pauses)
    PROVE  \/ /\ k \in 1 .. (BufLen - 1 + RDepth) - Len(Incoming)
              /\ Incoming' = Incoming \o Numbered(typed, k)
              /\ typed' = (typed + k) % K
           \/ Incoming' = Incoming /\ typed' = typed
<1>1. /\ Len(rfifo) + k <= RDepth /\ rfifo' = rfifo \o Numbered(typed, k)
      /\ typed' = (typed + k) % K /\ RxRing' = RxRing
  BY DEF Visit, rings, RxRing
<1>2. typed \in Chars /\ typed \in Nat /\ typed < K /\ k \in Nat
  BY SizeAssumption DEF IInv, Buffers, Chars
<1>3. Numbered(typed, k) \in Seq(Chars)
  BY <1>2, NumberedIs
<1>4. Incoming' = Incoming \o Numbered(typed, k)
  <2>1. RxRing \in Seq(Chars) /\ rfifo \in Seq(Chars)
    BY RingTypes
  <2>2. RxRing \o (rfifo \o Numbered(typed, k)) = (RxRing \o rfifo) \o Numbered(typed, k)
    BY <1>3, <2>1, ConcatAssociative, SMTT(30)
  <2> QED
    BY <1>1, <2>2 DEF Incoming
<1>5. CASE k = 0
  <2>1. Numbered(typed, k) = <<>>
    BY <1>2, <1>5, NumberedIs
  <2>2. Incoming \in Seq(Chars)
    BY RingTypes, ConcatProperties DEF Incoming
  <2>3. typed' = typed
    <3>1. typed + k = typed /\ K \in Nat /\ K > 0 /\ typed < K + K
      BY <1>2, <1>5, SizeAssumption
    <3>2. typed % K = typed
      BY <1>2, <3>1, ModSmall
    <3> QED
      BY <1>1, <3>1, <3>2
  <2> QED
    BY <1>4, <2>1, <2>2, <2>3, ConcatEmptySeq
<1>6. CASE k # 0
  <2>1. Len(Incoming) = Used(rx_in, rx_out) + Len(rfifo)
    BY RingTypes, ConcatProperties DEF Incoming
  <2>2. k \in 1 .. (BufLen - 1 + RDepth) - Len(Incoming)
    BY <1>1, <1>2, <1>6, <2>1, RingTypes, SizeAssumption, SMTT(30)
  <2> QED
    BY <1>1, <1>4, <2>2
<1> QED
  BY <1>5, <1>6

(* Every step of the driver is one of each stream, or none.                *)
LEMMA SentStep ==
    ASSUME IInv, StreamInv, IInv', [Next]_vars
    PROVE  [Sent!Next]_(Sent!vars)
<1>1. CASE WriteCopy
  BY <1>1, WriteCopySent
<1>2. CASE WritePublish
  BY <1>2, WritePublishSent DEF Sent!Next
<1>3. CASE IsrSend
  BY <1>3, IsrSendSent
<1>4. CASE \E k \in 0 .. RDepth, pauses \in BOOLEAN : Visit(k, pauses)
  BY <1>4, VisitSent DEF Sent!Next
<1>5. CASE \/ WriteLook \/ WriteKick \/ WriteSpin \/ WriteCheck
           \/ ReadLook \/ ReadCopy \/ ReadPublish \/ ReadSpin \/ ReadCheck \/ ReadEnable \/ Close
           \/ Call("write", "w_look") \/ Call("read", "r_look") \/ Call("close", "close")
  <2>1. UNCHANGED <<tx_buf, tx_in, tx_out, wfifo, written>>
    BY <1>5 DEF WriteLook, WriteKick, WriteSpin, WriteCheck, ReadLook, ReadCopy, ReadPublish,
          ReadSpin, ReadCheck, ReadEnable, Close, Call, Goto, Wait, Return, TxKept, uart
  <2> QED
    BY <2>1, SentQuiet DEF TxRing
<1>6. CASE \/ Interrupt \/ IsrLook \/ IsrReceive \/ IsrReceived \/ IsrSent \/ Timeout
           \/ (\E t \in Timeouts : SetTimeout(t)) \/ UNCHANGED vars
  <2>1. UNCHANGED <<tx_buf, tx_in, tx_out, wfifo, written>>
    BY <1>6 DEF Interrupt, IsrLook, IsrReceive, IsrReceived, IsrSent, Timeout, SetTimeout,
          IsrKept, rings, history, uart, vars
  <2> QED
    BY <2>1, SentQuiet DEF TxRing
<1> QED
  BY <1>1, <1>2, <1>3, <1>4, <1>5, <1>6 DEF Next, MainStep, Isr

LEMMA ReceivedStep ==
    ASSUME IInv, StreamInv, IInv', StreamInv', [Next]_vars
    PROVE  [Received!Next]_(Received!vars)
<1>a. Unread \o rfifo = Incoming /\ (Unread \o rfifo)' = Incoming'
  BY ReceivedIs
<1>b. Incoming' = Incoming /\ typed' = typed => UNCHANGED Received!vars
  BY <1>a DEF Received!vars
<1>1. CASE ReadPublish
  <2>1. /\ n \in 1 .. Len(Incoming)
        /\ Incoming' = SubSeq(Incoming, n + 1, Len(Incoming))
        /\ typed' = typed
    BY <1>1, ReadPublishReceived
  <2>2. Received!Get
    BY <1>a, <2>1 DEF Received!Get
  <2> QED
    BY <2>2 DEF Received!Next
<1>2. CASE IsrReceive
  BY <1>b, <1>2, IsrReceiveReceived
<1>3. CASE \E k \in 0 .. RDepth, pauses \in BOOLEAN : Visit(k, pauses)
  <2>1. PICK k \in 0 .. RDepth, pauses \in BOOLEAN : Visit(k, pauses)
    BY <1>3
  <2>2. CASE /\ k \in 1 .. (BufLen - 1 + RDepth) - Len(Incoming)
             /\ Incoming' = Incoming \o Numbered(typed, k)
             /\ typed' = (typed + k) % K
    <3>1. Numbered(typed, k) = Received!Numbered(typed, k)
      BY DEF Numbered, Received!Numbered
    <3>2. /\ k \in 1 .. (BufLen - 1 + RDepth) - Len(Unread \o rfifo)
          /\ (Unread \o rfifo)' = (Unread \o rfifo) \o Received!Numbered(typed, k)
          /\ typed' = (typed + k) % K
      BY <1>a, <2>2, <3>1
    <3>3. Received!Put
      BY <3>2 DEF Received!Put
    <3> QED
      BY <3>3 DEF Received!Next
  <2>3. CASE Incoming' = Incoming /\ typed' = typed
    BY <1>b, <2>3
  <2> QED
    BY <2>1, <2>2, <2>3, VisitReceived
<1>4. CASE \/ MainStep /\ ~ ReadPublish
           \/ Call("write", "w_look") \/ Call("read", "r_look") \/ Call("close", "close")
  <2>1. UNCHANGED <<rx_buf, rx_in, rx_out, rfifo, typed>>
    BY <1>4 DEF MainStep, WriteLook, WriteCopy, WritePublish, WriteKick, WriteSpin, WriteCheck,
          ReadLook, ReadCopy, ReadSpin, ReadCheck, ReadEnable, Close, Call, Goto, Wait, Return,
          RxKept, uart
  <2> QED
    BY <1>b, <2>1, ReceivedQuiet DEF RxRing
<1>5. CASE \/ Interrupt \/ IsrLook \/ IsrReceived \/ IsrSend \/ IsrSent \/ Timeout
           \/ (\E t \in Timeouts : SetTimeout(t)) \/ UNCHANGED vars
  <2>1. UNCHANGED <<rx_buf, rx_in, rx_out, rfifo, typed>>
    BY <1>5 DEF Interrupt, IsrLook, IsrReceived, IsrSend, IsrSent, Timeout, SetTimeout,
          IsrKept, rings, history, uart, vars
  <2> QED
    BY <1>b, <2>1, ReceivedQuiet DEF RxRing
<1> QED
  BY <1>1, <1>2, <1>3, <1>4, <1>5 DEF Next, Isr

(* Both directions of the console are streams, though the program and the  *)
(* interrupt routine share their rings without a lock: characters come out *)
(* in the order they went in, none lost, none twice, and never more under  *)
(* way than the ring and the FIFO hold.                                    *)
THEOREM Streams == Spec => ImplementsStreams
<1>1. Init => Sent!Init /\ Received!Init
  <2> SUFFICES ASSUME Init PROVE Sent!Init /\ Received!Init
    OBVIOUS
  <2>1. IInv /\ StreamInv
    BY InitInv, InitStream
  <2>2. Used(tx_in, tx_out) = 0 /\ Used(rx_in, rx_out) = 0
    BY SizeAssumption DEF Init, Used
  <2>3. TxRing = <<>> /\ RxRing = <<>>
    BY <2>1, <2>2, RingTypes, EmptySeq
  <2>4. Unread = <<>>
    BY <2>1, <2>3, UnreadIsRing
  <2>5. wfifo \o TxRing = <<>> /\ Unread \o rfifo = <<>>
    BY <2>3, <2>4 DEF Init
  <2> QED
    BY <2>5 DEF Init, Sent!Init, Received!Init, TxRing
<1>2. /\ IInv /\ IInv' /\ StreamInv /\ StreamInv' /\ [Next]_vars
      => [Sent!Next]_(Sent!vars) /\ [Received!Next]_(Received!vars)
  BY SentStep, ReceivedStep
<1> QED
  BY <1>1, <1>2, Invariance, InStep, PTL
     DEF Spec, ImplementsStreams, Sent!Spec, Received!Spec
=============================================================================
