-------------------------- MODULE UsbKeyboardProofs --------------------------
(***************************************************************************)
(* Polling with the data toggle shows every report once and in order, for  *)
(* all reports, limits and capacities of the keyboard (UsbPoll), and goes  *)
(* on doing so when devices are put in, enumerated, found to be of use or  *)
(* not, and pulled out, whatever the wire loses (UsbKeyboard).             *)
(***************************************************************************)
EXTENDS UsbKeyboard, SequenceTheorems, TLAPS

IInv == TypeOK /\ ToggleInv

-----------------------------------------------------------------------------
(* Sequences.                                                              *)

(* What the keyboard adds keeps its queue a queue, and its first report    *)
(* when there was one.                                                     *)
LEMMA Appended ==
    ASSUME NEW S, NEW q \in Seq(S), NEW r \in S
    PROVE  /\ Append(q, r) \in Seq(S) /\ Append(q, r) # <<>>
           /\ Len(Append(q, r)) = Len(q) + 1
           /\ q # <<>> => Tail(Append(q, r)) = Append(Tail(q), r)
  BY AppendProperties, HeadTailAppend

(* What is left when the first report of the queue is taken.               *)
LEMMA Taken ==
    ASSUME NEW S, NEW q \in Seq(S), q # <<>>
    PROVE  /\ Head(q) \in S /\ Tail(q) \in Seq(S)
           /\ Len(Tail(q)) = Len(q) - 1 /\ Len(q) \in Nat \ {0}
           /\ q = <<Head(q)>> \o Tail(q)
<1>1. Head(q) \in S /\ Tail(q) \in Seq(S) /\ Len(Tail(q)) = Len(q) - 1
  BY HeadTailProperties
<1>2. Len(q) \in Nat \ {0}
  BY EmptySeq, LenProperties
<1>3. q = <<Head(q)>> \o Tail(q)
  <2>1. q = SubSeq(q, 1, Len(q))
    BY SubSeqFull
  <2>2. 1 \in 1 .. Len(q) /\ Len(q) \in 1 .. Len(q)
    BY <1>2
  <2>3. SubSeq(q, 1, Len(q)) = <<q[1]>> \o SubSeq(q, 1 + 1, Len(q))
    BY <2>2, SubSeqRecursiveFirst
  <2>4. Tail(q) = SubSeq(q, 2, Len(q)) /\ Head(q) = q[1]
    BY TailIsSubSeq
  <2> QED  BY <2>1, <2>3, <2>4
<1> QED  BY <1>1, <1>2, <1>3

(* The four codes of a report are a sequence of numbers.                   *)
LEMMA Packed == ASSUME NEW r \in Reports PROVE Pack(r) \in Seq(Nat)
<1>1. r \in Seq(Nat) /\ Shown \in Nat /\ Shown <= Len(r)
  BY PollAssumption
<1>2. \A i \in 1 .. Shown : r[i] \in Nat
  BY <1>1
<1> QED  BY <1>1, <1>2, SubSeqProperties DEF Pack

-----------------------------------------------------------------------------

LEMMA Initially == Init => IInv
<1> SUFFICES ASSUME Init PROVE IInv
  OBVIOUS
<1>1. <<>> \in Seq(Reports) /\ Len(<<>>) = 0 /\ <<>> \in Seq(Nat)
  OBVIOUS
<1>2. 0 <= MaxPending /\ 0 \in 0 .. NakLimit - 1 /\ 0 \in 0 .. RetryLimit - 1
  BY PollAssumption
<1>3. TypeOK
  BY <1>1, <1>2 DEF Init, TypeOK, Toggle, Results
<1>4. ToggleInv
  BY DEF Init, ToggleInv, Expected
<1> QED  BY <1>3, <1>4 DEF IInv

LEMMA Preserved == IInv /\ [Next]_vars => IInv'
<1> SUFFICES ASSUME IInv, [Next]_vars PROVE IInv'
  OBVIOUS
<1> USE DEF IInv
<1>1. ASSUME NEW r \in Reports, Type(r) PROVE IInv'
  <2>1. queue' \in Seq(Reports) /\ queue' # <<>> /\ Len(queue') = Len(queue) + 1
    BY <1>1, Appended DEF Type, TypeOK
  <2>2. Len(queue') <= MaxPending
    BY <1>1, <2>1, PollAssumption DEF Type, TypeOK
  <2>3. TypeOK'
    BY <1>1, <2>1, <2>2 DEF Type, TypeOK, chip, host
  <2>4. ToggleInv'
    BY <1>1, <2>1 DEF Type, ToggleInv, Expected, chip, host
  <2> QED  BY <2>3, <2>4
<1>2. ASSUME NEW result \in Results, NoData(result) PROVE IInv'
  <2>1. TypeOK'
    BY <1>2 DEF NoData, TypeOK, device, host
  <2>2. ToggleInv'
    BY <1>2 DEF NoData, ToggleInv, Expected, device, host
  <2> QED  BY <2>1, <2>2
<1>3. ASSUME NEW acked \in BOOLEAN, Data(acked) PROVE IInv'
  <2>1. /\ Head(queue) \in Reports /\ Tail(queue) \in Seq(Reports)
        /\ Len(Tail(queue)) <= MaxPending
    BY <1>3, Taken, PollAssumption DEF Data, TypeOK
  <2>2. (UNCHANGED device \/ Acknowledged) /\ UNCHANGED <<host, keycode>>
    BY <1>3 DEF Data
  <2>3. fifo' \in {<<>>} \cup {<<r>> : r \in Reports} /\ chipToggle' \in Toggle
    BY <1>3, <2>1 DEF Data, TypeOK, Toggle
  <2>4. TypeOK'
    <3>1. queue' \in Seq(Reports) /\ Len(queue') <= MaxPending /\ devToggle' \in Toggle
      <4>1. CASE UNCHANGED device
        BY <4>1 DEF TypeOK, device
      <4>2. CASE Acknowledged
        <5>1. devToggle' \in Toggle
          BY <4>2 DEF Acknowledged, TypeOK, Toggle
        <5> QED  BY <2>1, <4>2, <5>1 DEF Acknowledged
      <4> QED  BY <2>2, <4>1, <4>2
    <3>2. hrsl' \in Results
      BY <1>3 DEF Data, Results
    <3> QED  BY <2>2, <2>3, <3>1, <3>2 DEF TypeOK, host
  <2>5. pc = "wait" /\ fifo = <<>> /\ rcvToggle = chipToggle /\ fifo' \in {<<>>, <<Head(queue)>>}
    BY <1>3 DEF Data, TypeOK, ToggleInv
  <2>6. queue # <<>> /\ pc' = "wait" /\ rcvToggle' = rcvToggle
    BY <1>3, <2>5 DEF Data, host
  <2>7. (devToggle' # Expected') => queue' # <<>>
    BY <1>3, <2>5, <2>6 DEF Data, Acknowledged, Expected, TypeOK, Toggle, device
  <2>8. fifo' # <<>> <=> hrsl' = "SUCCESS"
    BY <1>3, <2>5 DEF Data
  <2>9. fifo' # <<>> => rcvToggle' # chipToggle'
    BY <1>3, <2>5, <2>6 DEF Data, TypeOK, Toggle
  <2>10. fifo' = <<>> => rcvToggle' = chipToggle'
    BY <1>3, <2>5, <2>6 DEF Data
  <2>11. ToggleInv'
    BY <2>6, <2>7, <2>8, <2>9, <2>10 DEF ToggleInv
  <2> QED  BY <2>4, <2>11
<1>4. CASE OtherTransfer
  BY <1>4 DEF OtherTransfer, TypeOK, ToggleInv, Expected, device, host
<1>5. CASE Poll
  <2>1. 0 \in 0 .. NakLimit - 1 /\ 0 \in 0 .. RetryLimit - 1
    BY PollAssumption
  <2>2. TypeOK'
    BY <1>5, <2>1 DEF Poll, LoadToggle, TypeOK, device
  <2>3. ToggleInv'
    BY <1>5 DEF Poll, LoadToggle, TypeOK, ToggleInv, Expected, device
  <2> QED  BY <2>2, <2>3
<1>6. CASE Relaunch
  <2>1. nak_count' \in 0 .. NakLimit - 1
    BY <1>6, PollAssumption DEF Relaunch, Again, Recount, TypeOK
  <2>2. retry_count' \in 0 .. RetryLimit - 1
    BY <1>6, PollAssumption DEF Relaunch, Again, Recount, TypeOK
  <2>3. hrsl # "SUCCESS"
    BY <1>6 DEF Relaunch, Again
  <2>4. TypeOK'
    BY <1>6, <2>1, <2>2 DEF Relaunch, TypeOK, device
  <2>5. ToggleInv'
    BY <1>6, <2>3 DEF Relaunch, ToggleInv, Expected, device
  <2> QED  BY <2>4, <2>5
<1>7. CASE Fail
  BY <1>7 DEF Fail, TypeOK, ToggleInv, Expected, device, chip
<1>8. CASE Receive
  <2>1. PICK r \in Reports : fifo = <<r>>
    BY <1>8 DEF Receive, TypeOK
  <2>2. keycode' \in Seq(Nat)
    BY <1>8, <2>1, Packed DEF Receive
  <2>3. TypeOK'
    BY <1>8, <2>2 DEF Receive, SaveToggle, TypeOK, device
  <2>4. ToggleInv'
    BY <1>8 DEF Receive, SaveToggle, ToggleInv, Expected, device
  <2> QED  BY <2>3, <2>4
<1>9. CASE UNCHANGED vars
  BY <1>9 DEF vars, device, chip, host, TypeOK, ToggleInv, Expected
<1> QED
  BY <1>1, <1>2, <1>3, <1>4, <1>5, <1>6, <1>7, <1>8, <1>9 DEF Next, Wire, Firmware

(* The toggle the firmware expects next and the keyboard's differ exactly  *)
(* while a report it has seen is still the first of the keyboard's queue.  *)
THEOREM TogglesAgree == Spec => [](TypeOK /\ ToggleInv)
<1>1. Init => IInv
  BY Initially
<1>2. IInv /\ [Next]_vars => IInv'
  BY Preserved
<1>3. IInv => TypeOK /\ ToggleInv
  BY DEF IInv
<1> QED  BY <1>1, <1>2, <1>3, PTL DEF Spec

-----------------------------------------------------------------------------
(* The refinement.                                                         *)

QueueInv ==
    /\ queue \in Seq(Reports) /\ fifo \in {<<>>} \cup {<<r>> : r \in Reports}
    /\ devToggle # Expected => queue # <<>>

LEMMA PendingTypes ==
    ASSUME QueueInv
    PROVE  /\ fifo \in Seq(Reports) /\ Len(fifo) <= 1 /\ Len(fifo) \in Nat
           /\ Unseen \in Seq(Reports) /\ Len(Unseen) <= Len(queue)
           /\ Len(queue) \in Nat /\ Len(Unseen) \in Nat
<1> USE DEF QueueInv
<1>1. fifo \in Seq(Reports) /\ Len(fifo) <= 1 /\ Len(fifo) \in Nat
  <2>1. CASE fifo = <<>>
    BY <2>1
  <2>2. CASE \E r \in Reports : fifo = <<r>>
    <3>1. PICK r \in Reports : fifo = <<r>>
      BY <2>2
    <3>2. <<r>> \in Seq(Reports) /\ Len(<<r>>) = 1
      OBVIOUS
    <3> QED  BY <3>1, <3>2
  <2>3. fifo = <<>> \/ \E r \in Reports : fifo = <<r>>
    OBVIOUS
  <2> QED  BY <2>1, <2>2, <2>3
<1>2. Len(queue) \in Nat
  BY LenProperties
<1>3. CASE devToggle = Expected
  BY <1>1, <1>2, <1>3 DEF Unseen
<1>4. CASE devToggle # Expected
  BY <1>1, <1>2, <1>4, Taken, LenProperties DEF Unseen
<1> QED  BY <1>3, <1>4

(* A report typed joins the end of what is pending.                        *)
LEMMA TypeAppends ==
    ASSUME QueueInv, NEW r \in Reports, Type(r)
    PROVE  /\ fifo' \o Unseen' = Append(fifo \o Unseen, r)
           /\ Len(fifo \o Unseen) < MaxPending + 1 /\ keycode' = keycode
<1>1. Unseen' = Append(Unseen, r)
  <2>1. CASE devToggle = Expected
    BY <2>1 DEF Type, Unseen, Expected, chip, host
  <2>2. CASE devToggle # Expected
    <3>1. queue \in Seq(Reports) /\ queue # <<>>
      BY <2>2 DEF QueueInv
    <3>2. Tail(Append(queue, r)) = Append(Tail(queue), r)
      BY <3>1, Appended
    <3> QED  BY <2>2, <3>2 DEF Type, Unseen, Expected, chip, host
  <2> QED  BY <2>1, <2>2
<1>2. /\ fifo \in Seq(Reports) /\ Unseen \in Seq(Reports)
      /\ Len(fifo) <= 1 /\ Len(fifo) \in Nat /\ Len(Unseen) <= Len(queue)
      /\ Len(queue) \in Nat /\ Len(Unseen) \in Nat
  BY PendingTypes
<1>3. fifo \o Append(Unseen, r) = Append(fifo \o Unseen, r)
  <2>1. Append(Unseen, r) = Unseen \o <<r>> /\ <<r>> \in Seq(Reports)
    BY <1>2, AppendIsConcat
  <2>2. fifo \o Unseen \in Seq(Reports)
    BY <1>2, ConcatProperties
  <2>3. Append(fifo \o Unseen, r) = (fifo \o Unseen) \o <<r>>
    BY <2>2, AppendIsConcat
  <2> QED  BY <1>2, <2>1, <2>3, ConcatAssociative
<1>4. Len(fifo \o Unseen) = Len(fifo) + Len(Unseen)
  BY <1>2, ConcatProperties
<1>5. Len(fifo \o Unseen) < MaxPending + 1
  BY <1>2, <1>4, PollAssumption DEF Type
<1>6. fifo' = fifo /\ keycode' = keycode
  BY DEF Type, chip
<1> QED  BY <1>1, <1>3, <1>5, <1>6

(* The wire and the attempts of the firmware leave what is pending alone.  *)
LEMMA DataMaps ==
    ASSUME IInv, NEW acked \in BOOLEAN, Data(acked)
    PROVE  UNCHANGED <<fifo \o Unseen, keycode>>
<1>1. pc = "wait" /\ fifo = <<>> /\ pc' = "wait" /\ queue # <<>> /\ keycode' = keycode
  BY DEF Data, IInv, TypeOK, ToggleInv, host
<1>2. queue \in Seq(Reports) /\ Tail(queue) \in Seq(Reports) /\ queue = <<Head(queue)>> \o Tail(queue)
  BY <1>1, Taken DEF IInv, TypeOK
<1>3. /\ devToggle \in {0, 1} /\ chipToggle \in {0, 1}
      /\ Expected = chipToggle /\ Expected' = chipToggle'
  BY <1>1 DEF IInv, TypeOK, Toggle, Expected
<1>4. \/ queue' = queue /\ devToggle' = devToggle
      \/ queue' = Tail(queue) /\ devToggle' = 1 - devToggle
  BY DEF Data, Acknowledged, device
<1>5. CASE devToggle = chipToggle
  <2>1. fifo' = <<Head(queue)>> /\ chipToggle' = 1 - chipToggle
    BY <1>5 DEF Data
  <2>2. Unseen = queue /\ Unseen' = Tail(queue)
    BY <1>3, <1>4, <1>5, <2>1 DEF Unseen
  <2>3. fifo \o Unseen = queue
    BY <1>1, <1>2, <2>2, ConcatEmptySeq
  <2> QED  BY <1>1, <1>2, <2>1, <2>2, <2>3
<1>6. CASE devToggle # chipToggle
  <2>1. fifo' = fifo /\ chipToggle' = chipToggle
    BY <1>6 DEF Data
  <2>2. Unseen = Tail(queue) /\ Unseen' = Tail(queue)
    BY <1>3, <1>4, <1>6, <2>1 DEF Unseen
  <2> QED  BY <1>1, <2>1, <2>2
<1> QED  BY <1>5, <1>6

(* What the firmware reads is the first of what is pending.                *)
LEMMA ReceiveShows ==
    ASSUME IInv, Receive
    PROVE  /\ \E r \in Reports : fifo = <<r>> /\ keycode' = Pack(r)
           /\ fifo' = <<>> /\ Unseen' = Unseen
<1>1. PICK r \in Reports : fifo = <<r>>
  BY DEF Receive, IInv, TypeOK
<1>2. keycode' = Pack(r) /\ fifo' = <<>>
  BY <1>1 DEF Receive
<1>3. Unseen' = Unseen
  BY DEF Receive, SaveToggle, Unseen, Expected, device
<1> QED  BY <1>1, <1>2, <1>3

LEMMA FirstOf ==
    ASSUME NEW r \in Reports, NEW s \in Seq(Reports)
    PROVE  <<r>> \o s # <<>> /\ Head(<<r>> \o s) = r /\ Tail(<<r>> \o s) = <<>> \o s
<1>1. <<r>> \o s # <<>> /\ Head(<<r>> \o s) = r /\ Tail(<<r>> \o s) = s
  OBVIOUS
<1> QED  BY <1>1, ConcatEmptySeq

LEMMA QuietSteps ==
    ASSUME IInv, \/ \E result \in Results : NoData(result)
                 \/ OtherTransfer \/ Poll \/ Relaunch \/ Fail \/ UNCHANGED vars
    PROVE  UNCHANGED <<fifo, Unseen, keycode>>
<1>1. ASSUME NEW result \in Results, NoData(result) PROVE UNCHANGED <<fifo, Unseen, keycode>>
  BY <1>1 DEF NoData, Unseen, Expected, device, host
<1>2. CASE OtherTransfer
  BY <1>2 DEF OtherTransfer, Unseen, Expected, device, host
<1>3. CASE Poll
  BY <1>3 DEF Poll, LoadToggle, Unseen, Expected, device
<1>4. CASE Relaunch
  BY <1>4 DEF Relaunch, Unseen, Expected, device
<1>5. CASE Fail
  BY <1>5 DEF Fail, IInv, TypeOK, ToggleInv, Unseen, Expected, device, chip
<1>6. CASE UNCHANGED vars
  BY <1>6 DEF vars, Unseen, Expected, device, chip, host
<1> QED  BY <1>1, <1>2, <1>3, <1>4, <1>5, <1>6

LEMMA StepsMap == IInv /\ [Next]_vars => [Stream!Next]_(Stream!vars)
<1> SUFFICES ASSUME IInv, [Next]_vars PROVE [Stream!Next]_(Stream!vars)
  OBVIOUS
<1>1. QueueInv
  BY DEF IInv, TypeOK, ToggleInv, QueueInv
<1>2. ASSUME NEW r \in Reports, Type(r) PROVE Stream!Next
  BY <1>1, <1>2, TypeAppends DEF Stream!Next, Stream!Type
<1>3. ASSUME NEW acked \in BOOLEAN, Data(acked) PROVE UNCHANGED Stream!vars
  BY <1>3, DataMaps DEF Stream!vars
<1>4. CASE Receive
  <2>1. PICK r \in Reports : fifo = <<r>> /\ keycode' = Pack(r)
    BY <1>4, ReceiveShows
  <2>2. Unseen \in Seq(Reports) /\ fifo' = <<>> /\ Unseen' = Unseen
    BY <1>1, <1>4, PendingTypes, ReceiveShows
  <2> QED
    BY <2>1, <2>2, FirstOf DEF Stream!Next, Stream!Show, Stream!Pack, Pack
<1>5. CASE \/ \E result \in Results : NoData(result)
           \/ OtherTransfer \/ Poll \/ Relaunch \/ Fail \/ UNCHANGED vars
  BY <1>5, QuietSteps DEF Stream!vars
<1> QED
  BY <1>2, <1>3, <1>4, <1>5 DEF Next, Wire, Firmware

LEMMA InitMaps == Init => Stream!Init
<1> SUFFICES ASSUME Init PROVE Stream!Init
  OBVIOUS
<1>1. fifo = <<>> /\ Unseen = <<>> /\ keycode = <<>>
  BY DEF Init, Unseen, Expected
<1>2. <<>> \o <<>> = <<>>
  OBVIOUS
<1> QED  BY <1>1, <1>2 DEF Stream!Init

(* Whatever the wire loses, the register shows every report of the         *)
(* keyboard once and in order: the initial state and every step map.       *)
THEOREM StreamSafety == Spec => Stream!Init /\ [][Stream!Next]_(Stream!vars)
<1>1. Init => IInv
  BY Initially
<1>2. IInv /\ [Next]_vars => IInv'
  BY Preserved
<1>3. Init => Stream!Init
  BY InitMaps
<1>4. IInv /\ [Next]_vars => [Stream!Next]_(Stream!vars)
  BY StepsMap
<1> QED  BY <1>1, <1>2, <1>3, <1>4, PTL DEF Spec

-----------------------------------------------------------------------------
(* The bytes of a descriptor.                                              *)

LEMMA BytesType ==
    ASSUME NEW a \in Nat, NEW n \in Nat
    PROVE  /\ Bytes(a, n) \in Seq(Nat) /\ Len(Bytes(a, n)) = n
           /\ \A i \in 1 .. n : Bytes(a, n)[i] = a + i
  BY DEF Bytes

LEMMA BytesConcat ==
    ASSUME NEW a \in Nat, NEW n \in Nat
    PROVE  Bytes(0, a) \o Bytes(a, n) = Bytes(0, a + n)
<1> DEFINE s == Bytes(0, a)
           t == Bytes(a, n)
           u == Bytes(0, a + n)
<1>1. /\ s \in Seq(Nat) /\ Len(s) = a /\ \A i \in 1 .. a : s[i] = i
      /\ t \in Seq(Nat) /\ Len(t) = n /\ \A i \in 1 .. n : t[i] = a + i
      /\ u \in Seq(Nat) /\ Len(u) = a + n /\ \A i \in 1 .. a + n : u[i] = i
  <2>1. s \in Seq(Nat) /\ Len(s) = a /\ \A i \in 1 .. a : s[i] = 0 + i
    BY BytesType
  <2>2. t \in Seq(Nat) /\ Len(t) = n /\ \A i \in 1 .. n : t[i] = a + i
    BY BytesType
  <2>3. a + n \in Nat
    OBVIOUS
  <2>4. u \in Seq(Nat) /\ Len(u) = a + n /\ \A i \in 1 .. a + n : u[i] = 0 + i
    BY <2>3, BytesType
  <2> HIDE DEF s, t, u
  <2> QED
    BY <2>1, <2>2, <2>4
<1> HIDE DEF s, t, u
<1>2. /\ s \o t \in Seq(Nat) /\ Len(s \o t) = a + n
      /\ \A i \in 1 .. a + n : (s \o t)[i] = IF i <= a THEN s[i] ELSE t[i - a]
  BY <1>1, ConcatProperties, SMTT(30)
<1>3. \A i \in 1 .. a + n : (s \o t)[i] = u[i]
  BY <1>1, <1>2
<1>4. s \o t = u
  BY <1>1, <1>2, <1>3, SeqEqual
<1> QED
  BY <1>4 DEF s, t, u

LEMMA PortionType ==
    ASSUME request \in Reads, NEW n \in Nat, n < Length[request]
    PROVE  /\ Portion(n) \in Nat /\ Portion(n) >= 1 /\ Portion(n) <= MaxPkt
           /\ n + Portion(n) <= Length[request]
           /\ Portion(n) < MaxPkt => n + Portion(n) = Length[request]
           /\ Length[request] \in Nat /\ MaxPkt \in Nat
<1>1. Length[request] \in Nat /\ MaxPkt \in Nat \ {0}
  BY KeyboardAssumption
<1> QED
  BY <1>1 DEF Portion, Smaller

(* What comes after a control transfer.                                    *)
LEMMA ReturnCases ==
    ASSUME Return
    PROVE  /\ pc = "ctrl" /\ pc' = "idle" /\ hrsl # "busy"
           /\ UNCHANGED <<device, chip, nak_count, retry_count, keycode, usbDevice, ep0,
                          packet, stage, stored>>
           /\ Ended("status") \/ hrsl # "SUCCESS"
           /\ \/ /\ request \in {"DevDescr8", "DevDescr", "SetAddr", "ConfDescr", "SetConf",
                                 "GetIdle", "GetProto"}
                 /\ request' = Following[request] /\ UNCHANGED <<state, rcvToggle>>
                 /\ class' = IF request = "SetAddr" THEN "mouse" ELSE class
                 /\ Ended("status") \/ request \in {"DevDescr", "GetIdle", "GetProto"}
              \/ /\ request \in {"DevDescr8", "SetAddr"}
                 /\ state' = "ERROR" /\ request' = "none" /\ UNCHANGED <<class, rcvToggle>>
              \/ /\ request \in {"ConfDescr", "Config", "SetConf", "SetProto"}
                 /\ ProbeFails
                 /\ rcvToggle' = rcvToggle \/ (request = "Config" /\ rcvToggle' = 0)
              \/ /\ request = "Config" /\ Matches /\ request' = "SetConf"
                 /\ rcvToggle' = 0 /\ UNCHANGED <<class, state>>
              \/ /\ request = "SetProto" /\ Ended("status")
                 /\ state' = "RUNNING" /\ request' = "GetIdle" /\ UNCHANGED <<class, rcvToggle>>
<1>1. DOMAIN Following = {"DevDescr8", "DevDescr", "SetAddr", "ConfDescr", "SetConf",
                          "GetIdle", "GetProto"}
  BY DEF Following
<1>2. /\ pc = "ctrl" /\ pc' = "idle"
      /\ UNCHANGED <<device, chip, nak_count, retry_count, keycode, usbDevice, ep0,
                     packet, stage, stored>>
  BY DEF Return, Ended
<1>3. CASE Ended("status") /\ Succeed
  <2>1. CASE request \in DOMAIN Following /\ GoOn
    BY <1>1, <1>2, <1>3, <2>1 DEF GoOn, Ended
  <2>2. CASE request = "Config" /\ Parse
    BY <1>2, <1>3, <2>2 DEF Parse, HID_init, Ended
  <2>3. CASE request = "SetProto" /\ Found
    BY <1>2, <1>3, <2>3 DEF Found, Ended
  <2> QED
    BY <1>3, <2>1, <2>2, <2>3 DEF Succeed
<1>4. CASE hrsl \notin {"busy", "SUCCESS"} /\ GiveUp
  <2>1. CASE request \in {"DevDescr8", "SetAddr"} /\ ToError
    BY <1>2, <1>4, <2>1 DEF ToError
  <2>2. CASE request \in {"DevDescr", "GetIdle", "GetProto"} /\ GoOn
    BY <1>2, <1>4, <2>2 DEF GoOn
  <2>3. CASE /\ request \in {"ConfDescr", "Config", "SetConf", "SetProto"}
             /\ ProbeFails /\ UNCHANGED rcvToggle
    BY <1>2, <1>4, <2>3
  <2> QED
    BY <1>4, <2>1, <2>2, <2>3 DEF GiveUp
<1> QED
  BY <1>3, <1>4 DEF Return

(* The request that follows.                                               *)
LEMMA FollowingValues ==
    /\ Following["DevDescr8"] = "DevDescr" /\ Following["DevDescr"] = "SetAddr"
    /\ Following["SetAddr"] = "ConfDescr" /\ Following["ConfDescr"] = "Config"
    /\ Following["SetConf"] = "SetProto" /\ Following["GetIdle"] = "GetProto"
    /\ Following["GetProto"] = "none"
  BY DEF Following

-----------------------------------------------------------------------------
(* Types.                                                                  *)

LEMMA Zeros == 0 \in 0 .. NakLimit - 1 /\ 0 \in 0 .. RetryLimit - 1
  BY PollAssumption

(* What the actions of UsbPoll keep.                                       *)
LEMMA PollTypes ==
    ASSUME KeyboardTypeOK,
           \/ \E r \in Reports : Type(r)
           \/ \E result \in Results : NoData(result)
           \/ \E acked \in BOOLEAN : Data(acked)
           \/ Poll \/ Relaunch \/ Fail \/ Receive
    PROVE  /\ queue' \in Seq(Reports) /\ Len(queue') <= MaxPending
           /\ devToggle' \in Toggle /\ chipToggle' \in Toggle /\ rcvToggle' \in Toggle
           /\ fifo' \in {<<>>} \cup {<<r>> : r \in Reports}
           /\ hrsl' \in Results \cup {"busy"} /\ pc' \in {"idle", "wait", "ctrl"}
           /\ nak_count' \in 0 .. NakLimit - 1 /\ retry_count' \in 0 .. RetryLimit - 1
           /\ keycode' \in Seq(Nat)
<1> USE DEF KeyboardTypeOK
<1>1. ASSUME NEW r \in Reports, Type(r)
      PROVE  queue' \in Seq(Reports) /\ Len(queue') <= MaxPending
  <2>1. queue' \in Seq(Reports) /\ Len(queue') = Len(queue) + 1
    BY <1>1, Appended DEF Type
  <2> QED
    BY <1>1, <2>1, PollAssumption DEF Type
<1>2. ASSUME NEW acked \in BOOLEAN, Data(acked)
      PROVE  /\ queue' \in Seq(Reports) /\ Len(queue') <= MaxPending /\ devToggle' \in Toggle
             /\ fifo' \in {<<>>} \cup {<<r>> : r \in Reports} /\ chipToggle' \in Toggle
             /\ hrsl' \in Results
  <2>1. /\ Head(queue) \in Reports /\ Tail(queue) \in Seq(Reports)
        /\ Len(Tail(queue)) <= MaxPending
    BY <1>2, Taken, PollAssumption DEF Data
  <2>2. UNCHANGED device \/ Acknowledged
    BY <1>2 DEF Data
  <2>3. queue' \in Seq(Reports) /\ Len(queue') <= MaxPending
    BY <2>1, <2>2 DEF Acknowledged, device
  <2>4. devToggle' \in Toggle
    BY <2>2 DEF Acknowledged, device, Toggle
  <2>5. fifo' \in {<<>>} \cup {<<r>> : r \in Reports} /\ chipToggle' \in Toggle /\ hrsl' \in Results
    BY <1>2, <2>1 DEF Data, Toggle, Results
  <2> QED
    BY <2>3, <2>4, <2>5
<1>3. Receive => keycode' \in Seq(Nat)
  <2> SUFFICES ASSUME Receive PROVE keycode' \in Seq(Nat)
    OBVIOUS
  <2>1. PICK r \in Reports : fifo = <<r>>
    BY DEF Receive
  <2> QED
    BY <2>1, Packed DEF Receive
<1>4. ASSUME Relaunch
      PROVE  nak_count' \in 0 .. NakLimit - 1 /\ retry_count' \in 0 .. RetryLimit - 1
  BY <1>4, PollAssumption, SMTT(30) DEF Relaunch, Again, Recount
<1>5. ASSUME NEW r \in Reports, Type(r)
      PROVE  UNCHANGED <<devToggle, chipToggle, rcvToggle, fifo, hrsl, pc, nak_count, retry_count, keycode>>
  BY <1>5 DEF Type, chip, host
<1>6. ASSUME NEW result \in Results, NoData(result)
      PROVE  /\ UNCHANGED <<queue, devToggle, chipToggle, rcvToggle, fifo, pc, nak_count, retry_count, keycode>>
             /\ hrsl' \in Results
  BY <1>6 DEF NoData, device, host
<1>7. ASSUME NEW acked \in BOOLEAN, Data(acked)
      PROVE  UNCHANGED <<rcvToggle, pc, nak_count, retry_count, keycode>>
  BY <1>7 DEF Data, host
<1>8. CASE Poll
  BY <1>8, Zeros DEF Poll, LoadToggle, device
<1>9. CASE Relaunch
  BY <1>9, <1>4 DEF Relaunch, device
<1>10. CASE Fail
  BY <1>10 DEF Fail, device, chip
<1>11. CASE Receive
  BY <1>11, <1>3 DEF Receive, SaveToggle, device
<1> QED
  BY <1>1, <1>2, <1>5, <1>6, <1>7, <1>8, <1>9, <1>10, <1>11

(* The part of the types that belongs to the device and to the requests.   *)
ControlTypes ==
    /\ config \in Devices /\ address \in {0, 1, Gone} /\ plugged \in 0 .. MaxDevices
    /\ configured \in BOOLEAN /\ boot \in BOOLEAN
    /\ heard \in Requests \cup {"none"} /\ sent \in Nat /\ ep0Toggle \in Toggle
    /\ packet \in Seq(Seq(Nat)) /\ stored \in Seq(Nat)
    /\ state \in {"detached", "enumerating", "RUNNING", "ERROR"}
    /\ request \in Requests \cup {"none"} /\ stage \in {"setup", "data", "status"}
    /\ class \in {"none", "mouse", "keyboard"}

PollTypeOK ==
    /\ queue \in Seq(Reports) /\ Len(queue) <= MaxPending
    /\ devToggle \in Toggle /\ chipToggle \in Toggle /\ rcvToggle \in Toggle
    /\ fifo \in {<<>>} \cup {<<r>> : r \in Reports}
    /\ hrsl \in Results \cup {"busy"} /\ pc \in {"idle", "wait", "ctrl"}
    /\ nak_count \in 0 .. NakLimit - 1 /\ retry_count \in 0 .. RetryLimit - 1
    /\ keycode \in Seq(Nat)

LEMMA TypeParts == KeyboardTypeOK <=> PollTypeOK /\ ControlTypes
  BY DEF KeyboardTypeOK, PollTypeOK, ControlTypes

(* The steps of polling leave the rest alone.                              *)
LEMMA PollStep ==
    ASSUME KeyboardTypeOK, UNCHANGED <<usbDevice, ep0, control>>,
           \/ \E r \in Reports : Type(r)
           \/ \E result \in Results : NoData(result)
           \/ \E acked \in BOOLEAN : Data(acked)
           \/ Poll \/ Relaunch \/ Fail \/ Receive
    PROVE  KeyboardTypeOK'
<1>1. PollTypeOK'
  BY PollTypes DEF PollTypeOK
<1>2. UNCHANGED <<config, address, configured, boot, plugged, heard, sent, ep0Toggle,
                  packet, state, request, stage, class, stored>>
  BY DEF usbDevice, ep0, control
<1>3. ControlTypes'
  BY <1>2, TypeParts DEF ControlTypes
<1> QED
  BY <1>1, <1>3 DEF KeyboardTypeOK, PollTypeOK, ControlTypes

LEMMA InitTypes == KeyboardInit => KeyboardTypeOK
<1> SUFFICES ASSUME KeyboardInit PROVE KeyboardTypeOK
  OBVIOUS
<1>1. <<>> \in Seq(Reports) /\ Len(<<>>) = 0 /\ <<>> \in Seq(Nat) /\ <<>> \in Seq(Seq(Nat))
  OBVIOUS
<1>2. 0 <= MaxPending /\ 0 \in 0 .. MaxDevices
  BY PollAssumption, KeyboardAssumption
<1>3. PollTypeOK
  BY <1>1, <1>2, Zeros DEF KeyboardInit, Init, PollTypeOK, Toggle, Results
<1>4. ControlTypes
  BY <1>1, <1>2 DEF KeyboardInit, ControlTypes, Toggle
<1> QED
  BY <1>3, <1>4, TypeParts

LEMMA ControlWireTypes ==
    ASSUME KeyboardTypeOK, TransferInv, ControlWire
    PROVE  KeyboardTypeOK'
<1> USE DEF KeyboardTypeOK
<1>1. ASSUME NEW result \in Results, NoAnswer(result) PROVE KeyboardTypeOK'
  BY <1>1 DEF NoAnswer, device, host, usbDevice, ep0, control
<1>2. ASSUME NEW result \in Results, StatusIn(result) PROVE KeyboardTypeOK'
  <2>1. configured' \in BOOLEAN /\ boot' \in BOOLEAN
    <3>1. configured' = (configured \/ request = "SetConf")
          /\ boot' = (IF request = "SetConf" THEN FALSE ELSE boot \/ request = "SetProto")
      BY <1>2 DEF StatusIn
    <3> QED
      BY <3>1
  <2>2. address' \in {0, 1, Gone}
    BY <1>2 DEF StatusIn
  <2>3. queue' \in Seq(Reports) /\ Len(queue') <= MaxPending /\ devToggle' \in Toggle
    <3>1. <<>> \in Seq(Reports) /\ Len(<<>>) = 0 /\ 0 <= MaxPending /\ 0 \in Toggle
      BY PollAssumption DEF Toggle
    <3> QED
      BY <1>2, <3>1 DEF StatusIn, device
  <2>4. UNCHANGED <<chipToggle, fifo, host, keycode, config, plugged, ep0, control>> /\ hrsl' = result
    BY <1>2 DEF StatusIn
  <2> QED
    BY <2>1, <2>2, <2>3, <2>4 DEF host, ep0, control
<1>3. ASSUME NEW acked \in BOOLEAN, HearSetup(acked) PROVE KeyboardTypeOK'
  <2>1. heard' \in Requests \cup {"none"} /\ sent' \in Nat /\ ep0Toggle' \in Toggle
    BY <1>3 DEF HearSetup, Toggle
  <2>2. hrsl' \in Results
    BY <1>3 DEF HearSetup, Results
  <2>3. UNCHANGED <<device, chipToggle, fifo, host, keycode, usbDevice, control>>
    BY <1>3 DEF HearSetup
  <2> QED
    BY <2>1, <2>2, <2>3 DEF device, host, usbDevice, control
<1>4. ASSUME NEW acked \in BOOLEAN, SendPacket(acked) PROVE KeyboardTypeOK'
  <2>1. pc = "ctrl" /\ stage = "data" /\ sent < Length[request]
    BY <1>4 DEF SendPacket, Reached
  <2>2. request \in Reads
    BY <2>1 DEF TransferInv, DataStage
  <2>3. Portion(sent) \in Nat
    BY <2>1, <2>2, PortionType
  <2>4. \/ sent' = sent + Portion(sent) /\ ep0Toggle' = 1 - ep0Toggle
        \/ sent' = sent /\ ep0Toggle' = ep0Toggle
    BY <1>4 DEF SendPacket, Portion
  <2>5. sent' \in Nat /\ ep0Toggle' \in Toggle
    BY <2>3, <2>4 DEF Toggle
  <2>6. \/ packet' = <<Bytes(sent, Portion(sent))>> /\ chipToggle' = 1 - chipToggle
           /\ hrsl' = "SUCCESS"
        \/ packet' = packet /\ chipToggle' = chipToggle /\ hrsl' = "TOGERR"
    BY <1>4 DEF SendPacket, Portion
  <2>7. <<Bytes(sent, Portion(sent))>> \in Seq(Seq(Nat))
    BY <2>3, BytesType
  <2>8. packet' \in Seq(Seq(Nat))
    BY <2>6, <2>7
  <2>9. chipToggle' \in Toggle /\ hrsl' \in Results
    BY <2>6 DEF Toggle, Results
  <2>10. UNCHANGED <<device, fifo, host, keycode, usbDevice, heard, state, request,
                     stage, class, stored>>
    BY <1>4 DEF SendPacket
  <2> QED
    BY <2>5, <2>8, <2>9, <2>10 DEF device, host, usbDevice
<1>5. ASSUME NEW acked \in BOOLEAN, StatusOut(acked) PROVE KeyboardTypeOK'
  BY <1>5 DEF StatusOut, device, host, usbDevice, ep0, control, Results
<1> QED
  BY <1>1, <1>2, <1>3, <1>4, <1>5 DEF ControlWire

LEMMA LaunchTypes ==
    ASSUME KeyboardTypeOK, NEW s \in {"setup", "data", "status"}, Launch(s)
    PROVE  /\ pc' = "ctrl" /\ stage' = s /\ hrsl' = "busy" /\ rcvToggle' = rcvToggle
           /\ nak_count' \in 0 .. NakLimit - 1 /\ retry_count' \in 0 .. RetryLimit - 1
  BY Zeros DEF Launch

LEMMA ControlFirmwareTypes ==
    ASSUME KeyboardTypeOK, TransferInv,
           Setup \/ AfterSetup \/ TakePacket \/ ControlRelaunch \/ Return \/ Detach
    PROVE  KeyboardTypeOK'
<1> USE DEF KeyboardTypeOK
<1>1. CASE Setup
  <2>1. Launch("setup")
    BY <1>1 DEF Setup
  <2>2. UNCHANGED <<device, chipToggle, fifo, keycode, usbDevice, ep0, packet, state,
                    request, class, stored>>
    BY <1>1 DEF Setup
  <2> QED
    BY <2>1, <2>2, LaunchTypes DEF device, usbDevice, ep0
<1>2. CASE AfterSetup
  <2>1. \/ Launch("data") /\ chipToggle' = 1 /\ stored' = <<>>
        \/ Launch("status") /\ UNCHANGED <<chipToggle, stored>>
    BY <1>2 DEF AfterSetup
  <2>2. UNCHANGED <<device, fifo, keycode, usbDevice, ep0, packet, state, request, class>>
    BY <1>2 DEF AfterSetup
  <2>3. chipToggle' \in Toggle /\ stored' \in Seq(Nat)
    <3>1. <<>> \in Seq(Nat)
      OBVIOUS
    <3>2. chipToggle' \in Toggle
      BY <2>1 DEF Toggle
    <3>3. stored' = <<>> \/ stored' = stored
      BY <2>1
    <3> QED
      BY <3>1, <3>2, <3>3
  <2>4. Launch("data") \/ Launch("status")
    BY <2>1
  <2> QED
    BY <2>2, <2>3, <2>4, LaunchTypes DEF device, usbDevice, ep0
<1>3. CASE TakePacket
  <2>1. Launch("data") \/ Launch("status")
    BY <1>3 DEF TakePacket
  <2>2. /\ UNCHANGED <<device, chipToggle, fifo, keycode, usbDevice, ep0, state, request, class>>
        /\ packet' = <<>> /\ stored' = stored \o packet[1] /\ packet # <<>>
    BY <1>3 DEF TakePacket
  <2>3. stored' \in Seq(Nat) /\ packet' \in Seq(Seq(Nat))
    <3>1. packet[1] \in Seq(Nat)
      BY <2>2
    <3>2. <<>> \in Seq(Seq(Nat))
      OBVIOUS
    <3> QED
      BY <2>2, <3>1, <3>2, ConcatProperties
  <2> QED
    BY <2>1, <2>2, <2>3, LaunchTypes DEF device, usbDevice, ep0
<1>4. CASE ControlRelaunch
  <2>1. nak_count' \in 0 .. NakLimit - 1 /\ retry_count' \in 0 .. RetryLimit - 1
    BY <1>4, PollAssumption, SMTT(30) DEF ControlRelaunch, Again, Recount
  <2>2. /\ UNCHANGED <<device, chipToggle, fifo, pc, rcvToggle, keycode, usbDevice, ep0, control>>
        /\ hrsl' = "busy"
    BY <1>4 DEF ControlRelaunch
  <2> QED
    BY <2>1, <2>2 DEF device, usbDevice, ep0, control
<1>5. CASE Return
  <2>1. /\ pc' = "idle"
        /\ UNCHANGED <<device, chip, nak_count, retry_count, keycode, usbDevice, ep0, packet,
                       stage, stored>>
    BY <1>5, ReturnCases
  <2>2. /\ state' \in {"detached", "enumerating", "RUNNING", "ERROR"}
        /\ request' \in Requests \cup {"none"} /\ class' \in {"none", "mouse", "keyboard"}
        /\ rcvToggle' \in Toggle
    BY <1>5, ReturnCases, FollowingValues DEF ProbeFails, Requests, Reads, Toggle
  <2> QED
    BY <2>1, <2>2 DEF device, chip, usbDevice, ep0
<1>6. CASE Detach
  BY <1>6 DEF Detach, vars, device, chip, host, usbDevice, ep0
<1> QED
  BY <1>1, <1>2, <1>3, <1>4, <1>5, <1>6

LEMMA DeviceTypes ==
    ASSUME KeyboardTypeOK, Unplug \/ PlugIn
    PROVE  KeyboardTypeOK'
<1> USE DEF KeyboardTypeOK
<1>1. CASE Unplug
  <2>1. address' = Gone /\ configured' = FALSE /\ boot' = FALSE
    BY <1>1 DEF Unplug
  <2>2. UNCHANGED <<vars, config, plugged, ep0, control>>
    BY <1>1 DEF Unplug
  <2> QED
    BY <2>1, <2>2, ZenonT(30) DEF vars, device, chip, host, ep0, control
<1>2. CASE PlugIn
  <2>1. plugged' \in 0 .. MaxDevices
    BY <1>2, KeyboardAssumption DEF PlugIn
  <2>2. queue' = <<>> /\ queue' \in Seq(Reports) /\ Len(queue') <= MaxPending
    BY <1>2, PollAssumption DEF PlugIn
  <2>3. UNCHANGED <<devToggle, chip, host, keycode, configured, boot, packet, stage, class, stored>>
    BY <1>2 DEF PlugIn
  <2>4. /\ config' \in Devices /\ address' = 0 /\ state' = "enumerating" /\ request' = "DevDescr8"
        /\ heard' = "none" /\ sent' = 0 /\ ep0Toggle' = 0
    BY <1>2 DEF PlugIn
  <2> QED
    BY <2>1, <2>2, <2>3, <2>4 DEF chip, host, Requests, Reads, Toggle
<1> QED
  BY <1>1, <1>2

(* One step, and what it is.                                               *)
PollOf ==
    /\ \/ \E r \in Reports : configured /\ Positions({"keyboard"}) # {} /\ Type(r)
       \/ (configured /\ Wire) \/ NoData("TIMEOUT")
       \/ KeyboardPoll \/ Relaunch \/ Fail \/ Receive
    /\ UNCHANGED <<usbDevice, ep0, control>>

LEMMA StepCases ==
    ASSUME KeyboardNext
    PROVE  \/ PollOf \/ ControlWire
           \/ Setup \/ AfterSetup \/ TakePacket \/ ControlRelaunch \/ Return \/ Detach
           \/ Unplug \/ PlugIn
  BY DEF KeyboardNext, KeyboardWire, KeyboardFirmware, TypeKey, PollOf

LEMMA TypesKept ==
    ASSUME KeyboardTypeOK, TransferInv, [KeyboardNext]_keyboardVars
    PROVE  KeyboardTypeOK'
<1>1. CASE PollOf
  <2>1. UNCHANGED <<usbDevice, ep0, control>>
    BY <1>1 DEF PollOf
  <2>2. "TIMEOUT" \in Results
    BY DEF Results
  <2>3. \/ \E r \in Reports : Type(r)
        \/ \E result \in Results : NoData(result)
        \/ \E acked \in BOOLEAN : Data(acked)
        \/ Poll \/ Relaunch \/ Fail \/ Receive
    BY <1>1, <2>2 DEF PollOf, Wire, KeyboardPoll
  <2> QED
    BY <2>1, <2>3, PollStep
<1>2. CASE UNCHANGED keyboardVars
  BY <1>2 DEF keyboardVars, vars, device, chip, host, usbDevice, ep0, control, KeyboardTypeOK
<1> QED
  BY <1>1, <1>2, StepCases, ControlWireTypes, ControlFirmwareTypes, DeviceTypes

-----------------------------------------------------------------------------
(* Control transfers.                                                      *)

(* A step of polling: a key, or one while no control transfer is made.     *)
LEMMA PollCases ==
    ASSUME PollOf
    PROVE  /\ UNCHANGED <<config, address, configured, boot, plugged, heard, sent, ep0Toggle,
                          packet, state, request, stage, class, stored>>
           /\ \/ /\ \E r \in Reports : Type(r)
                 /\ configured
                 /\ UNCHANGED <<devToggle, chipToggle, fifo, hrsl, pc, nak_count,
                                retry_count, rcvToggle, keycode>>
              \/ pc = "wait" /\ hrsl = "busy" /\ pc' = "wait" /\ rcvToggle' = rcvToggle
              \/ KeyboardPoll
              \/ pc = "wait" /\ hrsl # "busy" /\ (Relaunch \/ Fail \/ Receive)
                 /\ pc' \in {"idle", "wait"}
<1>1. UNCHANGED <<config, address, configured, boot, plugged, heard, sent, ep0Toggle,
                  packet, state, request, stage, class, stored>>
  BY DEF PollOf, usbDevice, ep0, control
<1>2. ASSUME NEW r \in Reports, configured, Type(r)
      PROVE  UNCHANGED <<devToggle, chipToggle, fifo, hrsl, pc, nak_count,
                         retry_count, rcvToggle, keycode>>
  BY <1>2 DEF Type, chip, host
<1>3. ASSUME NEW result, NoData(result)
      PROVE  pc = "wait" /\ hrsl = "busy" /\ pc' = "wait" /\ rcvToggle' = rcvToggle
  BY <1>3 DEF NoData, host
<1>4. ASSUME NEW acked, Data(acked)
      PROVE  pc = "wait" /\ hrsl = "busy" /\ pc' = "wait" /\ rcvToggle' = rcvToggle
  BY <1>4 DEF Data, host
<1>5. ASSUME Relaunch \/ Fail \/ Receive
      PROVE  pc = "wait" /\ hrsl # "busy" /\ pc' \in {"idle", "wait"}
  BY <1>5 DEF Relaunch, Fail, Receive
<1> QED
  BY <1>1, <1>2, <1>3, <1>4, <1>5 DEF PollOf, Wire

(* The invariant speaks of these variables only.                           *)
LEMMA TransferSame ==
    ASSUME TransferInv,
           UNCHANGED <<packet, pc, stage, hrsl, heard, request, sent, ep0Toggle, stored,
                       chipToggle>>
    PROVE  TransferInv'
  BY DEF TransferInv, Ended, DataStage, Had, Portion, WholeDescriptor

LEMMA TransferPoll ==
    ASSUME KeyboardTypeOK, TransferInv, PollOf
    PROVE  TransferInv'
<1>1. CASE /\ \E r \in Reports : Type(r)
           /\ UNCHANGED <<devToggle, chipToggle, fifo, hrsl, pc, nak_count,
                          retry_count, rcvToggle, keycode>>
  BY <1>1, PollCases, TransferSame
<1>2. CASE pc \in {"idle", "wait"} /\ pc' \in {"idle", "wait"}
  BY <1>2, PollCases DEF TransferInv, Ended, WholeDescriptor
<1>3. KeyboardPoll => pc = "idle" /\ pc' = "wait"
  BY DEF KeyboardPoll, Poll
<1> QED
  BY <1>1, <1>2, <1>3, PollCases

LEMMA TransferDevice ==
    ASSUME KeyboardTypeOK, TransferInv, RequestInv, Unplug \/ PlugIn \/ Detach
    PROVE  TransferInv'
<1>1. CASE Unplug
  BY <1>1, TransferSame DEF Unplug, vars, chip, host, ep0, control
<1>2. CASE PlugIn \/ Detach
  <2>1. pc = "idle" /\ pc' = "idle" /\ packet' = packet
    BY <1>2 DEF PlugIn, Detach, BetweenTasks, RequestInv, host, vars
  <2> QED
    BY <2>1 DEF TransferInv, Ended, WholeDescriptor
<1> QED
  BY <1>1, <1>2

LEMMA TransferWire ==
    ASSUME KeyboardTypeOK, TransferInv, ControlWire
    PROVE  TransferInv'
<1>1. ASSUME NEW result \in Results, NoAnswer(result) PROVE TransferInv'
  <2>1. /\ UNCHANGED <<packet, pc, stage, heard, request, sent, ep0Toggle, stored, chipToggle>>
        /\ hrsl = "busy" /\ hrsl' \in {"TIMEOUT", "NAK", "CRCERR"}
    BY <1>1 DEF NoAnswer, host, ep0, control
  <2> QED
    BY <2>1 DEF TransferInv, Ended, DataStage, Had, Portion, WholeDescriptor
<1>2. ASSUME NEW result \in Results, StatusIn(result) PROVE TransferInv'
  <2>1. /\ UNCHANGED <<packet, pc, stage, heard, request, sent, ep0Toggle, stored, chipToggle>>
        /\ stage = "status" /\ request \notin Reads
    BY <1>2 DEF StatusIn, host, ep0, control
  <2> QED
    BY <2>1 DEF TransferInv, Ended, WholeDescriptor
<1>3. ASSUME NEW acked \in BOOLEAN, StatusOut(acked) PROVE TransferInv'
  <2>1. /\ UNCHANGED <<packet, pc, stage, heard, request, sent, ep0Toggle, stored, chipToggle>>
        /\ stage = "status"
    BY <1>3 DEF StatusOut, host, ep0, control
  <2> QED
    BY <2>1 DEF TransferInv, Ended, WholeDescriptor
<1>4. ASSUME NEW acked \in BOOLEAN, HearSetup(acked) PROVE TransferInv'
  <2>1. /\ UNCHANGED <<packet, pc, stage, request, stored>>
        /\ stage = "setup" /\ heard' = request /\ sent' = 0 /\ ep0Toggle' = 1
    BY <1>4 DEF HearSetup, host, control
  <2> QED
    BY <2>1 DEF TransferInv, Ended, WholeDescriptor
<1>5. ASSUME NEW acked \in BOOLEAN, SendPacket(acked) PROVE TransferInv'
  <2> DEFINE a == Len(stored)
             k == Portion(sent)
  <2>1. /\ pc = "ctrl" /\ stage = "data" /\ hrsl = "busy" /\ sent < Length[request]
        /\ UNCHANGED <<pc, stage, heard, request, stored>>
    BY <1>5 DEF SendPacket, Reached, host
  <2>2. packet = <<>> /\ DataStage
    BY <2>1 DEF TransferInv, Ended
  <2>3. a \in Nat /\ Had = a /\ request \in Reads /\ sent \in Nat
    BY <2>2, LenProperties DEF Had, DataStage, KeyboardTypeOK
  <2>4. k \in Nat /\ k >= 1
    BY <2>1, <2>3, PortionType
  <2>5. \/ sent' = sent + k /\ ep0Toggle' = 1 - ep0Toggle
        \/ sent' = sent /\ ep0Toggle' = ep0Toggle
    BY <1>5 DEF SendPacket, Portion
  <2>6. \/ /\ ep0Toggle = chipToggle /\ packet' = <<Bytes(sent, k)>>
           /\ chipToggle' = 1 - chipToggle /\ hrsl' = "SUCCESS"
        \/ /\ ep0Toggle # chipToggle /\ packet' = packet
           /\ chipToggle' = chipToggle /\ hrsl' = "TOGERR"
    BY <1>5 DEF SendPacket, Portion
  <2>7. ep0Toggle \in {0, 1} /\ chipToggle \in {0, 1}
    BY DEF KeyboardTypeOK, Toggle
  <2>8. packet' # <<>> <=> Ended("data")'
    BY <2>1, <2>2, <2>6 DEF Ended
  <2>9. DataStage'
    <3>1. CASE ep0Toggle = chipToggle
      <4>1. sent = a
        BY <2>2, <2>3, <3>1 DEF DataStage
      <4>2. packet' = <<Bytes(a, k)>> /\ Len(Bytes(a, k)) = k /\ chipToggle' = 1 - chipToggle
        BY <2>3, <2>4, <2>6, <3>1, <4>1, BytesType
      <4>3. Had' = a + k
        BY <2>1, <4>2 DEF Had
      <4>4. k = Portion(a)'
        BY <2>1, <4>1 DEF Portion
      <4>5. \/ ep0Toggle' = chipToggle' /\ sent' = Had'
            \/ ep0Toggle' # chipToggle' /\ sent' = a
        BY <2>5, <2>7, <3>1, <4>1, <4>2, <4>3
      <4> HIDE DEF k
      <4> QED
        BY <2>1, <2>2, <4>1, <4>2, <4>3, <4>4, <4>5 DEF DataStage
    <3>2. CASE ep0Toggle # chipToggle
      <4>1. sent + k = a /\ packet' = <<>> /\ chipToggle' = chipToggle
        BY <2>2, <2>3, <2>6, <3>2 DEF DataStage
      <4>2. Had' = a
        BY <2>1, <2>3, <4>1 DEF Had
      <4>3. \/ ep0Toggle' = chipToggle' /\ sent' = Had'
            \/ ep0Toggle' # chipToggle' /\ sent' = sent
        BY <2>5, <2>7, <3>2, <4>1, <4>2
      <4>4. sent' = sent => Portion(sent)' = k
        BY <2>1 DEF Portion
      <4> HIDE DEF k
      <4> QED
        BY <2>1, <2>2, <4>1, <4>2, <4>3, <4>4 DEF DataStage
    <3> QED
      BY <3>1, <3>2
  <2> QED
    BY <2>1, <2>8, <2>9 DEF TransferInv, Ended, WholeDescriptor
<1> QED
  BY <1>1, <1>2, <1>3, <1>4, <1>5 DEF ControlWire

LEMMA TransferFirmware ==
    ASSUME KeyboardTypeOK, TransferInv,
           Setup \/ AfterSetup \/ TakePacket \/ ControlRelaunch \/ Return
    PROVE  TransferInv'
<1>1. CASE Setup
  <2>1. pc = "idle" /\ pc' = "ctrl" /\ stage' = "setup" /\ hrsl' = "busy" /\ packet' = packet
    BY <1>1 DEF Setup, Launch
  <2> QED
    BY <2>1 DEF TransferInv, Ended, WholeDescriptor
<1>2. CASE AfterSetup
  <2>1. /\ pc = "ctrl" /\ stage = "setup" /\ hrsl = "SUCCESS" /\ pc' = "ctrl" /\ hrsl' = "busy"
        /\ UNCHANGED <<heard, sent, ep0Toggle, packet, request>>
    BY <1>2 DEF AfterSetup, Ended, Launch, ep0
  <2>2. packet = <<>> /\ heard = request /\ sent = 0 /\ ep0Toggle = 1
    BY <2>1 DEF TransferInv, Ended
  <2>3. CASE request \in Reads /\ stage' = "data" /\ chipToggle' = 1 /\ stored' = <<>>
    <3>1. <<>> = Bytes(0, 0) /\ Len(<<>>) = 0
      BY DEF Bytes
    <3>2. 0 < Length[request]
      BY <2>3, KeyboardAssumption
    <3>3. DataStage'
      BY <2>1, <2>2, <2>3, <3>1, <3>2 DEF DataStage, Had
    <3> QED
      BY <2>1, <2>2, <2>3, <3>3 DEF TransferInv, Ended, WholeDescriptor
  <2>4. CASE request \notin Reads /\ stage' = "status"
    BY <2>1, <2>2, <2>4 DEF TransferInv, Ended, WholeDescriptor
  <2> QED
    BY <1>2, <2>3, <2>4 DEF AfterSetup, Launch
<1>3. CASE TakePacket
  <2> DEFINE a == Len(stored)
             k == Portion(a)
  <2>1. /\ pc = "ctrl" /\ stage = "data" /\ hrsl = "SUCCESS" /\ packet # <<>>
        /\ pc' = "ctrl" /\ hrsl' = "busy" /\ packet' = <<>>
        /\ stored' = stored \o packet[1]
        /\ stage' = IF Complete(packet[1], stored') THEN "status" ELSE "data"
        /\ UNCHANGED <<chipToggle, heard, sent, ep0Toggle, request>>
    BY <1>3 DEF TakePacket, Ended, Launch, ep0
  <2>2. DataStage
    BY <2>1 DEF TransferInv
  <2>3. /\ request \in Reads /\ heard = request /\ a \in Nat /\ a < Length[request]
        /\ stored = Bytes(0, a) /\ packet = <<Bytes(a, k)>>
    BY <2>1, <2>2, LenProperties DEF DataStage, KeyboardTypeOK
  <2>4. /\ k \in Nat /\ k >= 1 /\ a + k <= Length[request]
        /\ k < MaxPkt => a + k = Length[request]
        /\ Length[request] \in Nat /\ MaxPkt \in Nat
    BY <2>3, PortionType
  <2> HIDE DEF k
  <2>5. packet[1] = Bytes(a, k) /\ Len(packet[1]) = k
    BY <2>3, <2>4, BytesType
  <2>6. stored' = Bytes(0, a + k)
    <3>1. stored' = Bytes(0, a) \o Bytes(a, k)
      BY <2>1, <2>3, <2>5
    <3> HIDE DEF a
    <3> QED
      BY <2>3, <2>4, <3>1, BytesConcat
  <2>7. Len(stored') = a + k
    <3>1. a + k \in Nat /\ 0 \in Nat
      BY <2>3, <2>4
    <3> HIDE DEF a
    <3> QED
      BY <2>6, <3>1, BytesType
  <2>8. Had = a + k /\ Had' = a + k
    BY <2>1, <2>3, <2>4, <2>5, <2>7 DEF Had
  <2> HIDE DEF a
  <2>9. CASE stage' = "status"
    <3>1. Complete(packet[1], stored')
      BY <2>1, <2>9
    <3>2. k < MaxPkt \/ a + k >= Length[request]
      BY <2>5, <2>7, <3>1 DEF Complete
    <3>3. a + k = Length[request]
      BY <2>3, <2>4, <3>2
    <3>4. WholeDescriptor'
      BY <2>1, <2>6, <3>3 DEF WholeDescriptor
    <3> QED
      BY <2>1, <2>9, <3>4 DEF TransferInv, Ended
  <2>10. CASE stage' = "data"
    <3>1. ~ Complete(packet[1], stored')
      BY <2>1, <2>10
    <3>2. a + k < Length[request]
      BY <2>3, <2>4, <2>5, <2>7, <3>1 DEF Complete
    <3>3. Portion(sent)' = Portion(sent)
      BY <2>1 DEF Portion
    <3>4. \/ ep0Toggle = chipToggle /\ sent = Had
          \/ ep0Toggle # chipToggle /\ sent < Length[request] /\ sent + Portion(sent) = Had
      BY <2>2 DEF DataStage
    <3>5. \/ ep0Toggle' = chipToggle' /\ sent' = Had'
          \/ /\ ep0Toggle' # chipToggle' /\ sent' < Length[request']
             /\ sent' + Portion(sent)' = Had'
      BY <2>1, <2>8, <3>3, <3>4
    <3>6. DataStage'
      BY <2>1, <2>3, <2>6, <2>7, <3>2, <3>5 DEF DataStage
    <3> QED
      BY <2>1, <2>10, <3>6 DEF TransferInv, Ended, WholeDescriptor
  <2> QED
    BY <2>1, <2>9, <2>10
<1>4. CASE ControlRelaunch
  <2>1. /\ UNCHANGED <<packet, pc, stage, heard, request, sent, ep0Toggle, stored, chipToggle>>
        /\ hrsl # "SUCCESS" /\ hrsl' = "busy"
    BY <1>4 DEF ControlRelaunch, Again, ep0, control
  <2> QED
    BY <2>1 DEF TransferInv, Ended, DataStage, Had, Portion, WholeDescriptor
<1>5. CASE Return
  <2>1. pc = "ctrl" /\ pc' = "idle" /\ packet' = packet /\ (Ended("status") \/ hrsl # "SUCCESS")
    BY <1>5, ReturnCases
  <2> QED
    BY <2>1 DEF TransferInv, Ended, WholeDescriptor
<1> QED
  BY <1>1, <1>2, <1>3, <1>4, <1>5

-----------------------------------------------------------------------------
(* The order of the requests.                                              *)

(* The wire of a control transfer and its stages leave the order alone.    *)
LEMMA TransferSteps ==
    ASSUME ControlWire \/ AfterSetup \/ TakePacket \/ ControlRelaunch
    PROVE  /\ pc = "ctrl" /\ pc' = "ctrl"
           /\ UNCHANGED <<state, request, class, config, plugged, fifo, rcvToggle, keycode>>
<1>1. ASSUME NEW result, NoAnswer(result) \/ StatusIn(result)
      PROVE  /\ pc = "ctrl" /\ pc' = "ctrl"
             /\ UNCHANGED <<state, request, class, config, plugged, fifo, rcvToggle, keycode>>
  BY <1>1 DEF NoAnswer, StatusIn, Reached, host, control, usbDevice
<1>2. ASSUME NEW acked, HearSetup(acked) \/ SendPacket(acked) \/ StatusOut(acked)
      PROVE  /\ pc = "ctrl" /\ pc' = "ctrl"
             /\ UNCHANGED <<state, request, class, config, plugged, fifo, rcvToggle, keycode>>
  BY <1>2 DEF HearSetup, SendPacket, StatusOut, Reached, host, control, usbDevice
<1>3. CASE AfterSetup \/ TakePacket
  BY <1>3 DEF AfterSetup, TakePacket, Ended, Launch, usbDevice
<1>4. CASE ControlRelaunch
  BY <1>4 DEF ControlRelaunch, control, usbDevice
<1> QED
  BY <1>1, <1>2, <1>3, <1>4 DEF ControlWire

(* Where a step can take the address.                                      *)
LEMMA AddressSteps ==
    ASSUME ControlWire \/ AfterSetup \/ TakePacket \/ ControlRelaunch \/ Setup
    PROVE  address' = address \/ (address # Gone /\ address' \in {0, 1})
<1>1. ASSUME NEW result, NoAnswer(result) PROVE address' = address
  BY <1>1 DEF NoAnswer, usbDevice
<1>2. ASSUME NEW result, StatusIn(result)
      PROVE  address' = address \/ (address # Gone /\ address' \in {0, 1})
  BY <1>2 DEF StatusIn, Reached, AddressOf, Gone
<1>3. ASSUME NEW acked, HearSetup(acked) \/ SendPacket(acked) \/ StatusOut(acked)
      PROVE  address' = address
  BY <1>3 DEF HearSetup, SendPacket, StatusOut, usbDevice
<1>4. CASE AfterSetup \/ TakePacket \/ ControlRelaunch \/ Setup
  BY <1>4 DEF AfterSetup, TakePacket, ControlRelaunch, Setup, usbDevice
<1> QED
  BY <1>1, <1>2, <1>3, <1>4 DEF ControlWire

LEMMA RequestKept ==
    ASSUME KeyboardTypeOK, RequestInv, [KeyboardNext]_keyboardVars
    PROVE  RequestInv'
<1>1. CASE PollOf
  <2>1. UNCHANGED <<address, state, request, class>>
    BY <1>1, PollCases
  <2>2. \/ pc' = pc
        \/ state = "RUNNING" /\ request = "none" /\ pc' \in {"idle", "wait"}
    BY <1>1, PollCases DEF KeyboardPoll, Poll, RequestInv
  <2> QED
    BY <2>1, <2>2 DEF RequestInv
<1>2. CASE ControlWire \/ AfterSetup \/ TakePacket \/ ControlRelaunch
  <2>1. pc = "ctrl" /\ pc' = "ctrl" /\ UNCHANGED <<state, request, class>>
    BY <1>2, TransferSteps
  <2> QED
    BY <2>1 DEF RequestInv
<1>3. CASE Setup
  <2>1. pc' = "ctrl" /\ request # "none" /\ UNCHANGED <<state, request, class>>
    BY <1>3 DEF Setup, Launch
  <2> QED
    BY <2>1 DEF RequestInv
<1>4. CASE Return
  <2>1. pc = "ctrl" /\ pc' = "idle" /\ address' = address /\ state \in {"enumerating", "RUNNING"}
    BY <1>4, ReturnCases DEF usbDevice, RequestInv, KeyboardTypeOK
  <2>2. CASE /\ request \in {"DevDescr8", "DevDescr", "SetAddr", "ConfDescr", "SetConf",
                             "GetIdle", "GetProto"}
             /\ request' = Following[request] /\ state' = state
             /\ class' = IF request = "SetAddr" THEN "mouse" ELSE class
    BY <2>1, <2>2, FollowingValues DEF RequestInv
  <2>3. CASE /\ request \in {"DevDescr8", "SetAddr"}
             /\ state' = "ERROR" /\ request' = "none"
    BY <2>1, <2>3 DEF RequestInv
  <2>4. CASE request \in {"ConfDescr", "Config", "SetConf", "SetProto"} /\ ProbeFails
    BY <2>1, <2>4 DEF RequestInv, ProbeFails
  <2>5. CASE request = "Config" /\ request' = "SetConf" /\ UNCHANGED <<class, state>>
    BY <2>1, <2>5 DEF RequestInv
  <2>6. CASE request = "SetProto" /\ state' = "RUNNING" /\ request' = "GetIdle" /\ class' = class
    BY <2>1, <2>6 DEF RequestInv
  <2> QED
    BY <1>4, <2>2, <2>3, <2>4, <2>5, <2>6, ReturnCases
<1>5. CASE Detach
  <2>1. pc = "idle" /\ pc' = "idle" /\ state' = "detached" /\ request' = "none" /\ address' = Gone
    BY <1>5 DEF Detach, BetweenTasks, vars, host, usbDevice
  <2> QED
    BY <2>1 DEF RequestInv
<1>6. CASE Unplug
  <2>1. address' = Gone /\ UNCHANGED <<pc, state, request, class>>
    BY <1>6 DEF Unplug, vars, host, control
  <2> QED
    BY <2>1 DEF RequestInv
<1>7. CASE PlugIn
  <2>1. state = "detached" /\ pc' = pc /\ state' = "enumerating" /\ request' = "DevDescr8"
    BY <1>7 DEF PlugIn, host
  <2> QED
    BY <2>1 DEF RequestInv
<1>8. CASE UNCHANGED keyboardVars
  <2>1. UNCHANGED <<pc, state, request, class, address>>
    BY <1>8 DEF keyboardVars, vars, host, control, usbDevice
  <2> QED
    BY <2>1 DEF RequestInv
<1> QED
  BY <1>1, <1>2, <1>3, <1>4, <1>5, <1>6, <1>7, <1>8, StepCases

-----------------------------------------------------------------------------
(* What is polled is ready to be polled.                                   *)

LEMMA ReadySame ==
    ASSUME ReadyInv, ~ Ended("status")',
           UNCHANGED <<config, class, address, configured, boot, request, state>>
    PROVE  ReadyInv'
<1>1. Matches' <=> Matches
  BY DEF Matches, Positions
<1>2. (configured' <=> configured) /\ (boot' <=> boot)
  OBVIOUS
<1> QED
  BY <1>1, <1>2 DEF ReadyInv, ReadyWhenRunning

LEMMA ReadyPoll ==
    ASSUME KeyboardTypeOK, ReadyInv, PollOf
    PROVE  ReadyInv'
<1>1. UNCHANGED <<config, class, address, configured, boot, request, state, stage>>
  BY PollCases
<1>2. UNCHANGED <<pc, hrsl>> \/ pc' # "ctrl"
  BY PollCases DEF KeyboardPoll, Poll
<1>3. CASE pc' # "ctrl"
  BY <1>1, <1>3, ReadySame DEF Ended
<1>4. CASE UNCHANGED <<pc, hrsl>>
  <2>1. (Matches' <=> Matches) /\ (Ended("status")' <=> Ended("status"))
        /\ (configured' <=> configured) /\ (boot' <=> boot)
    BY <1>1, <1>4 DEF Matches, Positions, Ended
  <2> QED
    BY <1>1, <2>1 DEF ReadyInv, ReadyWhenRunning
<1> QED
  BY <1>2, <1>3, <1>4

LEMMA ReadyTransfer ==
    ASSUME KeyboardTypeOK, RequestInv, ReadyInv,
           ControlWire \/ AfterSetup \/ TakePacket \/ ControlRelaunch \/ Setup
    PROVE  ReadyInv'
<1>1. ASSUME NEW result, NoAnswer(result) PROVE ReadyInv'
  <2>1. /\ UNCHANGED <<config, class, address, configured, boot, request, state>>
        /\ hrsl' # "SUCCESS"
    BY <1>1 DEF NoAnswer, usbDevice, control
  <2> QED
    BY <2>1, ReadySame DEF Ended
<1>2. ASSUME NEW acked, HearSetup(acked) \/ SendPacket(acked) PROVE ReadyInv'
  <2>1. /\ UNCHANGED <<config, class, address, configured, boot, request, state>>
        /\ stage' # "status"
    BY <1>2 DEF HearSetup, SendPacket, usbDevice, control
  <2> QED
    BY <2>1, ReadySame DEF Ended
<1>3. ASSUME NEW acked, StatusOut(acked) PROVE ReadyInv'
  <2>1. /\ UNCHANGED <<config, class, address, configured, boot, request, state>>
        /\ request \notin {"SetConf", "SetProto"}
    BY <1>3 DEF StatusOut, usbDevice, control, Reads
  <2>2. (Matches' <=> Matches) /\ (configured' <=> configured) /\ (boot' <=> boot)
    BY <2>1 DEF Matches, Positions
  <2> QED
    BY <2>1, <2>2 DEF ReadyInv, ReadyWhenRunning
<1>4. ASSUME NEW result, StatusIn(result) PROVE ReadyInv'
  <2>1. /\ UNCHANGED <<config, class, request, state>>
        /\ pc = "ctrl" /\ request \notin Reads /\ address = AddressOf(request)
    BY <1>4 DEF StatusIn, Reached, control
  <2>2. state # "RUNNING" /\ request # "none"
    BY <2>1 DEF RequestInv, Reads
  <2>3. Matches' <=> Matches
    BY <2>1 DEF Matches, Positions
  <2>4. configured' <=> configured \/ request = "SetConf"
    BY <1>4 DEF StatusIn
  <2>5. request = "SetProto" => boot'
    BY <1>4 DEF StatusIn
  <2>6. /\ request = "SetAddr" => address' \in {0, 1}
        /\ request # "SetAddr" => address' = address
    BY <1>4 DEF StatusIn
  <2>7. address \in {0, 1} /\ address' \in {0, 1} /\ (request \in {"SetConf", "SetProto"} => address' = 1)
    BY <2>1, <2>6 DEF AddressOf
  <2>8. address # Gone /\ address' # Gone
    BY <2>7 DEF Gone
  <2>9. request = "SetProto" => configured
    BY <2>8 DEF ReadyInv
  <2>10. request \in {"SetConf", "SetProto"} => Matches
    BY DEF ReadyInv
  <2> HIDE <1>4
  <2> QED
    BY <2>1, <2>2, <2>3, <2>4, <2>5, <2>7, <2>8, <2>9, <2>10 DEF ReadyInv, ReadyWhenRunning
<1>5. CASE AfterSetup \/ TakePacket \/ ControlRelaunch \/ Setup
  <2>1. /\ UNCHANGED <<config, class, address, configured, boot, request, state>>
        /\ hrsl' # "SUCCESS"
    BY <1>5 DEF AfterSetup, TakePacket, ControlRelaunch, Setup, Launch, usbDevice, control
  <2> QED
    BY <2>1, ReadySame DEF Ended
<1> QED
  BY <1>1, <1>2, <1>3, <1>4, <1>5 DEF ControlWire

LEMMA ReadyReturn ==
    ASSUME KeyboardTypeOK, RequestInv, ReadyInv, Return
    PROVE  ReadyInv'
<1>1. /\ pc = "ctrl" /\ pc' = "idle" /\ UNCHANGED <<config, address>>
      /\ (configured' <=> configured) /\ (boot' <=> boot)
  <2>1. pc = "ctrl" /\ pc' = "idle" /\ UNCHANGED usbDevice
    BY ReturnCases
  <2> QED
    BY <2>1 DEF usbDevice
<1>2. ~ Ended("status")'
  BY <1>1 DEF Ended
<1>3. class' = class => (Matches' <=> Matches)
  BY <1>1 DEF Matches, Positions
<1>4. state \in {"enumerating", "RUNNING"}
  BY <1>1 DEF RequestInv, KeyboardTypeOK
<1>5. CASE request \in {"DevDescr8", "DevDescr", "SetAddr", "ConfDescr"}
  <2>1. /\ state' # "RUNNING" /\ request' \notin {"SetConf", "SetProto"}
    BY <1>4, <1>5, ReturnCases, FollowingValues DEF RequestInv, ProbeFails
  <2> QED
    BY <1>1, <1>2, <2>1 DEF ReadyInv, ReadyWhenRunning
<1>6. CASE request \in {"GetIdle", "GetProto"}
  <2>1. /\ state' = state /\ class' = class /\ request' \notin {"SetConf", "SetProto"}
    BY <1>6, ReturnCases, FollowingValues
  <2> QED
    BY <1>1, <1>2, <1>3, <2>1 DEF ReadyInv, ReadyWhenRunning
<1>7. CASE request = "Config"
  <2>1. /\ state' # "RUNNING" /\ request' # "SetProto"
        /\ request' = "SetConf" => class' = class /\ Matches
    BY <1>4, <1>7, ReturnCases DEF RequestInv, ProbeFails
  <2> QED
    BY <1>1, <1>2, <1>3, <2>1 DEF ReadyInv, ReadyWhenRunning
<1>8. CASE request = "SetConf"
  <2>1. /\ state' # "RUNNING" /\ request' # "SetConf"
        /\ request' = "SetProto" => class' = class /\ Ended("status")
    BY <1>4, <1>8, ReturnCases, FollowingValues DEF RequestInv, ProbeFails
  <2>2. Matches /\ (address # Gone /\ Ended("status") => address = 1 /\ configured)
    BY <1>8 DEF ReadyInv
  <2> QED
    BY <1>1, <1>2, <1>3, <2>1, <2>2 DEF ReadyInv, ReadyWhenRunning
<1>9. CASE request = "SetProto"
  <2>1. /\ request' \notin {"SetConf", "SetProto"}
        /\ state' = "RUNNING" => class' = class /\ Ended("status")
    BY <1>4, <1>9, ReturnCases DEF RequestInv, ProbeFails
  <2>2. Matches /\ (address # Gone => address = 1 /\ configured /\ (Ended("status") => boot))
    BY <1>9 DEF ReadyInv
  <2>3. class \in {"mouse", "keyboard"}
    BY <1>9 DEF RequestInv
  <2> QED
    BY <1>1, <1>2, <1>3, <2>1, <2>2, <2>3 DEF ReadyInv, ReadyWhenRunning
<1>10. request # "none"
  BY <1>1 DEF RequestInv
<1> QED
  BY <1>5, <1>6, <1>7, <1>8, <1>9, <1>10 DEF KeyboardTypeOK, Requests, Reads

LEMMA ReadyKept ==
    ASSUME KeyboardTypeOK, RequestInv, ReadyInv, [KeyboardNext]_keyboardVars
    PROVE  ReadyInv'
<1>1. CASE Detach
  <2>1. /\ state' = "detached" /\ request' = "none" /\ address' = address
        /\ (configured' <=> configured)
    BY <1>1 DEF Detach, usbDevice
  <2> QED
    BY <2>1 DEF ReadyInv, ReadyWhenRunning
<1>2. CASE Unplug
  <2>1. address' = Gone /\ ~ configured' /\ UNCHANGED <<config, class, request, state>>
    BY <1>2 DEF Unplug, control
  <2>2. Matches' <=> Matches
    BY <2>1 DEF Matches, Positions
  <2> QED
    BY <2>1, <2>2 DEF ReadyInv, ReadyWhenRunning
<1>3. CASE PlugIn
  <2>1. state = "detached" /\ address' = 0 /\ state' = "enumerating" /\ request' = "DevDescr8"
        /\ (configured' <=> configured)
    BY <1>3 DEF PlugIn
  <2>2. ~ configured
    BY <2>1 DEF ReadyInv, RequestInv
  <2> QED
    BY <2>1, <2>2 DEF ReadyInv, ReadyWhenRunning
<1>4. CASE UNCHANGED keyboardVars
  <2>1. UNCHANGED <<config, class, address, configured, boot, request, state, pc, stage, hrsl>>
    BY <1>4 DEF keyboardVars, vars, chip, host, usbDevice, control
  <2>2. (Matches' <=> Matches) /\ (Ended("status")' <=> Ended("status"))
        /\ (configured' <=> configured) /\ (boot' <=> boot)
    BY <2>1 DEF Matches, Positions, Ended
  <2> QED
    BY <2>1, <2>2 DEF ReadyInv, ReadyWhenRunning
<1> QED
  BY <1>1, <1>2, <1>3, <1>4, StepCases, ReadyPoll, ReadyTransfer, ReadyReturn

-----------------------------------------------------------------------------
(* The toggles.                                                            *)

(* In the polling phase the invariant is the one of UsbPoll.               *)
LEMMA PollingIsPoll ==
    ASSUME KeyboardTypeOK, TogglesInv, state = "RUNNING", pc # "ctrl"
    PROVE  IInv
<1>1. TypeOK
  BY DEF KeyboardTypeOK, TypeOK
<1>2. ToggleInv
  BY DEF TogglesInv, ToggleInv
<1> QED
  BY <1>1, <1>2 DEF IInv

(* A step of polling is one of UsbPoll, when it is not a key of a keyboard *)
(* that is not polled yet.                                                 *)
LEMMA PollNext ==
    ASSUME RequestInv, PollOf
    PROVE  Next /\ (\/ state = "RUNNING" /\ request = "none" /\ pc # "ctrl"
                    \/ \E r \in Reports : Type(r))
<1>1. "TIMEOUT" \in Results
  BY DEF Results
<1>2. Next
  BY <1>1 DEF PollOf, KeyboardPoll, Next, Wire, Firmware
<1>3. CASE pc = "wait"
  BY <1>2, <1>3 DEF RequestInv
<1>4. CASE KeyboardPoll
  BY <1>2, <1>4 DEF KeyboardPoll, Poll
<1> QED
  BY <1>2, <1>3, <1>4, PollCases

LEMMA TogglesPoll ==
    ASSUME KeyboardTypeOK, RequestInv, TogglesInv, PollOf
    PROVE  TogglesInv'
<1>1. CASE state = "RUNNING" /\ request = "none" /\ pc # "ctrl"
  <2>1. IInv'
    BY <1>1, PollingIsPoll, PollNext, Preserved
  <2>2. state' = "RUNNING" /\ request' = "none"
    BY <1>1, PollCases
  <2> QED
    BY <2>1, <2>2 DEF IInv, ToggleInv, TogglesInv
<1>2. ASSUME NEW r \in Reports, Type(r) PROVE TogglesInv'
  <2>1. queue' # <<>>
    BY <1>2, Appended, ZenonT(30) DEF Type, KeyboardTypeOK
  <2>2. UNCHANGED <<devToggle, chipToggle, fifo, hrsl, pc, rcvToggle>>
    BY <1>2 DEF Type, chip, host
  <2>3. UNCHANGED <<request, state, stage>> /\ (configured' <=> configured)
    BY PollCases
  <2> QED
    BY <2>1, <2>2, <2>3 DEF TogglesInv, Expected, Ended
<1> QED
  BY <1>1, <1>2, PollNext

LEMMA TogglesTransfer ==
    ASSUME KeyboardTypeOK, RequestInv, TogglesInv,
           ControlWire \/ AfterSetup \/ TakePacket \/ ControlRelaunch \/ Setup
    PROVE  TogglesInv'
<1>1. /\ pc \in {"idle", "ctrl"} /\ pc' = "ctrl"
      /\ UNCHANGED <<state, request, fifo, rcvToggle>>
  BY TransferSteps DEF Setup, Launch
<1>2. fifo = <<>>
  BY <1>1 DEF TogglesInv
<1>3. CASE /\ UNCHANGED device /\ (configured' <=> configured)
           /\ ~ (request = "SetConf" /\ Ended("status")')
  <2>1. UNCHANGED <<queue, devToggle>>
    BY <1>3 DEF device
  <2> QED
    BY <1>1, <1>2, <1>3, <2>1 DEF TogglesInv, Expected
<1>4. ASSUME NEW result, NoAnswer(result) PROVE TogglesInv'
  <2>1. UNCHANGED device /\ UNCHANGED usbDevice /\ hrsl' # "SUCCESS"
    BY <1>4 DEF NoAnswer
  <2>2. configured' <=> configured
    BY <2>1 DEF usbDevice
  <2> QED
    BY <1>3, <2>1, <2>2 DEF Ended
<1>5. ASSUME NEW acked, HearSetup(acked) \/ SendPacket(acked) PROVE TogglesInv'
  <2>1. UNCHANGED device /\ UNCHANGED usbDevice /\ stage' # "status"
    BY <1>5 DEF HearSetup, SendPacket, control
  <2>2. configured' <=> configured
    BY <2>1 DEF usbDevice
  <2> QED
    BY <1>3, <2>1, <2>2 DEF Ended
<1>6. ASSUME NEW acked, StatusOut(acked) PROVE TogglesInv'
  <2>1. UNCHANGED device /\ UNCHANGED usbDevice /\ request # "SetConf"
    BY <1>6 DEF StatusOut, Reads
  <2>2. configured' <=> configured
    BY <2>1 DEF usbDevice
  <2> QED
    BY <1>3, <2>1, <2>2
<1>7. ASSUME NEW result, StatusIn(result) PROVE TogglesInv'
  <2>1. CASE request # "SetConf"
    <3>1. UNCHANGED device /\ (configured' <=> configured)
      BY <1>7, <2>1 DEF StatusIn
    <3> QED
      BY <1>3, <2>1, <3>1
  <2>2. CASE request = "SetConf"
    <3>1. devToggle' = 0
      BY <1>7, <2>2 DEF StatusIn
    <3>2. state # "RUNNING" /\ rcvToggle = 0
      BY <2>2 DEF RequestInv, TogglesInv
    <3> QED
      BY <1>1, <1>2, <3>1, <3>2 DEF TogglesInv
  <2> QED
    BY <2>1, <2>2
<1>8. CASE AfterSetup \/ TakePacket \/ ControlRelaunch \/ Setup
  <2>1. UNCHANGED device /\ UNCHANGED usbDevice /\ hrsl' # "SUCCESS"
    BY <1>8 DEF AfterSetup, TakePacket, ControlRelaunch, Setup, Launch
  <2>2. configured' <=> configured
    BY <2>1 DEF usbDevice
  <2> QED
    BY <1>3, <2>1, <2>2 DEF Ended
<1> QED
  BY <1>4, <1>5, <1>6, <1>7, <1>8 DEF ControlWire

LEMMA TogglesReturn ==
    ASSUME KeyboardTypeOK, RequestInv, TogglesInv, Return
    PROVE  TogglesInv'
<1>1. /\ pc = "ctrl" /\ pc' = "idle" /\ hrsl' # "busy"
      /\ UNCHANGED <<queue, devToggle, chipToggle, fifo>>
      /\ (configured' <=> configured)
  <2>1. /\ pc = "ctrl" /\ pc' = "idle" /\ hrsl # "busy"
        /\ UNCHANGED <<device, chip, usbDevice>>
    BY ReturnCases
  <2> QED
    BY <2>1 DEF device, chip, usbDevice
<1>2. fifo = <<>>
  BY <1>1 DEF TogglesInv
<1>3. request' = "SetConf" => rcvToggle' = 0
  BY ReturnCases, FollowingValues DEF ProbeFails
<1>4. rcvToggle' = rcvToggle \/ (request = "Config" /\ rcvToggle' = 0)
  BY ReturnCases
<1>5. state' # "RUNNING" => state # "RUNNING"
  BY ReturnCases DEF RequestInv
<1>6. request' = "SetProto" => request = "SetConf" /\ Ended("status")
  BY ReturnCases, FollowingValues DEF ProbeFails
<1>7. state' = "RUNNING" => /\ state = "RUNNING" \/ request = "SetProto"
                            /\ rcvToggle' = rcvToggle
  <2>1. state = "RUNNING" => request # "Config"
    BY DEF RequestInv
  <2>2. state' = "RUNNING" => state = "RUNNING" \/ request = "SetProto"
    BY ReturnCases DEF ProbeFails
  <2> QED
    BY <1>4, <2>1, <2>2
<1>8. request = "SetProto" /\ state # "RUNNING" => devToggle = 0 /\ rcvToggle = 0
  BY DEF TogglesInv
<1>9. state' = "RUNNING" => (devToggle' # Expected' => queue' # <<>>)
  <2>1. Expected = rcvToggle /\ Expected' = rcvToggle'
    BY <1>1 DEF Expected
  <2> QED
    BY <1>1, <1>7, <1>8, <2>1 DEF TogglesInv
<1>10. state' # "RUNNING" /\ (configured' \/ request' = "SetProto")
          => devToggle' = 0 /\ rcvToggle' = 0
  BY <1>1, <1>4, <1>5, <1>6 DEF TogglesInv
<1> QED
  BY <1>1, <1>2, <1>3, <1>9, <1>10 DEF TogglesInv, Ended

LEMMA TogglesKept ==
    ASSUME KeyboardTypeOK, RequestInv, ReadyInv, TogglesInv, [KeyboardNext]_keyboardVars
    PROVE  TogglesInv'
<1>1. CASE Detach
  <2>1. UNCHANGED <<queue, devToggle, chipToggle, fifo, hrsl, pc, rcvToggle>>
    BY <1>1 DEF Detach, vars, device, chip, host
  <2>2. ~ configured
    BY <1>1 DEF Detach, ReadyInv
  <2>3. state' = "detached" /\ request' = "none" /\ ~ configured'
    BY <1>1, <2>2 DEF Detach, usbDevice
  <2> QED
    BY <2>1, <2>3 DEF TogglesInv
<1>2. CASE Unplug
  <2>1. UNCHANGED <<queue, devToggle, chipToggle, fifo, hrsl, pc, rcvToggle>>
    BY <1>2 DEF Unplug, vars, device, chip, host
  <2>2. UNCHANGED <<state, request, stage>> /\ ~ configured'
    BY <1>2 DEF Unplug, control
  <2> QED
    BY <2>1, <2>2 DEF TogglesInv, Expected, Ended
<1>3. CASE PlugIn
  <2>1. UNCHANGED <<chipToggle, fifo, hrsl, pc, rcvToggle>>
    BY <1>3 DEF PlugIn, chip, host
  <2>2. ~ configured
    BY <1>3 DEF PlugIn, ReadyInv, RequestInv
  <2>3. state' = "enumerating" /\ request' = "DevDescr8" /\ ~ configured'
    BY <1>3, <2>2 DEF PlugIn
  <2> QED
    BY <2>1, <2>3 DEF TogglesInv
<1>4. CASE UNCHANGED keyboardVars
  <2>1. UNCHANGED <<vars, usbDevice, control>>
    BY <1>4 DEF keyboardVars
  <2>2. UNCHANGED <<queue, devToggle, chipToggle, fifo, hrsl, pc, rcvToggle, state, request, stage>>
        /\ (configured' <=> configured)
    BY <2>1 DEF vars, device, chip, host, control, usbDevice
  <2> QED
    BY <2>2 DEF TogglesInv, Expected, Ended
<1> QED
  BY <1>1, <1>2, <1>3, <1>4, StepCases, TogglesPoll, TogglesTransfer, TogglesReturn

-----------------------------------------------------------------------------

KeyboardInv == KeyboardTypeOK /\ TransferInv /\ RequestInv /\ ReadyInv /\ TogglesInv

LEMMA KeyboardInitially == KeyboardInit => KeyboardInv
<1> SUFFICES ASSUME KeyboardInit PROVE KeyboardInv
  OBVIOUS
<1>1. /\ pc = "idle" /\ hrsl = "SUCCESS" /\ fifo = <<>> /\ packet = <<>>
      /\ state = "detached" /\ request = "none" /\ address = Gone /\ ~ configured
  BY DEF KeyboardInit, Init
<1>2. TransferInv
  BY <1>1 DEF TransferInv, Ended, WholeDescriptor
<1>3. RequestInv
  BY <1>1 DEF RequestInv
<1>4. ReadyInv
  BY <1>1 DEF ReadyInv, ReadyWhenRunning
<1>5. TogglesInv
  BY <1>1 DEF TogglesInv
<1> QED
  BY <1>2, <1>3, <1>4, <1>5, InitTypes DEF KeyboardInv

LEMMA KeyboardKept == KeyboardInv /\ [KeyboardNext]_keyboardVars => KeyboardInv'
<1> SUFFICES ASSUME KeyboardInv, [KeyboardNext]_keyboardVars PROVE KeyboardInv'
  OBVIOUS
<1>1. TransferInv'
  <2>1. CASE UNCHANGED keyboardVars
    <3>1. UNCHANGED <<vars, ep0, control>>
      BY <2>1 DEF keyboardVars
    <3>2. UNCHANGED <<packet, pc, stage, hrsl, heard, request, sent, ep0Toggle, stored,
                      chipToggle>>
      BY <3>1 DEF vars, chip, host, ep0, control
    <3> QED
      BY <3>2, TransferSame DEF KeyboardInv
  <2> QED
    BY <2>1, StepCases, TransferPoll, TransferDevice, TransferWire, TransferFirmware DEF KeyboardInv
<1> QED
  BY <1>1, TypesKept, RequestKept, ReadyKept, TogglesKept DEF KeyboardInv

(* Every variable keeps its type, for every device, wire and limit.        *)
THEOREM KeyboardTypes == KeyboardSpec => []KeyboardTypeOK
<1>1. KeyboardInv => KeyboardTypeOK
  BY DEF KeyboardInv
<1> QED
  BY <1>1, KeyboardInitially, KeyboardKept, PTL DEF KeyboardSpec

(* What the firmware parses is the descriptor as the device has it, for    *)
(* every packet size, length and number of losses.                         *)
THEOREM DescriptorArrives == KeyboardSpec => []WholeDescriptor
<1>1. KeyboardInv => WholeDescriptor
  BY DEF KeyboardInv, TransferInv
<1> QED
  BY <1>1, KeyboardInitially, KeyboardKept, PTL DEF KeyboardSpec

(* Only a device that has been given its configuration and its protocol    *)
(* and is what the probe took it for is polled, for every descriptor.      *)
THEOREM PolledIsReady == KeyboardSpec => []ReadyWhenRunning
<1>1. KeyboardInv => ReadyWhenRunning
  BY DEF KeyboardInv, ReadyInv
<1> QED
  BY <1>1, KeyboardInitially, KeyboardKept, PTL DEF KeyboardSpec

(* The toggles agree in every session, whatever the devices before have    *)
(* left in the host and in the chip.                                       *)
THEOREM SessionsAgree == KeyboardSpec => []SessionToggles
<1>1. KeyboardInv => SessionToggles
  <2> SUFFICES ASSUME KeyboardInv, configured PROVE ToggleInv
    BY DEF SessionToggles
  <2>1. CASE state = "RUNNING"
    BY <2>1 DEF KeyboardInv, TogglesInv, ToggleInv
  <2>2. CASE state # "RUNNING"
    <3>1. devToggle = 0 /\ rcvToggle = 0 /\ pc # "wait"
      BY <2>2 DEF KeyboardInv, TogglesInv, RequestInv
    <3> QED
      BY <3>1 DEF KeyboardInv, TogglesInv, ToggleInv, Expected
  <2> QED
    BY <2>1, <2>2
<1> QED
  BY <1>1, KeyboardInitially, KeyboardKept, PTL DEF KeyboardSpec

-----------------------------------------------------------------------------
(* The refinement: what the register is promised, session after session.   *)

Kept == IF configured /\ state # "ERROR" THEN Unseen ELSE <<>>
Up == configured /\ state = "RUNNING"
Maps == [KeyboardStream!Next]_(KeyboardStream!vars)

LEMMA QueueType == KeyboardInv /\ configured => QueueInv
<1> SUFFICES ASSUME KeyboardInv, configured PROVE QueueInv
  OBVIOUS
<1>1. queue \in Seq(Reports) /\ fifo \in {<<>>} \cup {<<r>> : r \in Reports}
  BY DEF KeyboardInv, KeyboardTypeOK
<1>2. CASE state = "RUNNING"
  BY <1>1, <1>2 DEF KeyboardInv, TogglesInv, QueueInv
<1>3. CASE state # "RUNNING"
  <2>1. devToggle = 0 /\ rcvToggle = 0 /\ pc # "wait"
    BY <1>3 DEF KeyboardInv, TogglesInv, RequestInv
  <2> QED
    BY <1>1, <2>1 DEF QueueInv, Expected
<1> QED
  BY <1>2, <1>3

LEMMA KeptType == KeyboardInv => Kept \in Seq(Reports)
<1>1. <<>> \in Seq(Reports)
  OBVIOUS
<1> QED
  BY <1>1, QueueType, PendingTypes DEF Kept

(* Nothing changes that is promised.                                       *)
LEMMA NothingShown ==
    ASSUME fifo' = fifo, Kept' = Kept, Up' <=> Up, keycode' = keycode
    PROVE  Maps
<1>1. Up' = Up
  BY DEF Up
<1> QED
  BY <1>1 DEF Maps, KeyboardStream!vars, Kept, Up

(* The device goes out of service.                                         *)
LEMMA OutOfService ==
    ASSUME KeyboardInv, fifo' = fifo, Kept' = <<>>, ~ Up', keycode' = keycode
    PROVE  Maps
<1>1. fifo \in Seq(Reports) /\ Kept \in Seq(Reports)
  <2>1. fifo = <<>> \/ \E r \in Reports : fifo = <<r>>
    BY DEF KeyboardInv, KeyboardTypeOK
  <2>2. <<>> \in Seq(Reports) /\ \A r \in Reports : <<r>> \in Seq(Reports)
    OBVIOUS
  <2> QED
    BY <2>1, <2>2, KeptType
<1> DEFINE p == fifo \o Kept
           n == Len(fifo)
<1>2. p \in Seq(Reports) /\ Len(p) = n + Len(Kept) /\ n \in Nat /\ Len(Kept) \in Nat
  BY <1>1, ConcatProperties, LenProperties
<1>3. n \in 0 .. Len(p)
  BY <1>2
<1>4. SubSeq(p, 1, n) = fifo
  <2>1. \A i \in 1 .. n : p[i] = fifo[i]
    BY <1>1, <1>2, ConcatProperties
  <2>2. SubSeq(p, 1, n) \in Seq(Reports) /\ Len(SubSeq(p, 1, n)) = n
        /\ \A i \in 1 .. n : SubSeq(p, 1, n)[i] = p[i]
    BY <1>2
  <2> QED
    BY <1>1, <2>1, <2>2, SeqEqual
<1>5. fifo' \o Kept' = fifo
  BY <1>1, ConcatEmptySeq
<1>6. Up' = FALSE
  OBVIOUS
<1>7. \E kept \in 0 .. Len(p) : fifo' \o Kept' = SubSeq(p, 1, kept)
  BY <1>3, <1>4, <1>5
<1>8. KeyboardStream!Stop
  BY <1>6, <1>7 DEF KeyboardStream!Stop, Kept, Up
<1> QED
  BY <1>8 DEF Maps, KeyboardStream!Next

LEMMA PollMaps == KeyboardInv /\ PollOf => Maps
<1> SUFFICES ASSUME KeyboardInv, PollOf PROVE Maps
  OBVIOUS
<1>1. (configured' <=> configured) /\ state' = state
  BY PollCases
<1>2. Up' <=> Up
  BY <1>1 DEF Up
<1>3. ASSUME NEW r \in Reports, configured, Type(r) PROVE Maps
  <2>1. /\ fifo' \o Unseen' = Append(fifo \o Unseen, r)
        /\ Len(fifo \o Unseen) < MaxPending + 1 /\ keycode' = keycode
    BY <1>3, QueueType, TypeAppends
  <2>2. CASE state = "ERROR"
    <3>1. Kept' = <<>> /\ Kept = <<>>
      BY <1>1, <2>2 DEF Kept
    <3>2. fifo' = fifo
      BY <1>3 DEF Type, chip
    <3> QED
      BY <1>2, <2>1, <3>1, <3>2, NothingShown
  <2>3. CASE state # "ERROR"
    <3>1. Kept' = Unseen' /\ Kept = Unseen
      BY <1>1, <1>3, <2>3 DEF Kept
    <3>2. Up' = Up
      BY <1>2 DEF Up
    <3>3. KeyboardStream!Type(r)
      BY <2>1, <3>1, <3>2 DEF KeyboardStream!Type, Kept, Up
    <3> QED
      BY <3>3 DEF Maps, KeyboardStream!Next
  <2> QED
    BY <2>2, <2>3
<1>4. CASE state = "RUNNING" /\ request = "none" /\ pc # "ctrl"
  <2>1. IInv
    BY <1>4, PollingIsPoll DEF KeyboardInv
  <2>2. Kept = IF configured THEN Unseen ELSE <<>>
    BY <1>4 DEF Kept
  <2>3. Kept' = IF configured THEN Unseen' ELSE <<>>
    BY <1>1, <1>4 DEF Kept
  <2>4. CASE \/ \E result \in Results : NoData(result)
             \/ Poll \/ Relaunch \/ Fail
    <3>1. UNCHANGED <<fifo, Unseen, keycode>>
      BY <2>1, <2>4, QuietSteps
    <3>2. Kept' = Kept
      BY <2>2, <2>3, <3>1
    <3> QED
      BY <1>2, <3>1, <3>2, NothingShown
  <2>5. ASSUME NEW acked \in BOOLEAN, configured, Data(acked) PROVE Maps
    <3>1. UNCHANGED <<fifo \o Unseen, keycode>>
      BY <2>1, <2>5, DataMaps
    <3>2. fifo' \o Kept' = fifo \o Kept
      BY <2>2, <2>3, <2>5, <3>1
    <3>3. Up' = Up
      BY <1>2 DEF Up
    <3> QED
      BY <3>1, <3>2, <3>3 DEF Maps, KeyboardStream!vars, Kept, Up
  <2>6. CASE Receive
    <3>1. PICK r \in Reports : fifo = <<r>> /\ keycode' = Pack(r)
      BY <2>1, <2>6, ReceiveShows
    <3>2. fifo' = <<>> /\ Kept' = Kept
      BY <2>1, <2>2, <2>3, <2>6, ReceiveShows
    <3>3. Kept \in Seq(Reports)
      BY KeptType
    <3>4. fifo \o Kept # <<>> /\ Head(fifo \o Kept) = r /\ Tail(fifo \o Kept) = fifo' \o Kept'
      BY <3>1, <3>2, <3>3, FirstOf
    <3>5. Up' = Up
      BY <1>2 DEF Up
    <3>6. KeyboardStream!Show
      BY <3>1, <3>4, <3>5 DEF KeyboardStream!Show, KeyboardStream!Pack, Pack, Kept, Up
    <3> QED
      BY <3>6 DEF Maps, KeyboardStream!Next
  <2>7. "TIMEOUT" \in Results
    BY DEF Results
  <2> QED
    BY <1>3, <2>4, <2>5, <2>6, <2>7 DEF PollOf, Wire, KeyboardPoll
<1>5. CASE \E r \in Reports : Type(r)
  <2>1. configured \/ (state = "RUNNING" /\ request = "none" /\ pc # "ctrl")
    BY PollNext, PollCases DEF KeyboardInv, RequestInv, KeyboardPoll, Poll
  <2> QED
    BY <1>3, <1>4, <1>5, <2>1
<1> QED
  BY <1>4, <1>5, PollNext DEF KeyboardInv

(* A step that leaves the device, the toggles and the state alone.         *)
LEMMA QuietTransfer ==
    ASSUME pc # "wait", pc' # "wait", UNCHANGED device, configured' <=> configured,
           UNCHANGED <<fifo, rcvToggle, state, keycode>>
    PROVE  Maps
<1>1. Unseen' = Unseen
  BY DEF Unseen, Expected, device
<1>2. Kept' = Kept /\ (Up' <=> Up)
  BY <1>1 DEF Kept, Up
<1> QED
  BY <1>2, NothingShown

LEMMA TransferMaps ==
    ASSUME KeyboardInv, ControlWire \/ AfterSetup \/ TakePacket \/ ControlRelaunch \/ Setup
    PROVE  Maps
<1>1. /\ pc \in {"idle", "ctrl"} /\ pc' = "ctrl"
      /\ UNCHANGED <<state, request, fifo, rcvToggle, keycode>>
  BY TransferSteps DEF Setup, Launch
<1>2. CASE UNCHANGED device /\ (configured' <=> configured)
  BY <1>1, <1>2, QuietTransfer
<1>3. ASSUME NEW result, NoAnswer(result) PROVE Maps
  <2>1. UNCHANGED device /\ UNCHANGED usbDevice
    BY <1>3 DEF NoAnswer
  <2>2. configured' <=> configured
    BY <2>1 DEF usbDevice
  <2> QED
    BY <1>2, <2>1, <2>2
<1>4. ASSUME NEW acked, HearSetup(acked) \/ SendPacket(acked) \/ StatusOut(acked) PROVE Maps
  <2>1. UNCHANGED device /\ UNCHANGED usbDevice
    BY <1>4 DEF HearSetup, SendPacket, StatusOut
  <2>2. configured' <=> configured
    BY <2>1 DEF usbDevice
  <2> QED
    BY <1>2, <2>1, <2>2
<1>5. ASSUME NEW result, StatusIn(result) PROVE Maps
  <2>1. CASE request # "SetConf"
    <3>1. UNCHANGED device /\ (configured' <=> configured)
      BY <1>5, <2>1 DEF StatusIn
    <3> QED
      BY <1>2, <3>1
  <2>2. CASE request = "SetConf"
    <3>1. devToggle' = 0 /\ queue' = <<>>
      BY <1>5, <2>2 DEF StatusIn
    <3>2. state # "RUNNING" /\ rcvToggle = 0
      BY <2>2 DEF KeyboardInv, RequestInv, TogglesInv
    <3>3. Unseen' = <<>>
      BY <1>1, <3>1, <3>2 DEF Unseen, Expected
    <3>4. Kept' = <<>> /\ ~ Up'
      BY <1>1, <3>2, <3>3 DEF Kept, Up
    <3> QED
      BY <1>1, <3>4, OutOfService
  <2> QED
    BY <2>1, <2>2
<1>6. CASE AfterSetup \/ TakePacket \/ ControlRelaunch \/ Setup
  <2>1. UNCHANGED device /\ UNCHANGED usbDevice
    BY <1>6 DEF AfterSetup, TakePacket, ControlRelaunch, Setup
  <2>2. configured' <=> configured
    BY <2>1 DEF usbDevice
  <2> QED
    BY <1>2, <2>1, <2>2
<1> QED
  BY <1>3, <1>4, <1>5, <1>6 DEF ControlWire

LEMMA ReturnMaps == ASSUME KeyboardInv, Return PROVE Maps
<1>1. /\ pc = "ctrl" /\ pc' = "idle" /\ UNCHANGED <<device, fifo, keycode>>
      /\ (configured' <=> configured)
  <2>1. /\ pc = "ctrl" /\ pc' = "idle" /\ UNCHANGED <<device, chip, usbDevice, keycode>>
    BY ReturnCases
  <2> QED
    BY <2>1 DEF chip, usbDevice
<1>2. fifo = <<>> /\ state \in {"enumerating", "RUNNING"}
  BY <1>1 DEF KeyboardInv, KeyboardTypeOK, TogglesInv, RequestInv
<1>3. state = "RUNNING" => request # "Config" /\ state' = state
  BY ReturnCases DEF KeyboardInv, RequestInv, ProbeFails
<1>4. rcvToggle' = rcvToggle \/ (state # "RUNNING" /\ rcvToggle' = 0)
  BY <1>3, ReturnCases
<1>5. configured => rcvToggle' = rcvToggle
  BY <1>4 DEF KeyboardInv, TogglesInv
<1>6. configured => Unseen' = Unseen
  BY <1>1, <1>5 DEF Unseen, Expected, device
<1>7. state' \in {state, "ERROR", "RUNNING"} /\ state # "ERROR"
  BY <1>2, ReturnCases DEF ProbeFails
<1>8. CASE state' = "ERROR"
  <2>1. Kept' = <<>> /\ ~ Up'
    BY <1>8 DEF Kept, Up
  <2> QED
    BY <1>1, <2>1, OutOfService
<1>9. CASE state' = state
  <2>1. Kept' = Kept /\ (Up' <=> Up)
    BY <1>1, <1>6, <1>7, <1>9 DEF Kept, Up
  <2> QED
    BY <1>1, <2>1, NothingShown
<1>10. CASE state' = "RUNNING" /\ state # "RUNNING"
  <2>1. Kept' = Kept
    BY <1>1, <1>6, <1>7, <1>10 DEF Kept
  <2>2. ~ Up /\ (Up' <=> configured)
    BY <1>1, <1>10 DEF Up
  <2>3. CASE ~ configured
    BY <1>1, <2>1, <2>2, <2>3, NothingShown
  <2>4. CASE configured
    <3>1. Up' = TRUE
      BY <2>2, <2>4 DEF Up
    <3>2. KeyboardStream!Start
      BY <1>1, <2>1, <2>2, <3>1 DEF KeyboardStream!Start, Kept, Up
    <3> QED
      BY <3>2 DEF Maps, KeyboardStream!Next
  <2> QED
    BY <2>3, <2>4
<1> QED
  BY <1>7, <1>8, <1>9, <1>10

LEMMA DeviceMaps == ASSUME KeyboardInv, Detach \/ Unplug \/ PlugIn PROVE Maps
<1>1. CASE Detach \/ PlugIn
  <2>1. ~ configured /\ (configured' <=> configured) /\ UNCHANGED <<fifo, keycode>>
    <3>1. CASE Detach
      BY <3>1 DEF Detach, KeyboardInv, ReadyInv, vars, chip, usbDevice
    <3>2. CASE PlugIn
      BY <3>2 DEF PlugIn, KeyboardInv, ReadyInv, RequestInv, chip
    <3> QED
      BY <1>1, <3>1, <3>2
  <2>2. Kept' = Kept /\ (Up' <=> Up)
    BY <2>1 DEF Kept, Up
  <2> QED
    BY <2>1, <2>2, NothingShown
<1>2. CASE Unplug
  <2>1. ~ configured' /\ UNCHANGED <<fifo, keycode>>
    BY <1>2 DEF Unplug, vars, chip
  <2>2. Kept' = <<>> /\ ~ Up'
    BY <2>1 DEF Kept, Up
  <2> QED
    BY <2>1, <2>2, OutOfService
<1> QED
  BY <1>1, <1>2

LEMMA KeyboardStepsMap == KeyboardInv /\ [KeyboardNext]_keyboardVars => Maps
<1> SUFFICES ASSUME KeyboardInv, [KeyboardNext]_keyboardVars PROVE Maps
  OBVIOUS
<1>1. CASE UNCHANGED keyboardVars
  <2>1. UNCHANGED <<vars, usbDevice, control>>
    BY <1>1 DEF keyboardVars
  <2>2. UNCHANGED <<queue, devToggle, chipToggle, rcvToggle, pc, fifo, keycode, state>>
        /\ (configured' <=> configured)
    BY <2>1 DEF vars, device, chip, host, control, usbDevice
  <2>3. Unseen' = Unseen
    BY <2>2 DEF Unseen, Expected
  <2>4. Kept' = Kept /\ (Up' <=> Up)
    BY <2>2, <2>3 DEF Kept, Up
  <2> QED
    BY <2>2, <2>4, NothingShown
<1> QED
  BY <1>1, StepCases, PollMaps, TransferMaps, ReturnMaps, DeviceMaps

LEMMA KeyboardInitMaps == KeyboardInit => KeyboardStream!Init
<1> SUFFICES ASSUME KeyboardInit PROVE KeyboardStream!Init
  OBVIOUS
<1>1. fifo = <<>> /\ keycode = <<>> /\ ~ configured
  BY DEF KeyboardInit, Init
<1>2. <<>> \o <<>> = <<>>
  OBVIOUS
<1>3. Kept = <<>> /\ Up \in BOOLEAN
  BY <1>1 DEF Kept, Up
<1> QED
  BY <1>1, <1>2, <1>3 DEF KeyboardStream!Init, Kept, Up

(* Session after session the register shows every report of the keyboard   *)
(* in service once and in order, whatever the wire loses and whoever pulls *)
(* out what: the initial state and every step map (the safety half of      *)
(* ImplementsStream).                                                      *)
THEOREM SessionsShow == KeyboardSpec => KeyboardStream!Init /\ [][KeyboardStream!Next]_(KeyboardStream!vars)
<1>1. KeyboardInv /\ [KeyboardNext]_keyboardVars => [KeyboardStream!Next]_(KeyboardStream!vars)
  BY KeyboardStepsMap DEF Maps
<1> QED
  BY <1>1, KeyboardInitially, KeyboardKept, KeyboardInitMaps, PTL DEF KeyboardSpec
=============================================================================
