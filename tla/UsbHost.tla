------------------------------- MODULE UsbHost -------------------------------
(***************************************************************************)
(* The USB host of the controller firmware: the main loop (main.c), the    *)
(* interrupt handler of the MAX3421E that it polls (MAX3421E.c) and the    *)
(* state machine that enumerates a device (USB_Task, transfer.c).          *)
(*                                                                         *)
(* One pass of the loop is the handler, USB_Task and the reaction of main, *)
(* each taken here as one step, but for the handler and the initialisation *)
(* of the chip: what they acknowledge at their end may have changed since  *)
(* they looked.  A device comes and goes between any two steps; a transfer *)
(* may always fail and succeeds only with the device at the address used.  *)
(***************************************************************************)
EXTENDS Integers

CONSTANTS
    Levels,         \* the wire without a device: "none", and "se1" if it glitches
    NumDevices,     \* USB_NUMDEVICES (8): addresses are 1 .. NumDevices - 1
    MaxChanges      \* bound: times a device is plugged, unplugged or glitches,
                    \* or the end of a bus reset counts as a change

ASSUME HostAssumption ==
    /\ Levels \subseteq {"none", "se1"}
    /\ NumDevices \in Nat /\ NumDevices > 1 /\ MaxChanges \in Nat

(* USB.h:33-103                                                            *)
INITIALIZE       == 1       \* USB_DETACHED_SUBSTATE_INITIALIZE
WAIT_FOR_DEVICE  == 3
ILLEGAL          == 4
ATTACHED         == 16
SETTLE           == 17      \* USB_ATTACHED_SUBSTATE_SETTLE
RESET_DEVICE     == 18
WAIT_RESET       == 19
WAIT_SOF         == 20
GET_DESCRIPTOR   == 21
ADDRESSING       == 32
CONFIGURING      == 48
RUNNING          == 64
ERROR            == 255

(* Device classes in devtable: UNINIT, HID_K, HID_M.                       *)
UNINIT == 0
HID_K == 1
HID_M == 2
NoDevice == 255         \* what GetDriverandReport starts from

Kinds == {"keyboard", "mouse", "other"}
Wire == Kinds \cup Levels
Address == 1 .. NumDevices - 1
NoAddress == NumDevices + 1     \* a device that has not seen a bus reset

VARIABLES
    dev,                \* what is on the wire: the J and K bits
    devAddr,            \* the address the device answers to
    condet, busevent,   \* CONDETIRQ, which drives the interrupt pin; BUSEVENTIRQ
    rst,                \* BUSRST: a bus reset is going on
    phase,              \* where the main loop is
    sendback,           \* BUSEVENTIRQ is in HIRQ_sendback
    usb_task_state,
    usb_delay,          \* TRUE while it lies in the future
    epinfo, devclass,   \* devtable
    tmp_addr, hidAddr,  \* address given last; hid_device.addr
    running,            \* runningdebugflag
    device,             \* the class main polls
    probed,             \* history: dev when the bus was probed last
    changes             \* history: changes so far

wire == <<dev, devAddr, changes>>
chip == <<condet, busevent, rst>>
table == <<epinfo, devclass>>
found == <<tmp_addr, hidAddr>>
vars == <<wire, chip, phase, sendback, usb_task_state, usb_delay, table, found,
          running, device, probed>>

TypeOK ==
    /\ dev \in Wire /\ devAddr \in Address \cup {0, NoAddress}
    /\ condet \in BOOLEAN /\ busevent \in BOOLEAN /\ rst \in BOOLEAN
    /\ phase \in {"init", "initack", "irq", "ack", "task", "main"}
    /\ sendback \in BOOLEAN
    /\ usb_task_state \in 0 .. 255
    /\ usb_delay \in BOOLEAN
    /\ epinfo \in [0 .. NumDevices -> {"NULL", "dev0ep", "hid_ep"}]
    /\ devclass \in [0 .. NumDevices -> {UNINIT, HID_K, HID_M}]
    /\ tmp_addr \in Address \cup {0} /\ hidAddr \in Address \cup {0}
    /\ running \in BOOLEAN /\ device \in {UNINIT, HID_K, HID_M, NoDevice}
    /\ probed \in Wire
    /\ changes \in 0 .. MaxChanges

(* Static data start at zero; main begins with MAX3421E_init.              *)
Init ==
    /\ dev \in Wire /\ devAddr = NoAddress /\ changes = 0
    /\ condet = FALSE /\ busevent = FALSE /\ rst = FALSE
    /\ phase = "init" /\ sendback = FALSE
    /\ usb_task_state = INITIALIZE
    /\ usb_delay = FALSE
    /\ epinfo = [i \in 0 .. NumDevices |-> "NULL"]
    /\ devclass = [i \in 0 .. NumDevices |-> UNINIT]
    /\ tmp_addr = 0 /\ hidAddr = 0
    /\ running = FALSE /\ device = NoDevice /\ probed = dev

-----------------------------------------------------------------------------
(* The wire and the chip.                                                  *)

Change ==
    /\ changes < MaxChanges /\ changes' = changes + 1
    /\ dev' \in Wire \ {dev} /\ devAddr' = NoAddress
    /\ condet' = TRUE
    /\ UNCHANGED <<busevent, rst, phase, sendback, usb_task_state, usb_delay,
                   table, found, running, device, probed>>

(* The bus reset ends by itself: a bus event, and the device has address 0. *)
(* The lines that come back may raise CONDETIRQ (MAX3421E.c:137).          *)
ResetDone ==
    /\ rst /\ rst' = FALSE /\ busevent' = TRUE
    /\ devAddr' = IF dev \in Kinds THEN 0 ELSE devAddr
    /\ \/ UNCHANGED <<condet, changes>>
       \/ changes < MaxChanges /\ changes' = changes + 1 /\ condet' = TRUE
    /\ UNCHANGED <<dev, phase, sendback, usb_task_state,
                   usb_delay, table, found, running, device, probed>>

(* The 200 milliseconds may pass.  Nothing says that they do: the clock    *)
(* wraps, and a deadline may lie beyond it for ever (UsbTimer, SettleEnds). *)
Elapse ==
    /\ usb_delay /\ usb_delay' = FALSE
    /\ UNCHANGED <<wire, chip, phase, sendback, usb_task_state, table, found,
                   running, device, probed>>

-----------------------------------------------------------------------------
(* MAX3421E.c                                                              *)

Detached(s) == s \div 16 = 0        \* (s & USB_STATE_MASK) == USB_STATE_DETACHED

(* Fault for the mutants: a disconnection is lost on an attached state.    *)
BusprobeDetachedOnly(s) ==
    CASE dev \in Kinds -> IF s = WAIT_RESET THEN s ELSE ATTACHED
      [] dev = "se1"   -> ILLEGAL
      [] dev = "none"  -> IF Detached(s) THEN WAIT_FOR_DEVICE ELSE s

(* The state MAX_busprobe leaves.  A bus reset itself raises CONDETIRQ,    *)
(* hence the exception for WAIT_RESET_COMPLETE.                            *)
Busprobe(s) ==
    CASE dev \in Kinds -> IF s = WAIT_RESET THEN s ELSE ATTACHED
      [] dev = "se1"   -> ILLEGAL
      [] dev = "none"  -> IF Detached(s) THEN WAIT_FOR_DEVICE ELSE INITIALIZE

Probe == probed' = dev /\ UNCHANGED usb_delay

(* usb_task_state++ on a bus event, after the probe.                       *)
Advance(s) == IF busevent THEN (s + 1) % 256 ELSE s

(* MaxIntHandler up to its last line, when the pin is low.                 *)
MaxIntHandler ==
    /\ phase = "irq" /\ condet
    /\ Probe
    /\ usb_task_state' = Advance(Busprobe(usb_task_state))
    /\ sendback' = busevent
    /\ phase' = "ack"
    /\ UNCHANGED <<wire, chip, table, found, running, device>>

(* Its last line acknowledges CONDETIRQ, whenever that was raised.         *)
SendBack ==
    /\ phase = "ack"
    /\ condet' = FALSE /\ busevent' = (busevent /\ ~ sendback)
    /\ sendback' = FALSE
    /\ phase' = "task"
    /\ UNCHANGED <<wire, rst, usb_task_state, usb_delay, table, found, running,
                   device, probed>>

NoInterrupt ==
    /\ phase = "irq" /\ ~ condet
    /\ phase' = "task"
    /\ UNCHANGED <<wire, chip, sendback, usb_task_state, usb_delay, table, found,
                   running, device, probed>>

(* MAX3421E_init: the chip is reset, the bus is sampled and probed ...     *)
ChipInit ==
    /\ phase = "init"
    /\ condet' = FALSE /\ busevent' = FALSE /\ rst' = FALSE
    /\ Probe
    /\ usb_task_state' = Busprobe(usb_task_state)
    /\ phase' = "initack"
    /\ UNCHANGED <<wire, sendback, table, found, running, device>>

(* USB_init                                                                *)
ClearTable ==
    /\ epinfo' = [i \in 0 .. NumDevices |-> IF i = 0 THEN "dev0ep" ELSE "NULL"]
    /\ devclass' = [i \in 0 .. NumDevices |-> UNINIT]

(* ... then CONDETIRQ is cleared, and main calls USB_init.                 *)
ChipReady ==
    /\ phase = "initack"
    /\ condet' = FALSE
    /\ ClearTable
    /\ phase' = "irq"
    /\ UNCHANGED <<wire, busevent, rst, sendback, usb_task_state, usb_delay,
                   found, running, device, probed>>

-----------------------------------------------------------------------------
(* USB_Task, one action for each state with something to do.               *)

Task(s, next) ==
    /\ phase = "task" /\ usb_task_state = s
    /\ phase' = "main" /\ usb_task_state' = next
    /\ UNCHANGED <<sendback, running, device, probed>>

Initialize ==
    /\ Task(INITIALIZE, WAIT_FOR_DEVICE)
    /\ ClearTable
    /\ UNCHANGED <<wire, chip, usb_delay, found>>

ArmSettle ==
    /\ Task(ATTACHED, SETTLE)
    /\ usb_delay' = TRUE
    /\ UNCHANGED <<wire, chip, table, found>>

SettleWait ==
    /\ Task(SETTLE, IF usb_delay THEN SETTLE ELSE RESET_DEVICE)
    /\ UNCHANGED <<wire, chip, usb_delay, table, found>>

(* Fault for the mutants: the bus event of an earlier reset is left.       *)
KeepEvent == UNCHANGED busevent

(* A stale bus event is cleared first; the reset may raise CONDETIRQ.      *)
ClearEvent == busevent' = FALSE

ResetDevice ==
    /\ Task(RESET_DEVICE, WAIT_RESET)
    /\ ClearEvent
    /\ rst' = TRUE
    /\ condet' \in {condet, TRUE}
    /\ UNCHANGED <<wire, usb_delay, table, found>>

WaitReset ==
    /\ Task(WAIT_RESET, IF rst THEN WAIT_RESET ELSE WAIT_SOF)
    /\ UNCHANGED <<wire, chip, usb_delay, table, found>>

(* HIRQ | bmFRAMEIRQ is never zero.                                        *)
WaitSof ==
    /\ Task(WAIT_SOF, GET_DESCRIPTOR)
    /\ UNCHANGED <<wire, chip, usb_delay, table, found>>

(* A transfer to address a can succeed.                                    *)
Reach(a) == dev \in Kinds /\ devAddr = a /\ ~ rst

(* Fault: a failed transfer leaves the state as it is.                     *)
FailStays(s) == s

Fail(s) == ERROR
Addresses == 1 .. NumDevices - 1        \* i = 1; i < USB_NUMDEVICES

GetDescriptor ==
    /\ \/ Reach(0) /\ Task(GET_DESCRIPTOR, ADDRESSING)
       \/ Task(GET_DESCRIPTOR, Fail(GET_DESCRIPTOR))
    /\ UNCHANGED <<wire, chip, usb_delay, table, found>>

Free == {i \in Addresses : epinfo[i] = "NULL"}

(* The device may take the address while its status stage is lost.         *)
SetAddress ==
    \E i \in Free :
        /\ \A j \in Free : i <= j
        /\ epinfo' = [epinfo EXCEPT ![i] = epinfo[0]]
        /\ \/ /\ Reach(0) /\ devAddr' = i /\ tmp_addr' = i
              /\ Task(ADDRESSING, CONFIGURING)
           \/ /\ \/ devAddr' = devAddr
                 \/ Reach(0) /\ devAddr' = i
              /\ Task(ADDRESSING, Fail(ADDRESSING))
              /\ UNCHANGED tmp_addr
        /\ UNCHANGED <<dev, changes, chip, usb_delay, devclass, hidAddr>>

NoAddressLeft ==
    /\ Free = {}
    /\ Task(ADDRESSING, Fail(ADDRESSING))
    /\ UNCHANGED <<wire, chip, usb_delay, table, found>>

(* HIDMProbe or HIDKProbe has found its interface.                         *)
Match(class) ==
    /\ devclass' = [devclass EXCEPT ![tmp_addr] = class]
    /\ epinfo' = [epinfo EXCEPT ![tmp_addr] = "hid_ep"]
    /\ hidAddr' = tmp_addr
    /\ UNCHANGED tmp_addr

ClassOf(kind) == IF kind = "mouse" THEN HID_M ELSE HID_K

(* The class probes in turn, until one returns TRUE: one that matches may  *)
(* still fail to configure the device, and the others then find nothing.   *)
Configure ==
    /\ \/ /\ Reach(tmp_addr) /\ dev \in {"keyboard", "mouse"}
          /\ Match(ClassOf(dev))
          /\ \/ Task(CONFIGURING, RUNNING)
             \/ Task(CONFIGURING, Fail(CONFIGURING))
       \/ /\ Task(CONFIGURING, Fail(CONFIGURING))
          /\ UNCHANGED <<table, found>>
    /\ UNCHANGED <<wire, chip, usb_delay>>

(* RUNNING, WAIT_FOR_DEVICE, ILLEGAL, ERROR and any state without a case.  *)
Handled == {INITIALIZE, ATTACHED, SETTLE, RESET_DEVICE, WAIT_RESET, WAIT_SOF,
            GET_DESCRIPTOR, ADDRESSING, CONFIGURING}

Rest ==
    /\ usb_task_state \notin Handled
    /\ Task(usb_task_state, usb_task_state)
    /\ UNCHANGED <<wire, chip, usb_delay, table, found>>

USB_Task ==
    \/ Initialize \/ ArmSettle \/ SettleWait \/ ResetDevice \/ WaitReset
    \/ WaitSof \/ GetDescriptor \/ SetAddress \/ NoAddressLeft \/ Configure \/ Rest

-----------------------------------------------------------------------------
(* main.c                                                                  *)

InUse == {i \in Addresses : epinfo[i] # "NULL"}

(* Faults for the mutants: the first device of the table, not the last;    *)
(* the flag stays up.                                                      *)
FirstClass == IF InUse = {} THEN NoDevice
              ELSE devclass[CHOOSE i \in InUse : \A j \in InUse : i <= j]
FlagStays == UNCHANGED running

(* GetDriverandReport returns the class of the last entry in use.          *)
ReportedClass == IF InUse = {} THEN NoDevice
                 ELSE devclass[CHOOSE i \in InUse : \A j \in InUse : j <= i]
ClearFlag == running' = FALSE

(* The first pass in RUNNING reports the device; the next ones poll it.    *)
Report ==
    /\ phase = "main" /\ usb_task_state = RUNNING /\ ~ running
    /\ running' = TRUE /\ device' = ReportedClass
    /\ phase' = "irq"
    /\ UNCHANGED <<wire, chip, sendback, usb_task_state, usb_delay, table, found, probed>>

Idle ==
    /\ phase = "main"
    /\ \/ usb_task_state = RUNNING /\ running
       \/ usb_task_state = ERROR
       \/ usb_task_state \notin {RUNNING, ERROR} /\ ~ running
    /\ phase' = "irq"
    /\ UNCHANGED <<wire, chip, sendback, usb_task_state, usb_delay, table, found,
                   running, device, probed>>

(* Previously running: the hardware is reset.                              *)
Restart ==
    /\ phase = "main" /\ usb_task_state \notin {RUNNING, ERROR} /\ running
    /\ ClearFlag
    /\ phase' = "init"
    /\ UNCHANGED <<wire, chip, sendback, usb_task_state, usb_delay, table, found,
                   device, probed>>

Loop == \/ MaxIntHandler \/ SendBack \/ NoInterrupt \/ ChipInit \/ ChipReady
        \/ USB_Task \/ Report \/ Idle \/ Restart

Next == Change \/ ResetDone \/ Elapse \/ Loop

(* The loop goes round and the chip ends a bus reset.                      *)
Spec == Init /\ [][Next]_vars /\ WF_vars(Loop) /\ WF_vars(ResetDone)

-----------------------------------------------------------------------------

(* No packet is sent while the bus is in reset: the bus event that         *)
(* advances the state by one, and the handler's probe of a connection      *)
(* change, never pass WAIT_RESET_COMPLETE early (MAX3421E.c:137, 222-225,  *)
(* transfer.c:286-291).                                                    *)
Traffic == {WAIT_SOF, GET_DESCRIPTOR, ADDRESSING, CONFIGURING, RUNNING}
NoTrafficInReset == usb_task_state \in Traffic => ~ rst

(* A device that is polled is the one enumerated last, whatever entries    *)
(* earlier devices have left in the table: the class main read once        *)
(* (main.c:33-40) is that of the endpoint the probe polls (HID.c:216-221). *)
PollsNewest ==
    usb_task_state = RUNNING /\ running =>
        /\ hidAddr = tmp_addr /\ epinfo[hidAddr] = "hid_ep"
        /\ device = devclass[hidAddr]

(* A session ends in a reset of the chip and a clean table before the      *)
(* next one begins, however fast the device was replaced (main.c:229-233). *)
FlagFollowsSession == phase = "irq" /\ running => usb_task_state = RUNNING

(* Once a connection interrupt is served, the state is an attached one     *)
(* exactly when the probe saw a device.  A change in the window before the *)
(* acknowledgement (MAX3421E.c:227) is lost, and not promised anything.    *)
StateFollowsWire ==
    phase = "irq" /\ ~ condet /\ dev = probed =>
        (dev \in Kinds <=> ~ Detached(usb_task_state))

(* An enumeration ends, in RUNNING, in ERROR or with the device gone, but  *)
(* for one that waits for ever in the settle delay (transfer.c:281, which  *)
(* SettleEnds of UsbTimer shows it may); no other wait can hold it up.     *)
Enumerating == usb_task_state \in ATTACHED .. CONFIGURING
Settling == usb_task_state = SETTLE /\ usb_delay
EnumerationEnds == Enumerating ~> (~ Enumerating \/ []Settling)

=============================================================================
