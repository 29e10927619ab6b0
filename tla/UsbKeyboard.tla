----------------------------- MODULE UsbKeyboard -----------------------------
(***************************************************************************)
(* A device from the end of its bus reset to the polling of its keys: the  *)
(* control transfers of transfer.c (77-136, 191-227), the order in which   *)
(* USB_Task, the class probes of HID.c and GetDriverandReport make them,   *)
(* what each does when one fails, and then UsbPoll.  The wire loses        *)
(* tokens, data and acknowledgements, and the device may be pulled out     *)
(* between any two steps and another one put in.                           *)
(*                                                                         *)
(* The bytes of a descriptor are numbered from 1.  UsbHost has the states  *)
(* of USB_Task up to the bus reset and the device table; here a device has *)
(* address 0 at first and then 1.  A device without strings is taken,      *)
(* whose descriptors fit into bigbuf.                                      *)
(***************************************************************************)
EXTENDS UsbPoll

CONSTANTS
    Devices,        \* configuration descriptors: the types of their parts
    MaxPkt,         \* bytes of a packet of endpoint 0
    Length,         \* bytes that each request with a data stage asks for
    MaxDevices      \* bound: devices that are put in

Reads == {"DevDescr8", "DevDescr", "ConfDescr", "Config", "GetIdle", "GetProto"}
Interfaces == {"keyboard", "mouse", "vendor"}

ASSUME KeyboardAssumption ==
    /\ Devices \subseteq Seq(Interfaces \cup {"conf", "hid", "endpoint"})
    /\ MaxPkt \in Nat \ {0} /\ MaxDevices \in Nat
    /\ Length \in [Reads -> Nat \ {0}]

Requests == Reads \cup {"SetAddr", "SetConf", "SetProto"}
Gone == 255         \* the address of no device

VARIABLES
    config, address, configured, boot,  \* the device: descriptors, SET_ADDRESS,
                                        \* SET_CONFIGURATION, SET_PROTOCOL
    heard, sent, ep0Toggle, \* its endpoint 0: request, bytes acknowledged, toggle
    packet,             \* RCVFIFO in a control transfer: empty, or the one packet
    state,              \* usb_task_state: "detached", "enumerating", ...
    request, stage,     \* the control transfer under way or due, and its stage
    class,              \* the class that is probed or has been found
    stored,             \* what the data stage has stored
    plugged             \* history: devices put in

usbDevice == <<config, address, configured, boot, plugged>>
ep0 == <<heard, sent, ep0Toggle>>
control == <<packet, state, request, stage, class, stored>>
keyboardVars == <<vars, usbDevice, ep0, control>>

KeyboardTypeOK ==
    /\ queue \in Seq(Reports) /\ Len(queue) <= MaxPending
    /\ devToggle \in Toggle /\ chipToggle \in Toggle /\ rcvToggle \in Toggle
    /\ fifo \in {<<>>} \cup {<<r>> : r \in Reports}
    /\ hrsl \in Results \cup {"busy"} /\ pc \in {"idle", "wait", "ctrl"}
    /\ nak_count \in 0 .. NakLimit - 1 /\ retry_count \in 0 .. RetryLimit - 1
    /\ keycode \in Seq(Nat)
    /\ config \in Devices /\ address \in {0, 1, Gone} /\ plugged \in 0 .. MaxDevices
    /\ configured \in BOOLEAN /\ boot \in BOOLEAN
    /\ heard \in Requests \cup {"none"} /\ sent \in Nat /\ ep0Toggle \in Toggle
    /\ packet \in Seq(Seq(Nat)) /\ stored \in Seq(Nat)
    /\ state \in {"detached", "enumerating", "RUNNING", "ERROR"}
    /\ request \in Requests \cup {"none"} /\ stage \in {"setup", "data", "status"}
    /\ class \in {"none", "mouse", "keyboard"}

KeyboardInit ==
    /\ Init
    /\ config \in Devices /\ address = Gone /\ configured = FALSE /\ boot = FALSE
    /\ heard = "none" /\ sent = 0 /\ ep0Toggle = 0
    /\ packet = <<>> /\ state = "detached" /\ request = "none"
    /\ stage = "status" /\ class = "none" /\ stored = <<>> /\ plugged = 0

-----------------------------------------------------------------------------
(* The device at its endpoint 0.                                           *)

Smaller(m, n) == IF m < n THEN m ELSE n
Bytes(from, n) == [i \in 1 .. n |-> from + i]

(* Only requests after SET_ADDRESS go to the new address.                  *)
AddressOf(r) == IF r \in {"DevDescr8", "DevDescr", "SetAddr"} THEN 0 ELSE 1
Reached == pc = "ctrl" /\ hrsl = "busy" /\ address = AddressOf(request)

(* Nobody hears the token; or the device puts it off, or answers with an   *)
(* error or with what the chip cannot read.  It takes every SETUP.         *)
NoAnswer(result) ==
    /\ pc = "ctrl" /\ hrsl = "busy"
    /\ \/ result = "TIMEOUT"
       \/ result \in {"NAK", "CRCERR"} /\ Reached /\ stage # "setup"
    /\ hrsl' = result
    /\ UNCHANGED <<device, chipToggle, fifo, host, keycode, usbDevice, ep0, control>>

(* A SETUP heard starts the request afresh, also when it is repeated.      *)
HearSetup(acked) ==
    /\ Reached /\ stage = "setup"
    /\ heard' = request /\ sent' = 0 /\ ep0Toggle' = 1
    /\ hrsl' = IF acked THEN "SUCCESS" ELSE "TIMEOUT"
    /\ UNCHANGED <<device, chipToggle, fifo, host, keycode, usbDevice, control>>

(* The next packet of the descriptor; the chip drops one that it has had.  *)
SendPacket(acked) ==
    /\ Reached /\ stage = "data" /\ heard = request /\ sent < Length[request]
    /\ LET n == Smaller(MaxPkt, Length[request] - sent)
       IN /\ IF ep0Toggle = chipToggle
             THEN /\ packet' = <<Bytes(sent, n)>> /\ chipToggle' = 1 - chipToggle
                  /\ hrsl' = "SUCCESS"
             ELSE hrsl' = "TOGERR" /\ UNCHANGED <<packet, chipToggle>>
          /\ IF acked THEN sent' = sent + n /\ ep0Toggle' = 1 - ep0Toggle
                      ELSE UNCHANGED <<sent, ep0Toggle>>
    /\ UNCHANGED <<device, fifo, host, keycode, usbDevice, heard, state, request,
                   stage, class, stored>>

(* The status stage of a request with data is an OUT ...                   *)
StatusOut(acked) ==
    /\ Reached /\ stage = "status" /\ request \in Reads
    /\ hrsl' = IF acked THEN "SUCCESS" ELSE "TIMEOUT"
    /\ UNCHANGED <<device, chipToggle, fifo, host, keycode, usbDevice, ep0, control>>

(* ... and that of one without is an IN, which the device answers when it  *)
(* has done the request.  It takes its address only when it hears the      *)
(* acknowledgement.                                                        *)
StatusIn(result) ==
    /\ Reached /\ stage = "status" /\ request \notin Reads
    /\ result \in {"SUCCESS", "CRCERR"} /\ hrsl' = result
    /\ IF request = "SetAddr" THEN address' \in {0, 1} ELSE UNCHANGED address
    /\ configured' = (configured \/ request = "SetConf")
    /\ boot' = (IF request = "SetConf" THEN FALSE ELSE boot \/ request = "SetProto")
    /\ IF request = "SetConf" THEN queue' = <<>> /\ devToggle' = 0 ELSE UNCHANGED device
    /\ UNCHANGED <<chipToggle, fifo, host, keycode, config, plugged, ep0, control>>

ControlWire ==
    \/ \E result \in Results : NoAnswer(result) \/ StatusIn(result)
    \/ \E acked \in BOOLEAN : HearSetup(acked) \/ SendPacket(acked) \/ StatusOut(acked)

-----------------------------------------------------------------------------
(* The stages of a control transfer.                                       *)

(* A new dispatch begins with its own counts.                              *)
Launch(s) ==
    /\ pc' = "ctrl" /\ stage' = s /\ hrsl' = "busy"
    /\ nak_count' = 0 /\ retry_count' = 0
    /\ UNCHANGED rcvToggle

Ended(s) == pc = "ctrl" /\ stage = s /\ hrsl = "SUCCESS"

(* XferCtrlReq: the setup packet.                                          *)
Setup ==
    /\ pc = "idle" /\ request # "none"
    /\ Launch("setup")
    /\ UNCHANGED <<device, chipToggle, fifo, keycode, usbDevice, ep0, packet, state,
                   request, class, stored>>

(* XferCtrlData sets the toggle to DATA1 and has XferInTransfer go on from *)
(* there; XferCtrlND goes to the status stage.                             *)
AfterSetup ==
    /\ Ended("setup")
    /\ \/ request \in Reads /\ Launch("data") /\ chipToggle' = 1 /\ stored' = <<>>
       \/ request \notin Reads /\ Launch("status") /\ UNCHANGED <<chipToggle, stored>>
    /\ UNCHANGED <<device, fifo, keycode, usbDevice, ep0, packet, state, request, class>>

(* Fault for the mutants: a full packet counts as a short one.             *)
CompleteFull(p, all) == Len(p) <= MaxPkt \/ Len(all) >= Length[request]

(* A short packet ends the data stage, and so do nbytes.                   *)
Complete(p, all) == Len(p) < MaxPkt \/ Len(all) >= Length[request]

TakePacket ==
    /\ Ended("data") /\ packet # <<>>
    /\ stored' = stored \o packet[1] /\ packet' = <<>>
    /\ Launch(IF Complete(packet[1], stored') THEN "status" ELSE "data")
    /\ UNCHANGED <<device, chipToggle, fifo, keycode, usbDevice, ep0, state, request, class>>

ControlRelaunch ==
    /\ pc = "ctrl" /\ hrsl # "busy" /\ Again(hrsl)
    /\ hrsl' = "busy"
    /\ UNCHANGED <<device, chipToggle, fifo, pc, rcvToggle, keycode, usbDevice, ep0, control>>

-----------------------------------------------------------------------------
(* What comes after a request, USB_Task and the probes.                    *)

Following == [DevDescr8 |-> "DevDescr", DevDescr |-> "SetAddr", SetAddr |-> "ConfDescr",
              ConfDescr |-> "Config", SetConf |-> "SetProto",
              GetIdle |-> "GetProto", GetProto |-> "none"]

GoOn == /\ request' = Following[request]
        /\ class' = IF request = "SetAddr" THEN "mouse" ELSE class
        /\ UNCHANGED <<state, rcvToggle>>

ToError == /\ state' = "ERROR" /\ request' = "none"
           /\ UNCHANGED <<class, rcvToggle>>

(* HIDMProbe is followed by HIDKProbe, and DummyProbe finds nothing.       *)
ProbeFails ==
    \/ /\ class = "mouse" /\ class' = "keyboard" /\ request' = "ConfDescr"
       /\ UNCHANGED state
    \/ /\ class = "keyboard" /\ state' = "ERROR" /\ request' = "none"
       /\ UNCHANGED class

(* Fault for the mutants: the toggle of an earlier device stays.           *)
HID_initNot == UNCHANGED rcvToggle
HID_init == rcvToggle' = 0

(* The walk over the descriptors: the first interface decides, and the     *)
(* first endpoint behind it is taken, of whatever interface.               *)
Positions(types) == {i \in DOMAIN config : config[i] \in types}
Matches == \E i \in Positions({class}) : \A j \in Positions(Interfaces) : i <= j
HasEndpoint == \E i \in Positions({class}), j \in Positions({"endpoint"}) : i < j

Parse ==
    \/ /\ Matches /\ HID_init
       /\ \/ HasEndpoint /\ request' = "SetConf" /\ UNCHANGED <<class, state>>
          \/ ~ HasEndpoint /\ ProbeFails
    \/ /\ ~ Matches /\ ProbeFails
       /\ UNCHANGED rcvToggle

(* The last request of a probe that returns TRUE; main then asks for the   *)
(* idle rate and the protocol.                                             *)
Found == /\ state' = "RUNNING" /\ request' = "GetIdle"
         /\ UNCHANGED <<class, rcvToggle>>

Succeed ==
    \/ request \in DOMAIN Following /\ GoOn
    \/ request = "Config" /\ Parse
    \/ request = "SetProto" /\ Found

(* Fault for the mutants: nobody looks at the result of SET_CONFIGURATION. *)
GiveUpUnchecked ==
    \/ request \in {"DevDescr8", "SetAddr"} /\ ToError
    \/ request \in {"DevDescr", "GetIdle", "GetProto", "SetConf"} /\ GoOn
    \/ request \in {"ConfDescr", "Config", "SetProto"} /\ ProbeFails /\ UNCHANGED rcvToggle

(* The result of the second device descriptor is not looked at, those of   *)
(* main are only printed.                                                  *)
GiveUp ==
    \/ request \in {"DevDescr8", "SetAddr"} /\ ToError
    \/ request \in {"DevDescr", "GetIdle", "GetProto"} /\ GoOn
    \/ /\ request \in {"ConfDescr", "Config", "SetConf", "SetProto"}
       /\ ProbeFails /\ UNCHANGED rcvToggle

Return ==
    /\ \/ Ended("status") /\ Succeed
       \/ pc = "ctrl" /\ hrsl \notin {"busy", "SUCCESS"} /\ LastTry(hrsl) /\ GiveUp
    /\ pc' = "idle"
    /\ UNCHANGED <<device, chip, nak_count, retry_count, keycode, usbDevice, ep0, packet,
                   stage, stored>>

-----------------------------------------------------------------------------
(* The device comes and goes; the handler looks between two calls of       *)
(* USB_Task (UsbHost has the states in between).                           *)

Unplug ==
    /\ address # Gone
    /\ address' = Gone /\ configured' = FALSE /\ boot' = FALSE
    /\ UNCHANGED <<vars, config, plugged, ep0, control>>

BetweenTasks ==
    /\ pc = "idle"
    /\ \/ request \in {"none", "DevDescr8", "SetAddr", "GetIdle"}
       \/ request = "ConfDescr" /\ class = "mouse"

Detach ==
    /\ BetweenTasks /\ address = Gone /\ state # "detached"
    /\ state' = "detached" /\ request' = "none" /\ class' = "none"
    /\ UNCHANGED <<vars, usbDevice, ep0, packet, stage, stored>>

PlugIn ==
    /\ state = "detached" /\ plugged < MaxDevices
    /\ plugged' = plugged + 1
    /\ config' \in Devices /\ address' = 0
    /\ state' = "enumerating" /\ request' = "DevDescr8"
    /\ queue' = <<>> /\ heard' = "none" /\ sent' = 0 /\ ep0Toggle' = 0
    /\ UNCHANGED <<devToggle, chip, host, keycode, configured, boot, packet, stage,
                   class, stored>>

(* kbdPoll, once main has reported the device.                             *)
KeyboardPoll == state = "RUNNING" /\ request = "none" /\ class = "keyboard" /\ Poll

KeyboardFirmware ==
    \/ (KeyboardPoll \/ Relaunch \/ Fail \/ Receive) /\ UNCHANGED <<usbDevice, ep0, control>>
    \/ Setup \/ AfterSetup \/ TakePacket \/ ControlRelaunch \/ Return \/ Detach

KeyboardWire ==
    \/ ControlWire
    \/ ((configured /\ Wire) \/ NoData("TIMEOUT")) /\ UNCHANGED <<usbDevice, ep0, control>>

Whole == configured /\ Data(TRUE) /\ UNCHANGED <<usbDevice, ep0, control>>

TypeKey(r) ==
    /\ configured /\ Positions({"keyboard"}) # {} /\ Type(r)
    /\ UNCHANGED <<usbDevice, ep0, control>>

KeyboardNext ==
    \/ \E r \in Reports : TypeKey(r)
    \/ KeyboardWire \/ KeyboardFirmware \/ Unplug \/ PlugIn

(* As in UsbPoll; nobody has to plug in or pull out a device.              *)
KeyboardSpec ==
    /\ KeyboardInit /\ [][KeyboardNext]_keyboardVars
    /\ WF_keyboardVars(KeyboardFirmware) /\ WF_keyboardVars(KeyboardWire)
    /\ SF_keyboardVars(Whole)

-----------------------------------------------------------------------------
(* A descriptor is parsed as the device has it, no byte twice and none     *)
(* left out, although a lost acknowledgement makes the device send a       *)
(* packet again (transfer.c:113-118, 198-217).                             *)
WholeDescriptor ==
    pc = "ctrl" /\ stage = "status" /\ request \in Reads =>
        stored = Bytes(0, Length[request])

(* Why: the chip holds the next packet or none, the device has sent what   *)
(* the host has had, and while the toggles differ it is a packet behind.   *)
Portion(n) == Smaller(MaxPkt, Length[request] - n)
Had == Len(stored) + IF packet = <<>> THEN 0 ELSE Len(packet[1])
DataStage ==
    /\ request \in Reads /\ heard = request
    /\ stored = Bytes(0, Len(stored)) /\ Len(stored) < Length[request]
    /\ packet # <<>> => packet = <<Bytes(Len(stored), Portion(Len(stored)))>>
    /\ \/ ep0Toggle = chipToggle /\ sent = Had
       \/ ep0Toggle # chipToggle /\ sent < Length[request] /\ sent + Portion(sent) = Had
TransferInv ==
    /\ packet # <<>> <=> Ended("data")
    /\ Ended("setup") => heard = request /\ sent = 0 /\ ep0Toggle = 1
    /\ pc = "ctrl" /\ stage = "data" => DataStage
    /\ WholeDescriptor

(* Which requests belong to which state, and what they are made for.       *)
RequestInv ==
    /\ state \in {"detached", "ERROR"} => request = "none" /\ pc = "idle"
    /\ state = "detached" => address = Gone
    /\ state = "enumerating" => request \notin {"none", "GetIdle", "GetProto"}
    /\ state = "RUNNING" => request \in {"none", "GetIdle", "GetProto"}
    /\ pc = "ctrl" => request # "none"
    /\ pc = "wait" => state = "RUNNING" /\ request = "none"
    /\ request \in {"ConfDescr", "Config", "SetConf", "SetProto"} \/ state = "RUNNING"
          => class \in {"mouse", "keyboard"}

(* The firmware polls only what has been given its configuration and the   *)
(* boot protocol and is what the probe took it for, whichever requests     *)
(* failed on the way (HID.c:61-101, 152-191, transfer.c:360-374).          *)
ReadyWhenRunning ==
    state = "RUNNING" /\ address # Gone =>
        /\ address = 1 /\ configured /\ boot
        /\ Matches /\ class \in {"mouse", "keyboard"}

(* Why: each request that succeeds has reached the device that is there,   *)
(* and a device is only put in once the one before has been noticed gone.  *)
ReadyInv ==
    /\ configured => address # Gone
    /\ request \in {"SetConf", "SetProto"} \/ state = "RUNNING" => Matches
    /\ address # Gone =>
          /\ request = "SetConf" /\ Ended("status") => address = 1 /\ configured
          /\ request = "SetProto" => address = 1 /\ configured
          /\ request = "SetProto" /\ Ended("status") => boot
    /\ ReadyWhenRunning

(* The toggles agree from the first poll of every device on, whatever the  *)
(* one before has left behind (HID.c:66, 157, 203-206).                    *)
SessionToggles == configured => ToggleInv

(* Why: HID_init and SET_CONFIGURATION both clear, in this order, and in    *)
(* between nothing but control transfers is sent.                          *)
TogglesInv ==
    /\ hrsl = "busy" => pc # "idle"
    /\ fifo # <<>> <=> pc = "wait" /\ hrsl = "SUCCESS"
    /\ fifo # <<>> => rcvToggle # chipToggle
    /\ pc = "wait" /\ fifo = <<>> => rcvToggle = chipToggle
    /\ request = "SetConf" => rcvToggle = 0
    /\ state # "RUNNING" /\ (configured \/ request = "SetProto"
                              \/ (request = "SetConf" /\ Ended("status")))
          => devToggle = 0 /\ rcvToggle = 0
    /\ state = "RUNNING" => (devToggle # Expected => queue # <<>>)

(* From the configuration of a keyboard on its reports are kept for the    *)
(* register, until it is pulled out or given up.                           *)
KeyboardStream == INSTANCE ReportStream WITH
    pending <- fifo \o (IF configured /\ state # "ERROR" THEN Unseen ELSE <<>>),
    up <- configured /\ state = "RUNNING",
    MaxPending <- MaxPending + 1
ImplementsStream == KeyboardStream!Spec

(* An enumeration comes to an end, in RUNNING, in ERROR or with the device *)
(* gone, whatever mixture of losses it meets (transfer.c:165-182).         *)
EnumerationReturns == (state = "enumerating") ~> (state # "enumerating")
=============================================================================
