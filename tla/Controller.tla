----------------------------- MODULE Controller -----------------------------
(***************************************************************************)
(* src/controller.sv and the path of a key to the game: the firmware's     *)
(* main loop stores the first four key codes of a report in the keycode    *)
(* register, the controller turns them into eight button levels, a write   *)
(* of $4016 or $4017 loads them into a shift register, and every read of   *)
(* either address shifts one out.  A code and a register are the sets of   *)
(* their 1 bits.                                                           *)
(*                                                                         *)
(* The CPU takes its data at the clock edge at which the controller puts   *)
(* out the next bit, so it sees the bit put out by the access before.      *)
(*                                                                         *)
(* The keycode register is written in the 50 MHz domain and read,          *)
(* unsynchronised, at cpu_clk: an edge that meets a change may take each   *)
(* bit from either value.                                                  *)
(***************************************************************************)
EXTENDS Integers, Sequences

CONSTANTS
    ButtonOf,   \* the keys that have a button, and its bit: code -> 0..7
    Reports,    \* the reports a keyboard sends: sequences of six codes
    MaxReads    \* bound: reads after a write

Slots == 1 .. 4         \* bytes of the keycode register, from the lowest
Bits == 0 .. 7
Code == SUBSET Bits     \* HID usage codes; {} is no key

ASSUME KeyAssumption ==
    /\ Reports \subseteq [1 .. 6 -> Code]
    /\ DOMAIN ButtonOf \subseteq Code \ {{}}
    /\ \A k \in DOMAIN ButtonOf : ButtonOf[k] \in Bits
    /\ MaxReads \in Nat

VARIABLES
    keycode,    \* the register
    settling,   \* what the next cpu_clk edge may still see of its old value
    data, dout, \* the shift register and the bit put out
    got,        \* what the CPU's reads returned since the last write
    pressed     \* the button levels that write loaded

controllerVars == <<keycode, settling, data, dout, got, pressed>>

ControllerTypeOK ==
    /\ keycode \in [Slots -> Code] /\ settling \in [Slots -> Code]
    /\ data \subseteq Bits /\ dout \in BOOLEAN
    /\ got \in Seq(BOOLEAN) /\ pressed \subseteq Bits

NoKeys == [s \in Slots |-> {}]

ControllerInit ==
    /\ keycode = NoKeys /\ settling = NoKeys
    /\ data = {} /\ dout = FALSE
    /\ got = <<>> /\ pressed = {}

(* Fault: the highest byte is not looked at.                               *)
controller_din_three(code) ==
    {ButtonOf[code[s]] : s \in {t \in Slots \ {4} : code[t] \in DOMAIN ButtonOf}}

(* A key in any of the four bytes sets its button.                         *)
controller_din(code) ==
    {ButtonOf[code[s]] : s \in {t \in Slots : code[t] \in DOMAIN ButtonOf}}

(* Bit 7 leaves, 0 enters at bit 0.                                        *)
ShiftLeft(d) == {b + 1 : b \in d \ {7}}

(* What a bit by bit sample of a byte that changes from a to b may return. *)
Torn(a, b) == {(a \cap b) \cup x : x \in SUBSET ((a \cup b) \ (a \cap b))}
Visible(s) == Torn(settling[s], keycode[s])

(* The firmware copies the first four keys of a report, the first to the   *)
(* highest byte, in one store.  Reports are milliseconds apart.            *)
SetKeycode(report) ==
    /\ settling = keycode
    /\ settling' = keycode
    /\ keycode' = [s \in Slots |-> report[5 - s]]
    /\ UNCHANGED <<data, dout, got, pressed>>

(* A write of either address, whatever its data, loads the buttons.        *)
Write ==
    \E a \in Visible(1), b \in Visible(2), c \in Visible(3), d \in Visible(4) :
        LET code == <<a, b, c, d>> IN
        /\ data' = ShiftLeft(controller_din(code))
        /\ dout' = (7 \in controller_din(code))
        /\ got' = <<>> /\ pressed' = controller_din(code)
        /\ settling' = keycode /\ UNCHANGED keycode

(* Fault: the bit is put out after the shift.                              *)
ReadAhead ==
    /\ Len(got) < MaxReads
    /\ dout' = (7 \in ShiftLeft(data)) /\ data' = ShiftLeft(data)
    /\ got' = Append(got, dout)
    /\ settling' = keycode /\ UNCHANGED <<keycode, pressed>>

(* A read of either address: the CPU gets the bit of the access before.    *)
Read ==
    /\ Len(got) < MaxReads
    /\ dout' = (7 \in data)
    /\ data' = ShiftLeft(data)
    /\ got' = Append(got, dout)
    /\ settling' = keycode /\ UNCHANGED <<keycode, pressed>>

(* An edge with another address on the bus.                                *)
OtherAccess ==
    /\ settling' = keycode
    /\ UNCHANGED <<keycode, data, dout, got, pressed>>

ControllerNext ==
    (\E report \in Reports : SetKeycode(report)) \/ Write \/ Read \/ OtherAccess

ControllerSpec == ControllerInit /\ [][ControllerNext]_controllerVars

-----------------------------------------------------------------------------
(* The n-th read after a write returns the level, at the write, of the     *)
(* n-th button in the order A, B, Select, Start, Up, Down, Left, Right;    *)
(* reads past the eighth return 0.  Key presses and releases between the   *)
(* reads do not show.                                                      *)
ReadsSnapshot ==
    \A n \in DOMAIN got : got[n] = (n <= 8 /\ 8 - n \in pressed)

(* The register and the bit put out are what is left of the snapshot: with *)
(* ControllerTypeOK and ReadsSnapshot this is inductive.                   *)
ShiftInv ==
    /\ data = {b \in Bits : b > Len(got) /\ b - Len(got) - 1 \in pressed}
    /\ dout = (7 - Len(got) \in pressed)

(* Whatever a sample in the middle of a report makes of the keys that      *)
(* change, a key that stays in its slot across the report is loaded as     *)
(* pressed, and with no change under way no button shows that no key       *)
(* holds.                                                                  *)
SteadyKeysShow ==
    [][got' = <<>> /\ (got # <<>> \/ pressed' # pressed) =>
        /\ \A s \in Slots :
              keycode[s] = settling[s] /\ keycode[s] \in DOMAIN ButtonOf
                  => ButtonOf[keycode[s]] \in pressed'
        /\ settling = keycode => pressed' = controller_din(keycode)]_controllerVars
=============================================================================
