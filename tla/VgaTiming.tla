----------------------------- MODULE VgaTiming ------------------------------
(***************************************************************************)
(* src/VGA_Controller.sv: the beam position and the two sync pulses, which *)
(* are registered and so decided one pixel clock ahead of the position     *)
(* they are seen at.  The instance in src/ppu.sv ties Reset to 0, so only  *)
(* the pixel clock moves it.                                               *)
(***************************************************************************)
EXTENDS Integers

CONSTANTS
    hpixels, vlines,    \* the last pixel of a line and the last line (799, 524)
    HsFirst, HsEnd,     \* hs is driven low for HsFirst <= hc + 1 < HsEnd (656, 752)
    VsFirst             \* vs is driven low for vc + 1 \in VsFirst .. VsFirst + 1 (490)

ASSUME TimingAssumption ==
    /\ hpixels \in Nat /\ vlines \in Nat
    /\ HsFirst \in Nat /\ HsEnd \in Nat /\ VsFirst \in Nat
    /\ 0 < HsFirst /\ HsFirst < HsEnd /\ HsEnd <= hpixels
    /\ 1 < VsFirst /\ VsFirst + 1 <= vlines

VARIABLES hc, vc, hs, vs

vars == <<hc, vc, hs, vs>>

TypeOK == /\ hc \in 0 .. hpixels /\ vc \in 0 .. vlines
          /\ hs \in BOOLEAN /\ vs \in BOOLEAN

(* All registers power up low.                                             *)
Init == hc = 0 /\ vc = 0 /\ hs = FALSE /\ vs = FALSE

Counters ==
    /\ hc' = IF hc = hpixels THEN 0 ELSE hc + 1
    /\ vc' = IF hc # hpixels THEN vc ELSE IF vc = vlines THEN 0 ELSE vc + 1

Hsync == hs' = ~(HsFirst <= hc + 1 /\ hc + 1 < HsEnd)
Vsync == vs' = (vc + 1 \notin {VsFirst, VsFirst + 1})

Next == Counters /\ Hsync /\ Vsync

Spec == Init /\ [][Next]_vars

-----------------------------------------------------------------------------
PowerUp == hc = 0 /\ vc = 0

(* hs is low on the pixels 656 to 751 and on no other: adding one before   *)
(* the comparison makes up for the register.                               *)
HsyncWindow == ~PowerUp => (~hs <=> hc \in HsFirst .. HsEnd - 1)

(* What the comment at line 86 says of vs: it is low on lines 490 and 491. *)
(* The first pixel of a line is left to the register's delay.              *)
VsyncAt490 == ~PowerUp /\ hc > 0 => (~vs <=> vc \in VsFirst .. VsFirst + 1)

(* What line 93 does instead: the pulse is as long as it should be, but a  *)
(* line early, from the second pixel of line 489 to the first of line 491. *)
(* The comparison adds one line, where the register delays by one pixel.   *)
VsyncWindow ==
    ~PowerUp => (~vs <=> \/ vc = VsFirst - 1 /\ hc > 0
                         \/ vc = VsFirst
                         \/ vc = VsFirst + 1 /\ hc = 0)
=============================================================================
