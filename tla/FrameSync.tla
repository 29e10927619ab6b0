------------------------------ MODULE FrameSync ------------------------------
(***************************************************************************)
(* How a game notices that a frame has ended: the beam line counted at the *)
(* pixel clock, the NMI level made from it at ppu_clk (ppu.sv:775-781),    *)
(* the vertical blank flag made from it at cpu_clk (ppu.sv:133-137), and   *)
(* the NMI edge detector of the CPU (T65.vhd:503-510, 696-699), which the  *)
(* DMA stops and which branches suspend.                                   *)
(*                                                                         *)
(* The line number is sampled in two other clock domains without a         *)
(* synchroniser.  With Tearing an edge that meets a change of the counter  *)
(* takes each bit from either value.                                       *)
(***************************************************************************)
EXTENDS Integers

CONSTANTS
    NLines, LineNo,     \* the lines modelled, in order: LineNo[i] is DrawY
    CplMin, CplMax,     \* cpu_clk edges in a line (56 to 57)
    MaxStall,           \* cpu_clk edges a DMA stops the CPU for (43)
    Tearing,
    MaxRaises           \* bound: rises of PPUCTRL[7] in one NMI pulse

Line == 1 .. NLines
MaxSuspended == 1       \* cycle 1 of a branch

(* The DMA is shorter than the NMI pulse of two lines.                     *)
ASSUME FrameAssumption ==
    /\ NLines \in Nat \ {0} /\ LineNo \in [Line -> 0 .. 1023]
    /\ CplMin \in Nat \ {0} /\ CplMax \in Nat /\ CplMin <= CplMax
    /\ MaxStall \in Nat /\ MaxSuspended <= MaxStall /\ MaxStall + 1 < 2 * CplMin
    /\ Tearing \in BOOLEAN /\ MaxRaises \in Nat

(* The lines are those of a counter, with every one the code compares with *)
(* and the one at which a missed frame is noticed.                         *)
ASSUME LineAssumption ==
    /\ \A i, j \in Line : i < j => LineNo[i] < LineNo[j]
    /\ \A i \in Line : LineNo[i] <= 524
    /\ \A y \in {480, 481, 482, 520} : \E i \in Line : LineNo[i] = y

VARIABLES
    line, cyc,      \* the line, and the cpu_clk edges in it so far
    ppuOld, cpuOld, \* what the next edge of each clock may still see of DrawY
    ppuRan,         \* ppu_clk (three times cpu_clk) since the last cpu_clk edge
    nmi,            \* the NMI level
    ctrl7,          \* PPUCTRL[7], NMI enable
    vbl,            \* PPUSTATUS[7]
    stall,          \* cpu_clk edges left of a DMA
    suspended,      \* cycles for which a branch has held the detector
    NMI_n_o,        \* the detector's last sample, active low
    acts,           \* history: edges detected since line 480 began
    raises,         \* history: rises of the NMI condition since then
    held,           \* history: cpu_clk edges for which nmi has been high
    on,             \* history: ctrl7 has been high since line 480 began
    accessed        \* history: $2002 accessed after line 480

beam == <<line, cyc>>
history == <<acts, raises, held, on, accessed>>
vars == <<beam, ppuOld, cpuOld, ppuRan, nmi, ctrl7, vbl, stall, suspended,
          NMI_n_o, history>>

DrawY == LineNo[line]

TypeOK ==
    /\ line \in Line /\ cyc \in 0 .. CplMax
    /\ ppuOld \in 0 .. 1023 /\ cpuOld \in 0 .. 1023
    /\ ppuRan \in BOOLEAN /\ nmi \in BOOLEAN /\ ctrl7 \in BOOLEAN /\ vbl \in BOOLEAN
    /\ stall \in 0 .. MaxStall /\ suspended \in 0 .. MaxSuspended
    /\ NMI_n_o \in BOOLEAN
    /\ acts \in Nat /\ raises \in 0 .. MaxRaises + 1
    /\ held \in 0 .. MaxStall + 1 /\ on \in BOOLEAN /\ accessed \in BOOLEAN

Init ==
    /\ line = 1 /\ cyc = 0 /\ ppuOld = LineNo[1] /\ cpuOld = LineNo[1]
    /\ ppuRan = FALSE
    /\ nmi = FALSE /\ ctrl7 = FALSE /\ vbl = FALSE
    /\ stall = 0 /\ suspended = 0 /\ NMI_n_o = TRUE
    /\ acts = 0 /\ raises = 0 /\ held = 0 /\ on = FALSE /\ accessed = FALSE

-----------------------------------------------------------------------------
Bit(n, i) == (n \div 2 ^ i) % 2

(* A sample of DrawY may read y: each bit old or new.                      *)
MayRead(old, y) ==
    \A i \in 0 .. 9 : Bit(y, i) \in {Bit(old, i), Bit(DrawY, i)}

(* The samples that matter are the lines the code compares with, 480, 481  *)
(* and 520; any other value acts like the true line.                       *)
Samples(old) ==
    {DrawY} \cup {y \in {480, 481, 520} : Tearing /\ MayRead(old, y)}

(* DrawY[8:1] == 240.                                                      *)
NmiLine(y) == (y \div 2) % 256 = 240

(* The beam moves on.  Only a step to the next number can tear: the lines  *)
(* left out of LineNo change nothing.                                      *)
NextLine ==
    LET next == IF line = NLines THEN 1 ELSE line + 1
        old == IF LineNo[next] \in {DrawY + 1, 0} THEN DrawY ELSE LineNo[next]
    IN /\ cyc >= CplMin
       /\ line' = next /\ cyc' = 0
       /\ ppuOld' = old /\ cpuOld' = old
       /\ IF LineNo[next] = 480
          THEN /\ acts' = 0 /\ accessed' = FALSE
               /\ on' = ctrl7 /\ raises' = IF ctrl7 THEN 1 ELSE 0
          ELSE UNCHANGED <<acts, accessed, on, raises>>
       /\ UNCHANGED <<ppuRan, nmi, ctrl7, vbl, stall, suspended, NMI_n_o, held>>

PpuEdge ==
    /\ \E y \in Samples(ppuOld) : nmi' = (NmiLine(y) /\ ctrl7)
    /\ ppuRan' = TRUE /\ ppuOld' = DrawY
    /\ UNCHANGED <<beam, cpuOld, ctrl7, vbl, stall, suspended, NMI_n_o, history>>

(* Fault: an access clears the flag on line 480 too.                       *)
VblankFlagCleared(reg, y) ==
    vbl' = IF reg = "status" \/ y = 520 THEN FALSE ELSE vbl \/ y = 480

(* PPUSTATUS[7]: line 480 sets it, and wins over an access of $2002.       *)
VblankFlag(reg, y) ==
    vbl' = IF y = 480 THEN TRUE
           ELSE IF reg = "status" \/ y = 520 THEN FALSE ELSE vbl

(* Fault: the level counts, not the edge.                                  *)
SampleNmiAgain ==
    /\ NMI_n_o' = ~nmi
    /\ acts' = IF nmi /\ acts < 3 THEN acts + 1 ELSE acts

(* The detector of the CPU.                                                *)
SampleNmi ==
    /\ NMI_n_o' = ~nmi
    /\ acts' = IF NMI_n_o /\ nmi THEN acts + 1 ELSE acts

(* What every cpu_clk edge does, whether the CPU is stopped or not; reg is *)
(* the PPU register the CPU accesses.                                      *)
AnyCpuEdge(reg) ==
    /\ ppuRan /\ cyc < CplMax
    /\ ppuRan' = FALSE /\ cyc' = cyc + 1 /\ cpuOld' = DrawY
    /\ \E y \in Samples(cpuOld) : VblankFlag(reg, y)
    /\ held' = IF ~nmi THEN 0 ELSE IF held > MaxStall THEN held ELSE held + 1
    /\ accessed' = (accessed \/ (reg = "status" /\ DrawY > 480))
    /\ UNCHANGED <<line, ppuOld, nmi>>

(* A cycle of the CPU that neither branches nor touches the PPU.           *)
OtherCycle ==
    /\ stall = 0
    /\ AnyCpuEdge("other") /\ SampleNmi
    /\ suspended' = 0
    /\ UNCHANGED <<ctrl7, stall, on, raises>>

(* Fault: the level is taken in these cycles, the edge is not.             *)
BranchCycleLevel ==
    /\ stall = 0 /\ suspended < MaxSuspended
    /\ AnyCpuEdge("other")
    /\ NMI_n_o' = ~nmi
    /\ suspended' = suspended + 1
    /\ UNCHANGED <<acts, ctrl7, stall, on, raises>>

(* Fault: the other cycles of a branch hold the detector too, so that      *)
(* branches in a row hold it without end.                                  *)
BranchCycleAlways ==
    /\ stall = 0
    /\ AnyCpuEdge("other")
    /\ UNCHANGED <<NMI_n_o, acts, suspended, ctrl7, stall, on, raises>>

(* Cycle 1 of a branch, the only one with Jump = "01", holds the detector  *)
(* (T65.vhd:508, 697, T65_MCode.vhd:814).  A cycle that does not follows.  *)
BranchCycle ==
    /\ stall = 0 /\ suspended < MaxSuspended
    /\ AnyCpuEdge("other")
    /\ suspended' = suspended + 1
    /\ UNCHANGED <<NMI_n_o, acts, ctrl7, stall, on, raises>>

(* A read or a write of $2002.                                             *)
StatusCycle ==
    /\ stall = 0
    /\ AnyCpuEdge("status") /\ SampleNmi
    /\ suspended' = 0
    /\ UNCHANGED <<ctrl7, stall, on, raises>>

(* A write of $2000.                                                       *)
ControlCycle(enable) ==
    /\ stall = 0
    /\ AnyCpuEdge("control") /\ SampleNmi
    /\ ctrl7' = enable
    /\ on' = (on /\ enable)
    /\ raises' = IF enable /\ ~ctrl7 /\ NmiLine(DrawY) THEN raises + 1 ELSE raises
    /\ raises' <= MaxRaises
    /\ suspended' = 0 /\ UNCHANGED stall

(* The cycle of $4014, and the cycles for which the DMA stops the CPU: the *)
(* one after it is an opcode fetch, whose address the PPU ignores.  The    *)
(* cycle the CPU resumes with belongs to the same instruction, no branch.  *)
DmaCycle ==
    /\ stall = 0
    /\ AnyCpuEdge("other") /\ SampleNmi
    /\ suspended' = MaxSuspended
    /\ stall' \in 1 .. MaxStall
    /\ UNCHANGED <<ctrl7, on, raises>>

StalledCycle ==
    /\ stall > 0 /\ stall' = stall - 1
    /\ AnyCpuEdge("other")
    /\ UNCHANGED <<suspended, NMI_n_o, acts, ctrl7, on, raises>>

CpuEdge ==
    \/ OtherCycle \/ StatusCycle \/ DmaCycle \/ StalledCycle \/ BranchCycle
    \/ \E enable \in BOOLEAN : ControlCycle(enable)

Next == NextLine \/ PpuEdge \/ CpuEdge

Spec == Init /\ [][Next]_vars

-----------------------------------------------------------------------------
(* A game that keeps NMI enabled is told of every frame: the pulse of two  *)
(* lines is longer than the DMA and the branches for which the detector    *)
(* does not look, and it looks at both ends of an edge at the same time.   *)
EveryFrame == DrawY = 482 /\ on => acts >= 1

(* The detector has seen the level within one DMA and one cycle.           *)
SeenInTime == nmi /\ held > MaxStall => ~NMI_n_o

(* Why: while the last sample is of a low level, the level can only have   *)
(* risen in the cycles the detector has not looked at since.  With TypeOK  *)
(* this is inductive.                                                      *)
DetectInv ==
    NMI_n_o => \/ stall = 0 /\ held <= suspended
               \/ suspended = MaxSuspended /\ held + stall <= MaxStall

(* It is told once: an NMI is taken for each time the level rises, and the *)
(* level rises once a frame unless the game toggles PPUCTRL[7] during the  *)
(* pulse.                                                                  *)
OneNmiPerRaise == acts <= raises

(* Once line 480 is over, the flag is set until the first access of $2002  *)
(* and clear after it, and line 520 clears it for the next frame.          *)
FlagTracksReads ==
    /\ DrawY \in 481 .. 519 => (vbl <=> ~accessed)
    /\ vbl => DrawY \in 480 .. 519 \/ (DrawY = 520 /\ cyc = 0)

(* Why, as long as samples are not torn.  The level is that of the pulse,  *)
(* late by a ppu_clk edge: at most one cpu_clk edge of line 482 finds it   *)
(* high, and at most one of line 480 finds it low.                         *)
Late == cyc = 0 \/ (cyc = 1 /\ ~ppuRan)
PulseInv ==
    /\ nmi => DrawY \in {480, 481} \/ (DrawY = 482 /\ Late)
    /\ on => ctrl7
    /\ on /\ DrawY = 480 => nmi \/ Late
    /\ on /\ DrawY = 481 => nmi

(* On the two lines of the pulse the level is high for longer than the     *)
(* detector can be blind.                                                  *)
HeldInv ==
    /\ on /\ DrawY = 480 => held + 1 >= cyc \/ held > MaxStall
    /\ on /\ DrawY = 481 => held + 1 >= CplMin + cyc \/ held > MaxStall

(* In the lines after it the detector sees the low level again, so that it *)
(* is ready for the next frame.                                            *)
LowInv ==
    /\ stall > 0 => suspended = MaxSuspended
    /\ ~NMI_n_o =>
        /\ DrawY = 482 /\ cyc > 1 =>
              \/ stall = 0 /\ cyc - 1 <= suspended
              \/ suspended = MaxSuspended /\ cyc - 1 + stall <= MaxStall
        /\ DrawY \notin 480 .. 482 =>
              \/ stall = 0 /\ CplMin - 1 + cyc <= suspended
              \/ suspended = MaxSuspended /\ CplMin - 1 + cyc + stall <= MaxStall

(* The first sample of a high level since line 480 began is an edge.       *)
FirstEdgeInv == acts = 0 => NMI_n_o

(* An edge that the detector is still to see has been counted as a rise.   *)
RaiseInv ==
    (NMI_n_o /\ nmi) \/ (NmiLine(DrawY) /\ ctrl7 /\ ~nmi) => acts < raises

(* Line 480 sets the flag, and no access on that line counts.              *)
FlagInv == DrawY = 480 => ~accessed /\ (cyc > 0 => vbl)
=============================================================================
