------------------------------ MODULE OamCopy -------------------------------
(***************************************************************************)
(* What the OAM DMA of src/top.sv promises to the program: the bus cycle   *)
(* that accesses $4014 copies a page of RAM to OAM as one step, and no     *)
(* other step of the CPU can be seen in between.                           *)
(***************************************************************************)
EXTENDS Integers

CONSTANTS N, DmaReg, OamAddrReg, OamDataReg, BusCycles, InitRams

VARIABLES bus, ram, oam, OAMADDR, OAMDATA, oam_wren1

vars == <<bus, ram, oam, OAMADDR, OAMDATA, oam_wren1>>

Byte == 0 .. N - 1
IncByte(b) == IF b = N - 1 THEN 0 ELSE b + 1

Init ==
    /\ bus \in BusCycles /\ ram \in InitRams
    /\ OAMADDR = 0 /\ OAMDATA = 0 /\ oam_wren1 = FALSE
    /\ oam = [i \in Byte |-> 0]

(* The memories take what is on their ports.                               *)
Memories ==
    /\ ram' = IF bus.wren THEN [ram EXCEPT ![bus.addr] = bus.dout] ELSE ram
    /\ oam' = IF oam_wren1 THEN [oam EXCEPT ![OAMADDR] = OAMDATA] ELSE oam
    /\ UNCHANGED <<bus, OAMADDR, OAMDATA, oam_wren1>>

(* The CPU goes on to its next bus cycle; leaving a cycle of $4014 copies  *)
(* the page it named.                                                      *)
NextCycle(b) ==
    /\ bus' = b
    /\ oam' = IF bus.addr = DmaReg
              THEN [i \in Byte |-> ram[<<bus.dout, i>>]] ELSE oam
    /\ UNCHANGED ram

(* The registers $2003 and $2004.                                          *)
Registers ==
    /\ OAMADDR' \in {0, OAMADDR, IncByte(OAMADDR), bus.dout}
    /\ IF bus.addr = OamDataReg /\ bus.wren
       THEN OAMDATA' = bus.dout /\ oam_wren1' = TRUE
       ELSE OAMDATA' = OAMDATA /\ oam_wren1' = FALSE

CpuCycle == Registers /\ \E b \in BusCycles : NextCycle(b)

(* OAMADDR is cleared at the end of a scanline, the CPU stalled or not.    *)
Clear == OAMADDR' = 0 /\ UNCHANGED <<bus, ram, oam, OAMDATA, oam_wren1>>

Next == Memories \/ CpuCycle \/ Clear

Spec == Init /\ [][Next]_vars
=============================================================================
