------------------------------- MODULE OamDma -------------------------------
(***************************************************************************)
(* The OAM DMA engine of src/top.sv with everything it touches: the CPU    *)
(* bus it watches and stalls, the flat RAM it reads through a registered   *)
(* read port, and the OAM port it takes over from the PPU registers.       *)
(*                                                                         *)
(* Two clocks of one PLL drive it.  Their ratio is not an integer, so the  *)
(* model only says that at least MinNes and at most MaxNes nes_clk edges   *)
(* separate two cpu_clk edges (11 to 13 in the hardware).                  *)
(*                                                                         *)
(* A byte ranges over 0..N-1 (N = 256 in the hardware) and an address is   *)
(* the pair <<high byte, low byte>>, as in the code's {dma_reg, 8'd0}.     *)
(***************************************************************************)
EXTENDS Integers

CONSTANTS
    N,              \* the number of values of a byte
    MinNes, MaxNes, \* nes_clk edges between two cpu_clk edges
    DmaReg,         \* $4014
    OamAddrReg,     \* $2003
    OamDataReg,     \* $2004
    BusCycles,      \* the bus cycles the CPU may issue
    InitRams        \* what RAM may hold at power-up

Byte == 0 .. N - 1
Addr == Byte \X Byte
PpuOamRegs == {OamAddrReg, OamDataReg}

ASSUME ByteAssumption == N \in Nat /\ N >= 2

(* The trigger of top.sv:249-255 needs two nes_clk edges: the second one   *)
(* puts the dma_reg written by the first into dma_ram_addr.                *)
ASSUME ClockAssumption ==
    MinNes \in Nat /\ MaxNes \in Nat /\ 2 <= MinNes /\ MinNes <= MaxNes

ASSUME BusAssumption ==
    /\ DmaReg \in Addr /\ OamAddrReg \in Addr /\ OamDataReg \in Addr
    /\ DmaReg \notin PpuOamRegs /\ OamAddrReg # OamDataReg
    /\ BusCycles \subseteq [addr : Addr, wren : BOOLEAN, dout : Byte]

ASSUME RamAssumption == InitRams \subseteq [Addr -> Byte]

VARIABLES
    phase,          \* nes_clk edges since the last cpu_clk edge
    bus,            \* cpu_addr, ~cpu_read and cpu_dout
    ram, ram_dout,  \* the RAM and its registered read port
    dma, dma_finish, dma_count, dma_reg, dma_ram_addr, dma_oam_addr,
    OAMADDR, OAMDATA, oam_wren1,    \* the PPU's side of the OAM port
    oam

dmaRegs == <<dma_count, dma_reg, dma_ram_addr, dma_oam_addr>>
ppuRegs == <<OAMADDR, OAMDATA, oam_wren1>>
vars == <<phase, bus, ram, ram_dout, dma, dma_finish, dmaRegs, ppuRegs, oam>>

TypeOK ==
    /\ phase \in 0 .. MaxNes
    /\ bus \in [addr : Addr, wren : BOOLEAN, dout : Byte]
    /\ ram \in [Addr -> Byte] /\ ram_dout \in Byte
    /\ dma \in BOOLEAN /\ dma_finish \in BOOLEAN
    /\ dma_count \in 0 .. 2 * N
    /\ dma_reg \in Byte /\ dma_ram_addr \in Addr /\ dma_oam_addr \in Byte
    /\ OAMADDR \in Byte /\ OAMDATA \in Byte /\ oam_wren1 \in BOOLEAN
    /\ oam \in [Byte -> Byte]

(* dma and dma_finish have initial values in the code; the other registers *)
(* power up low.                                                           *)
Init ==
    /\ phase = 0
    /\ bus \in BusCycles
    /\ ram \in InitRams /\ ram_dout = 0
    /\ dma = FALSE /\ dma_finish = TRUE
    /\ dma_count = 0 /\ dma_reg = 0
    /\ dma_ram_addr = <<0, 0>> /\ dma_oam_addr = 0
    /\ OAMADDR = 0 /\ OAMDATA = 0 /\ oam_wren1 = FALSE
    /\ oam = [i \in Byte |-> 0]

-----------------------------------------------------------------------------
(* Registers that wrap at their width.                                     *)
IncByte(b) == IF b = N - 1 THEN 0 ELSE b + 1
IncAddr(a) == <<IF a[2] = N - 1 THEN IncByte(a[1]) ELSE a[1], IncByte(a[2])>>

(* The bytes of page p, as OAM should receive them.                        *)
Page(p) == [i \in Byte |-> ram[<<p, i>>]]

(* The RAM: while dma the engine addresses it and writes are off, else the *)
(* CPU does, and a write shows on the read port at once.                   *)
RamEdge ==
    IF dma
    THEN /\ ram_dout' = ram[dma_ram_addr]
         /\ UNCHANGED ram
    ELSE /\ ram' = IF bus.wren THEN [ram EXCEPT ![bus.addr] = bus.dout] ELSE ram
         /\ ram_dout' = ram'[bus.addr]

(* Port B of the OAM: the engine's while dma, else the PPU registers'.     *)
OamEdge ==
    oam' = IF dma
           THEN IF dma_count < 2 * N
                THEN [oam EXCEPT ![dma_oam_addr] = ram_dout] ELSE oam
           ELSE IF oam_wren1 THEN [oam EXCEPT ![OAMADDR] = OAMDATA] ELSE oam

(* Fault: the registers are loaded by the first edge only.                 *)
TriggerOnce ==
    /\ ~dma /\ bus.addr = DmaReg
    /\ dma_finish' = FALSE
    /\ IF dma_finish THEN /\ dma_count' = 0 /\ dma_reg' = bus.dout
                          /\ dma_ram_addr' = <<dma_reg, 0>> /\ dma_oam_addr' = 0
                     ELSE UNCHANGED dmaRegs

(* Any access of $4014, a read too, with dma low.  dma_ram_addr takes the  *)
(* value dma_reg had before this edge.                                     *)
Trigger ==
    /\ ~dma /\ bus.addr = DmaReg
    /\ dma_finish' = FALSE
    /\ dma_count' = 0
    /\ dma_reg' = bus.dout
    /\ dma_ram_addr' = <<dma_reg, 0>>
    /\ dma_oam_addr' = 0

Idle ==
    /\ ~dma /\ bus.addr # DmaReg
    /\ UNCHANGED <<dma_finish, dmaRegs>>

(* Faults: counting on past the end, a counter one bit too narrow, and the *)
(* two addresses advancing on each other's edges.                          *)
TransferNoStop ==
    /\ dma /\ dma_count' = dma_count + 1
    /\ dma_ram_addr' = IncAddr(dma_ram_addr)
    /\ UNCHANGED <<dma_oam_addr, dma_finish, dma_reg>>

TransferNarrow ==
    /\ dma /\ dma_count' = (dma_count + 1) % (2 * N)
    /\ UNCHANGED <<dma_ram_addr, dma_oam_addr, dma_finish, dma_reg>>

TransferSwapped ==
    /\ dma /\ dma_count # 2 * N
    /\ dma_count' = dma_count + 1
    /\ IF dma_count % 2 = 1
       THEN /\ dma_ram_addr' = IncAddr(dma_ram_addr)
            /\ UNCHANGED dma_oam_addr
       ELSE /\ dma_oam_addr' = IncByte(dma_oam_addr)
            /\ UNCHANGED dma_ram_addr
    /\ UNCHANGED <<dma_finish, dma_reg>>

Transfer ==
    /\ dma /\ dma_count # 2 * N
    /\ dma_count' = dma_count + 1
    /\ IF dma_count % 2 = 0
       THEN /\ dma_ram_addr' = IncAddr(dma_ram_addr)
            /\ UNCHANGED dma_oam_addr
       ELSE /\ dma_oam_addr' = IncByte(dma_oam_addr)
            /\ UNCHANGED dma_ram_addr
    /\ UNCHANGED <<dma_finish, dma_reg>>

Finish ==
    /\ dma /\ dma_count = 2 * N
    /\ dma_finish' = TRUE
    /\ UNCHANGED dmaRegs

NesEdge ==
    /\ phase < MaxNes
    /\ phase' = phase + 1
    /\ RamEdge /\ OamEdge
    /\ Trigger \/ Idle \/ Transfer \/ Finish
    /\ UNCHANGED <<bus, dma, ppuRegs>>

-----------------------------------------------------------------------------
(* Fault: the write pulse is not withdrawn.                                *)
OamRegsStuck(hblank) ==
    /\ OAMADDR' = IF hblank THEN 0 ELSE OAMADDR
    /\ oam_wren1' = (oam_wren1 \/ (bus.addr = OamDataReg /\ bus.wren))
    /\ UNCHANGED OAMDATA

(* The PPU's OAM registers at a cpu_clk edge.  They run while the CPU is   *)
(* stalled too.  A write of $2004 moves OAMADDR at the same edge as it     *)
(* raises oam_wren1; DrawX = 512 clears OAMADDR unless the bus changes it. *)
OamRegsEdge(hblank) ==
    /\ OAMADDR' = IF bus.addr = OamAddrReg /\ bus.wren THEN bus.dout
                  ELSE IF bus.addr = OamDataReg THEN IncByte(OAMADDR)
                  ELSE IF hblank THEN 0 ELSE OAMADDR
    /\ oam_wren1' = (bus.addr = OamDataReg /\ bus.wren)
    /\ OAMDATA' = IF bus.addr = OamDataReg /\ bus.wren THEN bus.dout ELSE OAMDATA

(* The last cycle of an instruction that touches $4014 is followed by an   *)
(* opcode fetch, and the first write of a read-modify-write by the second: *)
(* never by an access of a PPU register.                                   *)
CpuMayIssue(b) == bus.addr = DmaReg => b.addr \notin PpuOamRegs

(* Fault: the CPU is not stalled.                                          *)
CpuEdgeNoStall ==
    /\ phase >= MinNes
    /\ phase' = 0
    /\ dma' = ~dma_finish
    /\ \E b \in BusCycles : CpuMayIssue(b) /\ bus' = b
    /\ \E hblank \in BOOLEAN : OamRegsEdge(hblank)
    /\ UNCHANGED <<ram, ram_dout, dma_finish, dmaRegs, oam>>

(* cpu_enable is ~dma as it was before the edge.                           *)
CpuEdge ==
    /\ phase >= MinNes
    /\ phase' = 0
    /\ dma' = ~dma_finish
    /\ IF dma THEN UNCHANGED bus
              ELSE \E b \in BusCycles : CpuMayIssue(b) /\ bus' = b
    /\ \E hblank \in BOOLEAN : OamRegsEdge(hblank)
    /\ UNCHANGED <<ram, ram_dout, dma_finish, dmaRegs, oam>>

Next == NesEdge \/ CpuEdge

(* Both clocks run for ever.                                               *)
Fairness == WF_vars(NesEdge) /\ WF_vars(CpuEdge)

Spec == Init /\ [][Next]_vars
FairSpec == Spec /\ Fairness

(* KEY0 resets the CPU at any moment, but not the engine: the bus then     *)
(* holds a read that is not of a device register.                          *)
CpuReset ==
    /\ \E b \in BusCycles :
          /\ ~b.wren /\ b.addr \notin PpuOamRegs \cup {DmaReg}
          /\ bus' = b
    /\ UNCHANGED <<phase, ram, ram_dout, dma, dma_finish, dmaRegs, ppuRegs, oam>>

ResetSpec == Init /\ [][Next \/ CpuReset]_vars /\ Fairness

-----------------------------------------------------------------------------
(* While the engine runs, every byte below dma_oam_addr has been copied,   *)
(* and when it has counted to the end (dma_oam_addr has wrapped to 0) the  *)
(* whole page has: the two nes_clk edges spent on a byte, of which the     *)
(* first may write what the read port held before, leave the right value.  *)
CopiedPrefix ==
    dma => \A i \in Byte : i < dma_oam_addr \/ dma_count = 2 * N
                             => oam[i] = ram[<<dma_reg, i>>]

(* Where in page p the engine stands: the count determines the two         *)
(* addresses, and the read port holds the byte that belongs in             *)
(* OAM[dma_oam_addr] at every edge but the first.                          *)
Within(p) ==
    \/ /\ dma_count = 2 * dma_oam_addr
       /\ dma_ram_addr = <<p, dma_oam_addr>>
       /\ dma_count > 0 => ram_dout = ram[<<p, dma_oam_addr>>]
    \/ /\ dma_count = 2 * dma_oam_addr + 1
       /\ dma_ram_addr = IncAddr(<<p, dma_oam_addr>>)
       /\ ram_dout = ram[<<p, dma_oam_addr>>]

(* With dma low the engine is idle, or the bus is in the cycle of $4014    *)
(* and the registers fill in two nes_clk edges.  Together with TypeOK,     *)
(* NoLostPoke and CopiedPrefix this is inductive.                          *)
EngineInv ==
    /\ ~dma =>
        /\ bus.addr # DmaReg => dma_finish
        /\ bus.addr = DmaReg /\ phase >= 1 =>
              ~dma_finish /\ dma_count = 0 /\ dma_oam_addr = 0 /\ dma_reg = bus.dout
        /\ bus.addr = DmaReg /\ phase >= 2 => dma_ram_addr = <<bus.dout, 0>>
    /\ dma =>
        /\ bus.addr \notin PpuOamRegs
        /\ dma_finish => dma_count = 2 * N
        /\ dma_count = 2 * N => dma_oam_addr = 0
        /\ dma_count # 2 * N => Within(dma_reg)

(* A reset in the cycle of $4014 can leave the page of an earlier transfer *)
(* in dma_ram_addr; what the engine copies is still one whole page.        *)
WholePageAtEnd == dma /\ dma_finish => \E p \in Byte : oam = Page(p)

(* Why: whatever a reset does to the bus, the engine starts at the first   *)
(* byte of some page p and, once it runs, stands in it as the count says.  *)
(* With TypeOK this is inductive.                                          *)
EngineAt(p) ==
    /\ dma_finish => dma_count = 2 * N
    /\ dma_count # 2 * N => Within(p)
    /\ \A i \in Byte : i < dma_oam_addr \/ dma_count = 2 * N
                         => oam[i] = ram[<<p, i>>]
ResetInv ==
    /\ ~dma /\ ~dma_finish => /\ dma_count = 0 /\ dma_oam_addr = 0
                              /\ \E p \in Byte : dma_ram_addr = <<p, 0>>
    /\ dma => \E p \in Byte : EngineAt(p)

(* Only OAM[0] can be written with a byte that is not the page's, and only *)
(* by the very first edge of a transfer; every other write of the engine   *)
(* is of the byte that belongs there.                                      *)
OnlyFirstByteGlitches ==
    [][dma /\ dma' => \A i \in Byte :
          oam'[i] # oam[i] => \/ oam'[i] = ram[<<dma_reg, i>>]
                              \/ i = 0 /\ dma_count = 0]_vars

(* A byte written to $2004 is in OAM before the engine takes the port: the *)
(* pulse oam_wren1 never overlaps dma, whatever instruction follows.       *)
NoLostPoke == oam_wren1 => ~dma

(* The page that is copied is the one on the bus in the cycle of $4014,    *)
(* although dma_ram_addr is loaded from the dma_reg of an edge before.     *)
StartsAtPage ==
    [][~dma /\ dma' => /\ dma_reg = bus.dout
                       /\ dma_ram_addr = <<bus.dout, 0>>
                       /\ bus.addr = DmaReg]_vars

(* The engine implements the atomic copy of OamCopy, when OAM is taken to  *)
(* hold the page from the moment the engine has started.                   *)
Copy == INSTANCE OamCopy WITH oam <- IF dma THEN Page(dma_reg) ELSE oam
ImplementsCopy == Copy!Spec

(* The CPU is never stalled for ever.                                      *)
DmaEnds == dma ~> ~dma

=============================================================================
