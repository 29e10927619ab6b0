------------------------------- MODULE PpuRegs -------------------------------
(***************************************************************************)
(* The CPU's port into video memory (src/ppu.sv:49-232): the registers     *)
(* $2000, $2002, $2005, $2006 and $2007 at cpu_clk, and behind them the    *)
(* pipeline at nes_clk that reads and writes pattern ROM, nametables and   *)
(* palette.  A write of $2007 is a pulse that lasts one CPU cycle; the     *)
(* address moves on when that cycle ends; a read takes three nes_clk edges *)
(* to come back through the memory port, ppu_databus and readdata.         *)
(*                                                                         *)
(* An address is a number below AddrN.  As in the code the pattern ROM     *)
(* comes first, then the nametables (mirrored), then the palette           *)
(* (mirrored), then nothing.                                               *)
(***************************************************************************)
EXTENDS Integers

CONSTANTS
    Byte,                   \* values of a data byte
    LowN, HighN, AddrN,     \* an address is written as high * LowN + low
    VramBase, PalBase, PalEnd,  \* $2000, $3F00, $4000
    VramSize, PalSize,      \* 2048, 32
    Stride,                 \* 32
    chrrom,                 \* the pattern ROM: address -> byte
    MinNes, MaxNes          \* nes_clk edges between two cpu_clk edges (11 to 13)

Address == 0 .. AddrN - 1
VramCells == {"vram"} \X (0 .. VramSize - 1)
PalCells == {"pal"} \X ((0 .. PalSize - 1) \ {PalSize \div 2})
Cell == VramCells \cup PalCells

(* The three stages of a read fit into a CPU cycle.                        *)
ASSUME PortAssumption ==
    /\ LowN \in Nat \ {0} /\ HighN \in Nat \ {0} /\ AddrN \in Nat
    /\ 0 < VramBase /\ VramBase <= PalBase /\ PalBase <= PalEnd
    /\ VramBase \in Nat /\ PalBase \in Nat /\ PalEnd \in Nat
    /\ HighN * LowN <= PalEnd /\ PalEnd <= AddrN
    /\ VramSize \in Nat \ {0} /\ PalSize \in Nat \ {0, 1} /\ Stride \in Nat
    /\ 0 \in Byte /\ Byte \subseteq Nat
    /\ chrrom \in [0 .. VramBase - 1 -> Byte]
    /\ MinNes \in Nat /\ MaxNes \in Nat /\ 3 <= MinNes /\ MinNes <= MaxNes

VARIABLES
    phase,          \* nes_clk edges since the last cpu_clk edge
    bus,            \* the CPU's cycle: what it accesses, and the byte written
    reads,          \* plain read cycles just before it, up to two
    addr_latch, PPUADDR, addr_final, inc_addr, ppu_wren, PPUDATA, dout,
    ctrl2,          \* PPUCTRL[2]
    chr_dout0, vram_dout0,      \* registered outputs of the two memory ports
    ppu_databus, read_done, readdata,
    mem,            \* nametable RAM and palette
    got             \* history: what the CPU's last PPU read returned

cpuRegs == <<addr_latch, PPUADDR, addr_final, inc_addr, ppu_wren, PPUDATA, dout, ctrl2>>
pipe == <<chr_dout0, vram_dout0, ppu_databus, read_done, readdata>>
vars == <<phase, bus, reads, cpuRegs, pipe, mem, got>>

Ops == {"fetch", "store", "ctrl", "status", "oam", "scroll", "addr", "data", "read"}
Cycles == [op : Ops, byte : Nat]
wren == bus.op \in {"store", "ctrl", "scroll", "addr", "data"}

TypeOK ==
    /\ phase \in 0 .. MaxNes /\ bus \in Cycles /\ reads \in 0 .. 2
    /\ addr_latch \in BOOLEAN /\ PPUADDR \in 0 .. HighN - 1 /\ addr_final \in Address
    /\ inc_addr \in BOOLEAN /\ ppu_wren \in BOOLEAN /\ ctrl2 \in BOOLEAN
    /\ PPUDATA \in Byte /\ dout \in Byte
    /\ chr_dout0 \in Byte /\ vram_dout0 \in Byte
    /\ ppu_databus \in Byte /\ readdata \in Byte /\ read_done \in BOOLEAN
    /\ mem \in [Cell -> Byte] /\ got \in Byte

Fetch == [op |-> "fetch", byte |-> 0]

(* Registers and memory power up low.                                      *)
Init ==
    /\ phase = 0 /\ bus = Fetch /\ reads = 0
    /\ addr_latch = FALSE /\ PPUADDR = 0 /\ addr_final = 0 /\ inc_addr = FALSE
    /\ ppu_wren = FALSE /\ PPUDATA = 0 /\ dout = 0 /\ ctrl2 = FALSE
    /\ chr_dout0 = 0 /\ vram_dout0 = 0 /\ ppu_databus = 0 /\ read_done = FALSE /\ readdata = 0
    /\ mem = [c \in Cell |-> 0] /\ got = 0

-----------------------------------------------------------------------------
Pattern(a) == a < VramBase
Nametable(a) == a \in VramBase .. PalBase - 1
Palette(a) == a \in PalBase .. PalEnd - 1

(* The nametable RAM sees the low bits of the address; palette entries 0   *)
(* and PalSize / 2 are one.                                                *)
VramCell(a) == <<"vram", a % VramSize>>
PalCell(a) == <<"pal", IF a % PalSize \in {0, PalSize \div 2} THEN 0 ELSE a % PalSize>>
CellOf(a) ==
    IF Nametable(a) THEN VramCell(a) ELSE IF Palette(a) THEN PalCell(a)
    ELSE IF Pattern(a) THEN <<"chr", a>> ELSE <<"nowhere", a>>

MemoryEdge ==
    mem' = IF ppu_wren /\ (Nametable(addr_final) \/ Palette(addr_final))
           THEN [mem EXCEPT ![CellOf(addr_final)] = PPUDATA] ELSE mem

(* The registered memory ports, addressed 0 when not selected; a write     *)
(* shows on the port at once.                                              *)
PortEdge ==
    /\ chr_dout0' = chrrom[IF Pattern(addr_final) THEN addr_final ELSE 0]
    /\ vram_dout0' = mem'[VramCell(IF Nametable(addr_final) THEN addr_final ELSE 0)]

Fetched(a) == IF Pattern(a) THEN chr_dout0
              ELSE IF Nametable(a) THEN vram_dout0 ELSE mem[PalCell(a)]

(* Fault: readdata is loaded in a write cycle only.                        *)
ReadPipeStalled ==
    LET fetches == addr_final < PalEnd /\ ~ppu_wren IN
    /\ readdata' = IF read_done /\ wren THEN ppu_databus ELSE readdata
    /\ read_done' = (fetches \/ (read_done /\ ~wren))
    /\ ppu_databus' = IF ~fetches THEN ppu_databus
                      ELSE Fetched(addr_final)

(* ppu_databus takes the port while nothing is written; readdata follows   *)
(* except in the CPU's write cycles.                                       *)
ReadPipe ==
    LET fetches == addr_final < PalEnd /\ ~ppu_wren IN
    /\ readdata' = IF read_done /\ ~wren THEN ppu_databus ELSE readdata
    /\ read_done' = (fetches \/ (read_done /\ wren))
    /\ ppu_databus' = IF ~fetches THEN ppu_databus
                      ELSE Fetched(addr_final)

NesEdge ==
    /\ phase < MaxNes /\ phase' = phase + 1
    /\ MemoryEdge /\ PortEdge /\ ReadPipe
    /\ UNCHANGED <<bus, reads, cpuRegs, got>>

-----------------------------------------------------------------------------
Combine(high, low) == high * LowN + low

StepBy(a, far) == (a + (IF far THEN Stride ELSE 1)) % AddrN

(* What an edge does to the address when the cycle does not set it.        *)
Increment == addr_final' = IF inc_addr THEN StepBy(addr_final, ctrl2) ELSE addr_final

(* What the bus may hold next.  Before an instruction comes to an operand  *)
(* it has read two bytes of itself.  The access is its last cycle, unless  *)
(* a store is indexed, when it reads the register before it writes it, or  *)
(* it modifies the register: then it reads it and writes it twice (the     *)
(* model lets it write any number of times).  "fetch" stands for reads of  *)
(* the registers that have no effect too, and "store" for such writes.     *)
MayFollow(b) ==
    CASE b.op = "fetch" -> TRUE
      [] b.op = "store" -> bus.op \in {"fetch", "store", "status", "oam"}
      [] b.op = "data" -> reads = 2 \/ bus.op \in {"read", "data"}
      [] b.op \in {"ctrl", "scroll", "addr"} -> reads = 2 \/ bus.op = b.op
      [] OTHER -> reads = 2

(* The edge that ends the cycle of an access.                              *)
EndOfCycle(b) ==
    /\ phase >= MinNes /\ phase' = 0
    /\ MayFollow(b) /\ bus' = b
    /\ reads' = IF b.op = "fetch" /\ reads < 2 THEN reads + 1
                ELSE IF b.op = "fetch" THEN 2 ELSE 0
    /\ UNCHANGED <<pipe, mem>>

(* $2000.                                                                  *)
Control(b) ==
    /\ bus.op = "ctrl" /\ EndOfCycle(b)
    /\ Increment /\ inc_addr' = FALSE /\ ppu_wren' = FALSE
    /\ ctrl2' = (bus.byte = 1)
    /\ UNCHANGED <<addr_latch, PPUADDR, PPUDATA, dout, got>>

(* $2002: the CPU takes dout as it was, dout takes the status.             *)
Status(b) ==
    /\ bus.op = "status" /\ EndOfCycle(b)
    /\ Increment /\ inc_addr' = FALSE /\ ppu_wren' = FALSE
    /\ addr_latch' = FALSE
    /\ dout' \in Byte /\ got' = dout
    /\ UNCHANGED <<PPUADDR, PPUDATA, ctrl2>>

(* $2004, read.                                                            *)
OamRead(b) ==
    /\ bus.op = "oam" /\ EndOfCycle(b)
    /\ Increment /\ inc_addr' = FALSE /\ ppu_wren' = FALSE
    /\ dout' \in Byte /\ got' = dout
    /\ UNCHANGED <<addr_latch, PPUADDR, PPUDATA, ctrl2>>

(* $2005 shares the latch of $2006; the scroll registers are not modelled. *)
Scroll(b) ==
    /\ bus.op = "scroll" /\ EndOfCycle(b)
    /\ Increment /\ inc_addr' = FALSE /\ ppu_wren' = FALSE
    /\ addr_latch' = ~addr_latch
    /\ UNCHANGED <<PPUADDR, PPUDATA, dout, ctrl2, got>>

(* $2006; the upper two bits of the first byte are dropped.                *)
AddressHigh(b) ==
    /\ bus.op = "addr" /\ ~addr_latch /\ EndOfCycle(b)
    /\ Increment /\ inc_addr' = FALSE /\ ppu_wren' = FALSE
    /\ addr_latch' = TRUE /\ PPUADDR' = bus.byte % HighN
    /\ UNCHANGED <<PPUDATA, dout, ctrl2, got>>

AddressLow(b) ==
    /\ bus.op = "addr" /\ addr_latch /\ EndOfCycle(b)
    /\ addr_final' = Combine(PPUADDR, bus.byte)
    /\ inc_addr' = FALSE /\ ppu_wren' = FALSE
    /\ addr_latch' = FALSE
    /\ UNCHANGED <<PPUADDR, PPUDATA, dout, ctrl2, got>>

(* Fault: the address moves on at once, under the write pulse.             *)
WriteDataAhead(b) ==
    /\ bus.op = "data" /\ EndOfCycle(b)
    /\ addr_final' = StepBy(addr_final, ctrl2) /\ inc_addr' = FALSE
    /\ ppu_wren' = TRUE /\ PPUDATA' = bus.byte
    /\ UNCHANGED <<addr_latch, PPUADDR, dout, ctrl2, got>>

(* $2007.                                                                  *)
WriteData(b) ==
    /\ bus.op = "data" /\ EndOfCycle(b)
    /\ Increment /\ inc_addr' = TRUE
    /\ ppu_wren' = TRUE /\ PPUDATA' = bus.byte
    /\ UNCHANGED <<addr_latch, PPUADDR, dout, ctrl2, got>>

ReadData(b) ==
    /\ bus.op = "read" /\ EndOfCycle(b)
    /\ Increment /\ inc_addr' = TRUE /\ ppu_wren' = FALSE
    /\ dout' = readdata /\ got' = dout
    /\ UNCHANGED <<addr_latch, PPUADDR, PPUDATA, ctrl2>>

(* Fault: the write pulse lasts until a read.                              *)
PlainCycleStuck(b) ==
    /\ bus.op \in {"fetch", "store"} /\ EndOfCycle(b)
    /\ Increment /\ inc_addr' = FALSE
    /\ UNCHANGED <<ppu_wren, addr_latch, PPUADDR, PPUDATA, dout, ctrl2, got>>

(* Any other cycle ends the write pulse and moves the address on.          *)
PlainCycle(b) ==
    /\ bus.op \in {"fetch", "store"} /\ EndOfCycle(b)
    /\ Increment /\ inc_addr' = FALSE /\ ppu_wren' = FALSE
    /\ UNCHANGED <<addr_latch, PPUADDR, PPUDATA, dout, ctrl2, got>>

BusBytes(op) ==
    CASE op = "addr" -> 0 .. LowN - 1
      [] op = "data" -> Byte
      [] op = "ctrl" -> {0, 1}
      [] OTHER -> {0}

CpuEdge ==
    \E op \in Ops : \E byte \in BusBytes(op) :
        LET b == [op |-> op, byte |-> byte] IN
        \/ Control(b) \/ Status(b) \/ OamRead(b) \/ Scroll(b)
        \/ AddressHigh(b) \/ AddressLow(b) \/ WriteData(b) \/ ReadData(b)
        \/ PlainCycle(b)

Next == NesEdge \/ CpuEdge

Spec == Init /\ [][Next]_vars

-----------------------------------------------------------------------------
(* readdata has caught up with the address by the time it can be read: two *)
(* cycles of the CPU after the last access and three nes_clk edges into    *)
(* the third, whatever was written meanwhile.                              *)
ReadsAreReady ==
    bus.op = "read" /\ phase >= MinNes =>
        /\ Pattern(addr_final) => readdata = chrrom[addr_final]
        /\ Nametable(addr_final) \/ Palette(addr_final) => readdata = mem[CellOf(addr_final)]

(* Why: only a write of $2007 may follow an access of $2007 at once, any   *)
(* other access comes after the fetch of an opcode, when the pulse and the *)
(* increment are over.  So the address does not move while a read is under *)
(* way, and each edge of it brings the byte one stage further.  With       *)
(* TypeOK this is inductive.                                               *)
PortInv ==
    /\ bus.op = "addr" => bus.byte < LowN
    /\ bus.op = "data" => bus.byte \in Byte
    /\ reads > 0 => bus.op = "fetch"
    /\ ppu_wren => inc_addr
    /\ inc_addr => reads = 1 \/ bus.op = "data"
    /\ ppu_wren /\ phase > 0 /\ (Nametable(addr_final) \/ Palette(addr_final)) =>
          mem[CellOf(addr_final)] = PPUDATA
    /\ bus.op = "read" =>
        /\ phase > 0 /\ Pattern(addr_final) => chr_dout0 = chrrom[addr_final]
        /\ phase > 0 /\ Nametable(addr_final) => vram_dout0 = mem[CellOf(addr_final)]
        /\ phase > 1 /\ addr_final < PalEnd =>
              read_done /\ ppu_databus = Fetched(addr_final)
        /\ phase > 2 /\ addr_final < PalEnd => readdata = Fetched(addr_final)

(* A byte written to $2007 is in memory when the next edge of cpu_clk ends *)
(* its pulse or puts the pulse of another write in its place; and only     *)
(* another write moves the address under a pulse, so each writes one cell. *)
WritesLand ==
    [][/\ ppu_wren /\ phase' = 0 /\ addr_final \in VramBase .. PalEnd - 1 =>
              mem[CellOf(addr_final)] = PPUDATA
       /\ ppu_wren /\ ppu_wren' =>
              addr_final' = addr_final \/ bus.op = "data"]_vars

(* To the game all of this is the port of PpuPort: writes count as done    *)
(* and the address as moved on from the edge that takes the access.        *)
RomCells == {"chr"} \X (0 .. VramBase - 1)
Rom(c) == chrrom[c[2]]
Pending == IF ppu_wren /\ CellOf(addr_final) \in Cell
           THEN [mem EXCEPT ![CellOf(addr_final)] = PPUDATA] ELSE mem
Port == INSTANCE PpuPort WITH
    Addresses <- Address, Highs <- 0 .. HighN - 1, Lows <- 0 .. LowN - 1, Cells <- Cell, Roms <- RomCells, Step <- StepBy,
    mem <- Pending, latch <- addr_latch, high <- PPUADDR,
    vaddr <- IF inc_addr THEN StepBy(addr_final, ctrl2) ELSE addr_final,
    buffer <- dout, stride <- ctrl2
ImplementsPort == Port!Spec
=============================================================================
