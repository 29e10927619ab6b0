--------------------------- MODULE PpuRegsProofs ----------------------------
(***************************************************************************)
(* The port into video memory is the port a game may rely on, for every    *)
(* address map, memory size and number (three at least) of nes_clk edges   *)
(* in a CPU cycle.                                                         *)
(***************************************************************************)
EXTENDS PpuRegs, TLAPS

(* TypeOK and the two safety properties need PortInv, which says where in  *)
(* an instruction the increment and the write pulse can be, and how far    *)
(* the pipeline has come.                                                  *)
IInv == TypeOK /\ PortInv

-----------------------------------------------------------------------------
(* Two bytes make an address inside the map.                               *)
LEMMA CombineType ==
    ASSUME NEW h \in 0 .. HighN - 1, NEW l \in 0 .. LowN - 1
    PROVE  Combine(h, l) \in Address
<1>1. h * LowN + l < HighN * LowN
  BY PortAssumption
<1> QED
  BY <1>1, PortAssumption DEF Combine, Address

(* The address moves on inside the map.                                    *)
LEMMA StepType ==
    ASSUME NEW a \in Address, NEW f \in BOOLEAN
    PROVE  StepBy(a, f) \in Address
  BY PortAssumption DEF StepBy, Address

(* The memory ports address cells.                                         *)
LEMMA CellType ==
    ASSUME NEW a \in Nat
    PROVE  VramCell(a) \in Cell /\ PalCell(a) \in Cell
<1>1. a % VramSize \in 0 .. VramSize - 1 /\ a % PalSize \in 0 .. PalSize - 1
  BY PortAssumption
<1>2. VramCell(a) \in VramCells
  BY <1>1 DEF VramCell, VramCells
<1>3. 0 \in 0 .. PalSize - 1 /\ PalSize \div 2 # 0
  BY PortAssumption
<1>4. PalCell(a) \in PalCells
  BY <1>1, <1>3 DEF PalCell, PalCells
<1> QED
  BY <1>2, <1>4 DEF Cell

(* Nametables and palette, and they only, are memory that can be written.  *)
LEMMA CellOfWritable ==
    ASSUME NEW a \in Address
    PROVE  /\ CellOf(a) \in Cell <=> Nametable(a) \/ Palette(a)
           /\ CellOf(a) \in RomCells <=> Pattern(a)
           /\ Pattern(a) => Rom(CellOf(a)) = chrrom[a]
<1>0. a \in Nat /\ VramBase \in Nat /\ PalBase \in Nat /\ PalEnd \in Nat /\ VramBase <= PalBase
  BY PortAssumption DEF Address
<1>1. CASE Nametable(a)
  <2>1. CellOf(a) = VramCell(a) /\ ~Pattern(a)
    BY <1>0, <1>1 DEF CellOf, Nametable, Pattern
  <2>2. CellOf(a) \notin RomCells
    BY <2>1 DEF VramCell, RomCells
  <2> QED
    BY <1>0, <1>1, <2>1, <2>2, CellType
<1>2. CASE Palette(a) /\ ~Nametable(a)
  <2>1. CellOf(a) = PalCell(a) /\ ~Pattern(a)
    BY <1>0, <1>2 DEF CellOf, Palette, Pattern
  <2>2. CellOf(a) \notin RomCells
    BY <2>1 DEF PalCell, RomCells
  <2> QED
    BY <1>0, <1>2, <2>1, <2>2, CellType
<1>3. CASE ~Palette(a) /\ ~Nametable(a) /\ Pattern(a)
  <2>1. CellOf(a) = <<"chr", a>> /\ a \in 0 .. VramBase - 1
    BY <1>0, <1>3 DEF CellOf, Pattern
  <2>2. <<"chr", a>> \notin Cell /\ <<"chr", a>> \in RomCells
    BY <2>1 DEF Cell, VramCells, PalCells, RomCells
  <2> QED
    BY <1>3, <2>1, <2>2 DEF Rom
<1>4. CASE ~Palette(a) /\ ~Nametable(a) /\ ~Pattern(a)
  <2>1. CellOf(a) = <<"nowhere", a>>
    BY <1>4 DEF CellOf
  <2>2. <<"nowhere", a>> \notin Cell /\ <<"nowhere", a>> \notin RomCells
    BY DEF Cell, VramCells, PalCells, RomCells
  <2> QED
    BY <1>4, <2>1, <2>2
<1> QED
  BY <1>1, <1>2, <1>3, <1>4

LEMMA InitInv == Init => IInv
<1> SUFFICES ASSUME Init PROVE IInv
  OBVIOUS
<1>0. 0 \in 0 .. HighN - 1 /\ 0 \in 0 .. MaxNes /\ 0 \in Address /\ 0 \in Byte
  BY PortAssumption DEF Address
<1>1. bus \in Cycles
  BY DEF Init, Fetch, Cycles, Ops
<1>2. mem \in [Cell -> Byte]
  BY <1>0 DEF Init
<1>a. /\ addr_latch \in BOOLEAN /\ inc_addr \in BOOLEAN /\ ppu_wren \in BOOLEAN
      /\ ctrl2 \in BOOLEAN /\ read_done \in BOOLEAN
  BY DEF Init
<1>3. TypeOK
  BY <1>0, <1>a, <1>1, <1>2 DEF Init, TypeOK
<1>4. PortInv
  BY DEF Init, PortInv, Fetch
<1> QED
  BY <1>3, <1>4 DEF IInv

(* What a nes_clk edge does to memory and to the pipeline.                 *)
LEMMA NesEdgeType ==
    ASSUME TypeOK, NesEdge
    PROVE  TypeOK'
<1>0. addr_final \in Nat /\ addr_final \in Address /\ phase \in Nat /\ 0 \in Nat
  BY PortAssumption DEF TypeOK, Address
<1>1. phase' \in 0 .. MaxNes
  BY PortAssumption DEF NesEdge, TypeOK
<1>2. mem' \in [Cell -> Byte]
  BY DEF NesEdge, MemoryEdge, TypeOK
<1>3. chr_dout0' \in Byte
  BY <1>0, PortAssumption DEF NesEdge, PortEdge, Pattern
<1>4. vram_dout0' \in Byte
  <2>1. VramCell(IF Nametable(addr_final) THEN addr_final ELSE 0) \in Cell
    BY <1>0, CellType
  <2> QED
    BY <1>2, <2>1 DEF NesEdge, PortEdge
<1>5. ppu_databus' \in Byte
  <2>1. Fetched(addr_final) \in Byte
    BY <1>0, CellType DEF TypeOK, Fetched
  <2> QED
    BY <2>1 DEF NesEdge, ReadPipe, TypeOK
<1>6. readdata' \in Byte
  BY DEF NesEdge, ReadPipe, TypeOK
<1>7. read_done' \in BOOLEAN
  BY Zenon DEF NesEdge, ReadPipe
<1>8. UNCHANGED <<bus, reads, addr_latch, PPUADDR, addr_final, inc_addr, ppu_wren, PPUDATA,
                  dout, ctrl2, got>>
  BY DEF NesEdge, cpuRegs
<1> QED
  BY <1>1, <1>2, <1>3, <1>4, <1>5, <1>6, <1>7, <1>8 DEF TypeOK

(* A nes_clk edge brings a write into memory and a read one stage further. *)
LEMMA NesEdgeInv ==
    ASSUME IInv, NesEdge
    PROVE  IInv'
<1>1. TypeOK'
  BY NesEdgeType DEF IInv
<1>a. /\ phase' = phase + 1 /\ phase \in Nat /\ addr_final \in Address /\ addr_final \in Nat
      /\ UNCHANGED <<bus, reads, addr_final, inc_addr, ppu_wren, PPUDATA>>
  BY PortAssumption DEF NesEdge, cpuRegs, IInv, TypeOK, Address
<1>2. ASSUME ppu_wren, Nametable(addr_final) \/ Palette(addr_final)
      PROVE  mem'[CellOf(addr_final)] = PPUDATA
  <2>1. CellOf(addr_final) \in Cell
    BY <1>2, <1>a, CellOfWritable
  <2> QED
    BY <1>2, <2>1 DEF NesEdge, MemoryEdge, IInv, TypeOK
<1>3. ASSUME bus.op = "read"
      PROVE  /\ Pattern(addr_final) => chr_dout0' = chrrom[addr_final]
             /\ Nametable(addr_final) => vram_dout0' = mem'[CellOf(addr_final)]
             /\ phase' > 1 /\ addr_final < PalEnd =>
                   read_done' /\ ppu_databus' = Fetched(addr_final)'
             /\ phase' > 2 /\ addr_final < PalEnd => readdata' = Fetched(addr_final)'
  <2>1. ~ppu_wren /\ ~wren /\ mem' = mem
    BY <1>3, <1>a DEF IInv, PortInv, NesEdge, MemoryEdge, wren
  <2>2. Pattern(addr_final) => chr_dout0' = chrrom[addr_final]
    BY DEF NesEdge, PortEdge
  <2>3. Nametable(addr_final) => vram_dout0' = mem'[CellOf(addr_final)]
    BY DEF NesEdge, PortEdge, CellOf
  <2>4. ASSUME phase > 0
        PROVE  Fetched(addr_final)' = Fetched(addr_final)
    BY <1>3, <1>a, <2>1, <2>2, <2>3, <2>4 DEF IInv, PortInv, Fetched, Pattern, Nametable
  <2>5. addr_final < PalEnd => read_done' /\ ppu_databus' = Fetched(addr_final)
    BY <2>1 DEF NesEdge, ReadPipe
  <2>6. phase > 1 /\ addr_final < PalEnd => readdata' = Fetched(addr_final)
    BY <1>3, <2>1 DEF NesEdge, ReadPipe, IInv, PortInv
  <2> QED
    BY <1>a, <2>2, <2>3, <2>4, <2>5, <2>6
<1>4. PortInv'
  BY <1>a, <1>2, <1>3 DEF IInv, PortInv, Nametable, Palette, Pattern, CellOf, VramCell, PalCell
<1> QED
  BY <1>1, <1>4 DEF IInv

(* What ends a cycle leaves the pipeline and memory alone, and the next    *)
(* cycle is one that an instruction stream can put there.                  *)
LEMMA CycleEnds ==
    ASSUME TypeOK, PortInv, NEW op \in Ops, NEW byte \in BusBytes(op),
           EndOfCycle([op |-> op, byte |-> byte])
    PROVE  /\ bus' = [op |-> op, byte |-> byte] /\ bus' \in Cycles
           /\ phase' = 0 /\ phase >= 3 /\ reads' \in 0 .. 2
           /\ UNCHANGED <<chr_dout0, vram_dout0, ppu_databus, read_done, readdata, mem>>
           /\ bus'.op = "addr" => bus'.byte < LowN
           /\ bus'.op = "data" => bus'.byte \in Byte
           /\ reads' > 0 => bus'.op = "fetch"
           /\ bus.op \in {"data", "read"} => reads' = 1 \/ bus'.op = "data"
<1> DEFINE b == [op |-> op, byte |-> byte]
<1>1. byte \in Nat /\ (op = "addr" => byte < LowN) /\ (op = "data" => byte \in Byte)
  BY PortAssumption, SMTT(30) DEF BusBytes, Ops
<1>2. bus' = b /\ b \in Cycles /\ b.op = op /\ b.byte = byte
  BY <1>1 DEF EndOfCycle, Cycles, Ops
<1>3. phase' = 0 /\ phase >= 3
  BY PortAssumption DEF EndOfCycle, TypeOK
<1>4. reads' \in 0 .. 2 /\ (reads' > 0 => op = "fetch")
  BY <1>2 DEF EndOfCycle, TypeOK
<1>5. ASSUME bus.op \in {"data", "read"} PROVE reads' = 1 \/ op = "data"
  <2>1. reads = 0
    BY <1>5 DEF PortInv, TypeOK
  <2>2. op \in {"fetch", "data"}
    BY <1>2, <1>5, <2>1 DEF EndOfCycle, MayFollow, Ops
  <2> QED
    BY <1>2, <2>1, <2>2 DEF EndOfCycle
<1> QED
  BY <1>1, <1>2, <1>3, <1>4, <1>5 DEF EndOfCycle, pipe

(* A cycle that is not an access of $2007 ends the pulse and the increment *)
(* of the access before.                                                   *)
LEMMA QuietEdge ==
    ASSUME IInv, NEW op \in Ops, NEW byte \in BusBytes(op),
           EndOfCycle([op |-> op, byte |-> byte]),
           ~inc_addr', ~ppu_wren', inc_addr' \in BOOLEAN, ppu_wren' \in BOOLEAN,
           addr_final' \in Address,
           addr_latch' \in BOOLEAN, PPUADDR' \in 0 .. HighN - 1, PPUDATA' \in Byte,
           dout' \in Byte, ctrl2' \in BOOLEAN, got' \in Byte
    PROVE  IInv'
<1>1. TypeOK /\ PortInv
  BY DEF IInv
<1>2. phase' \in 0 .. MaxNes
  BY <1>1, CycleEnds, PortAssumption
<1>3. TypeOK'
  BY <1>1, <1>2, CycleEnds DEF TypeOK
<1>4. PortInv'
  BY <1>1, CycleEnds DEF PortInv
<1> QED
  BY <1>3, <1>4 DEF IInv

(* The address after an edge that does not set it.                         *)
LEMMA IncrementType ==
    ASSUME TypeOK, Increment
    PROVE  addr_final' \in Address
  BY StepType DEF TypeOK, Increment

(* An edge of cpu_clk keeps the invariant.                                 *)
LEMMA CpuEdgeInv ==
    ASSUME IInv, CpuEdge
    PROVE  IInv'
<1>op. PICK op \in Ops : \E byte \in BusBytes(op) :
        LET b == [op |-> op, byte |-> byte] IN
        \/ Control(b) \/ Status(b) \/ OamRead(b) \/ Scroll(b)
        \/ AddressHigh(b) \/ AddressLow(b) \/ WriteData(b) \/ ReadData(b)
        \/ PlainCycle(b)
  BY DEF CpuEdge
<1>by. PICK byte \in BusBytes(op) :
        LET b == [op |-> op, byte |-> byte] IN
        \/ Control(b) \/ Status(b) \/ OamRead(b) \/ Scroll(b)
        \/ AddressHigh(b) \/ AddressLow(b) \/ WriteData(b) \/ ReadData(b)
        \/ PlainCycle(b)
  BY <1>op
<1> DEFINE b == [op |-> op, byte |-> byte]
<1>t. TypeOK /\ PortInv
  BY DEF IInv
<1>r. /\ addr_latch \in BOOLEAN /\ PPUADDR \in 0 .. HighN - 1 /\ PPUDATA \in Byte
      /\ dout \in Byte /\ ctrl2 \in BOOLEAN /\ got \in Byte /\ readdata \in Byte
      /\ inc_addr \in BOOLEAN /\ TRUE \in BOOLEAN /\ FALSE \in BOOLEAN /\ bus.byte \in Nat
  BY <1>t DEF TypeOK, Cycles
<1>1. CASE Control(b)
  <2>1. ctrl2' \in BOOLEAN
    BY <1>1, Zenon DEF Control
  <2> QED
    BY <1>1, <1>t, <1>r, <2>1, IncrementType, QuietEdge DEF Control
<1>2. CASE Status(b)
  BY <1>2, <1>t, <1>r, IncrementType, QuietEdge DEF Status
<1>3. CASE OamRead(b)
  BY <1>3, <1>t, <1>r, IncrementType, QuietEdge DEF OamRead
<1>4. CASE Scroll(b)
  <2>1. addr_latch' \in BOOLEAN
    BY <1>4, Zenon DEF Scroll
  <2> QED
    BY <1>4, <1>t, <1>r, <2>1, IncrementType, QuietEdge DEF Scroll
<1>5. CASE AddressHigh(b)
  <2>1. PPUADDR' \in 0 .. HighN - 1
    BY <1>5, <1>r, PortAssumption DEF AddressHigh
  <2> QED
    BY <1>5, <1>t, <1>r, <2>1, IncrementType, QuietEdge DEF AddressHigh
<1>6. CASE AddressLow(b)
  <2>1. bus.byte \in 0 .. LowN - 1
    BY <1>6, <1>t, <1>r, PortAssumption DEF AddressLow, PortInv
  <2>2. addr_final' \in Address
    BY <1>6, <1>r, <2>1, CombineType DEF AddressLow
  <2> QED
    BY <1>6, <1>t, <1>r, <2>2, QuietEdge DEF AddressLow
<1>7. CASE WriteData(b) \/ ReadData(b)
  <2>1. EndOfCycle(b) /\ bus.op \in {"data", "read"} /\ Increment
    BY <1>7 DEF WriteData, ReadData
  <2>2. addr_final' \in Address /\ inc_addr' /\ inc_addr' \in BOOLEAN
    BY <1>7, <1>t, <2>1, IncrementType DEF WriteData, ReadData
  <2>3. /\ addr_latch' \in BOOLEAN /\ PPUADDR' \in 0 .. HighN - 1 /\ PPUDATA' \in Byte
        /\ dout' \in Byte /\ ctrl2' \in BOOLEAN /\ got' \in Byte /\ ppu_wren' \in BOOLEAN
    BY <1>7, <1>t, <1>r DEF WriteData, ReadData, PortInv
  <2>4. phase' \in 0 .. MaxNes
    BY <1>t, <2>1, CycleEnds, PortAssumption
  <2>5. TypeOK'
    BY <1>t, <2>1, <2>2, <2>3, <2>4, CycleEnds DEF TypeOK
  <2>6. /\ phase' = 0 /\ (reads' = 1 \/ bus'.op = "data") /\ (reads' > 0 => bus'.op = "fetch")
        /\ bus'.op # "read"
        /\ (bus'.op = "addr" => bus'.byte < LowN) /\ (bus'.op = "data" => bus'.byte \in Byte)
    BY <1>t, <2>1, CycleEnds
  <2>7. PortInv'
    BY <2>2, <2>6 DEF PortInv
  <2> QED
    BY <2>5, <2>7 DEF IInv
<1>8. CASE PlainCycle(b)
  BY <1>8, <1>t, <1>r, IncrementType, QuietEdge DEF PlainCycle
<1> QED
  BY <1>by, <1>1, <1>2, <1>3, <1>4, <1>5, <1>6, <1>7, <1>8

THEOREM Invariance == Spec => []IInv
<1>1. IInv /\ [Next]_vars => IInv'
  <2>1. ASSUME IInv, UNCHANGED vars PROVE IInv'
    BY <2>1 DEF IInv, TypeOK, PortInv, vars, cpuRegs, pipe, Fetched, CellOf, PalCell, VramCell,
                Nametable, Palette, Pattern
  <2> QED
    BY <2>1, NesEdgeInv, CpuEdgeInv DEF Next
<1> QED
  BY InitInv, <1>1, PTL DEF Spec

(* The address of a read has stood still long enough for the pipeline to   *)
(* catch up.                                                               *)
LEMMA IInvReady == IInv => ReadsAreReady
<1> SUFFICES ASSUME IInv, bus.op = "read", phase >= MinNes
             PROVE  /\ Pattern(addr_final) => readdata = chrrom[addr_final]
                    /\ Nametable(addr_final) \/ Palette(addr_final) =>
                          readdata = mem[CellOf(addr_final)]
  BY DEF ReadsAreReady
<1>0. /\ addr_final \in Nat /\ phase \in Nat /\ phase > 2
      /\ VramBase \in Nat /\ PalBase \in Nat /\ PalEnd \in Nat
      /\ VramBase <= PalBase /\ PalBase <= PalEnd
  BY PortAssumption DEF IInv, TypeOK, Address
<1>1. ASSUME Pattern(addr_final) PROVE readdata = chrrom[addr_final]
  BY <1>0, <1>1 DEF IInv, PortInv, Fetched, Pattern
<1>2. ASSUME Nametable(addr_final) \/ Palette(addr_final)
      PROVE  readdata = mem[CellOf(addr_final)]
  BY <1>0, <1>2 DEF IInv, PortInv, Fetched, Pattern, Nametable, Palette, CellOf
<1> QED
  BY <1>1, <1>2

(* A read of $2007 finds in readdata the byte its address names.           *)
THEOREM ReadsReady == Spec => []ReadsAreReady
  BY IInvReady, Invariance, PTL

(* A byte written to $2007 is in memory before its pulse ends or becomes   *)
(* the pulse of the next write, and until then the address stands still:   *)
(* each write changes one cell only.                                       *)
THEOREM EveryWriteLands == Spec => WritesLand
<1> DEFINE Lands ==
      /\ ppu_wren /\ phase' = 0 /\ addr_final \in VramBase .. PalEnd - 1 =>
            mem[CellOf(addr_final)] = PPUDATA
      /\ ppu_wren /\ ppu_wren' => addr_final' = addr_final \/ bus.op = "data"
<1>1. IInv /\ [Next]_vars => [Lands]_vars
  <2> SUFFICES ASSUME IInv, Next, ppu_wren PROVE Lands
    BY DEF vars
  <2>1. CASE NesEdge
    BY <2>1 DEF NesEdge, cpuRegs, IInv, TypeOK
  <2>2. CASE CpuEdge
    <3>1. phase > 0 /\ addr_final \in Nat
      BY <2>2, PortAssumption DEF CpuEdge, Control, Status, OamRead, Scroll, AddressHigh, AddressLow,
         WriteData, ReadData, PlainCycle, EndOfCycle, IInv, TypeOK, Address
    <3>2. bus.op \in {"fetch", "data"}
      BY DEF IInv, PortInv
    <3>3. bus.op = "fetch" => ~ppu_wren'
      BY <2>2 DEF CpuEdge, Control, Status, OamRead, Scroll, AddressHigh, AddressLow,
         WriteData, ReadData, PlainCycle
    <3>4. addr_final \in VramBase .. PalEnd - 1 => Nametable(addr_final) \/ Palette(addr_final)
      BY <3>1, PortAssumption DEF Nametable, Palette
    <3> QED
      BY <3>1, <3>2, <3>3, <3>4 DEF IInv, PortInv
  <2> QED
    BY <2>1, <2>2 DEF Next
<1> QED
  BY <1>1, Invariance, PTL DEF Spec, WritesLand

(* What the game sees of memory changes at a write of the data port only:  *)
(* the pipeline carries out what has been promised already.                *)
LEMMA PendingKept ==
    ASSUME IInv, CpuEdge \/ NesEdge
    PROVE  /\ CpuEdge => Pending = mem /\ (~ppu_wren' => Pending' = mem)
           /\ NesEdge => Pending' = Pending
<1>0. CellOf(addr_final) \in Cell <=> Nametable(addr_final) \/ Palette(addr_final)
  BY CellOfWritable DEF IInv, TypeOK
<1>1. ASSUME CpuEdge
      PROVE  Pending = mem /\ (~ppu_wren' => Pending' = mem)
  <2>1. mem' = mem /\ phase > 0
    BY <1>1, PortAssumption DEF CpuEdge, Control, Status, OamRead, Scroll, AddressHigh, AddressLow,
       WriteData, ReadData, PlainCycle, EndOfCycle, IInv, TypeOK
  <2>2. ASSUME ppu_wren, CellOf(addr_final) \in Cell
        PROVE  [mem EXCEPT ![CellOf(addr_final)] = PPUDATA] = mem
    <3>1. mem[CellOf(addr_final)] = PPUDATA /\ mem \in [Cell -> Byte]
      BY <1>0, <2>1, <2>2 DEF IInv, PortInv, TypeOK
    <3> QED
      BY <3>1
  <2> QED
    BY <2>1, <2>2 DEF Pending
<1>2. ASSUME NesEdge
      PROVE  Pending' = Pending
  <2>1. UNCHANGED <<addr_final, ppu_wren, PPUDATA>> /\ CellOf(addr_final)' = CellOf(addr_final)
    BY <1>2 DEF NesEdge, cpuRegs, CellOf, VramCell, PalCell, Nametable, Palette, Pattern
  <2>2. mem' = IF ppu_wren /\ CellOf(addr_final) \in Cell
               THEN [mem EXCEPT ![CellOf(addr_final)] = PPUDATA] ELSE mem
    BY <1>0, <1>2 DEF NesEdge, MemoryEdge
  <2>3. mem \in [Cell -> Byte]
    BY DEF IInv, TypeOK
  <2> QED
    BY <2>1, <2>2, <2>3 DEF Pending
<1> QED
  BY <1>1, <1>2

(* The initial state of the registers is one of the port's.                *)
LEMMA InitMaps == Init => Port!Init
<1> SUFFICES ASSUME Init PROVE Port!Init
  OBVIOUS
<1>1. TypeOK
  BY InitInv DEF IInv
<1>2. Pending = mem
  BY DEF Init, Pending
<1> QED
  BY <1>1, <1>2 DEF Init, Port!Init, TypeOK

(* The port's address register.                                            *)
Vaddr == IF inc_addr THEN StepBy(addr_final, ctrl2) ELSE addr_final

(* Each edge is a step of the port, or changes nothing that a game sees.   *)
LEMMA StepMaps ==
    ASSUME IInv, [Next]_vars
    PROVE  [Port!Next]_(Port!vars)
<1>t. TypeOK /\ PortInv
  BY DEF IInv
<1>1. CASE UNCHANGED vars
  BY <1>1 DEF vars, cpuRegs, Port!vars, Pending, CellOf, VramCell, PalCell, Nametable, Palette, Pattern
<1>2. CASE NesEdge
  <2>1. UNCHANGED <<addr_latch, PPUADDR, addr_final, inc_addr, dout, ctrl2, got>>
    BY <1>2 DEF NesEdge, cpuRegs
  <2>2. Pending' = Pending
    BY <1>2, PendingKept
  <2> QED
    BY <2>1, <2>2 DEF Port!vars
<1>3. CASE CpuEdge
  <2>op. PICK op \in Ops : \E byte \in BusBytes(op) :
        LET b == [op |-> op, byte |-> byte] IN
        \/ Control(b) \/ Status(b) \/ OamRead(b) \/ Scroll(b)
        \/ AddressHigh(b) \/ AddressLow(b) \/ WriteData(b) \/ ReadData(b)
        \/ PlainCycle(b)
    BY <1>3 DEF CpuEdge
  <2>by. PICK byte \in BusBytes(op) :
        LET b == [op |-> op, byte |-> byte] IN
        \/ Control(b) \/ Status(b) \/ OamRead(b) \/ Scroll(b)
        \/ AddressHigh(b) \/ AddressLow(b) \/ WriteData(b) \/ ReadData(b)
        \/ PlainCycle(b)
    BY <2>op
  <2> DEFINE b == [op |-> op, byte |-> byte]
  <2>p. Pending = mem /\ (~ppu_wren' => Pending' = mem)
    BY <1>3, PendingKept
  <2>v. Increment /\ ~inc_addr' => Vaddr' = Vaddr
    BY DEF Increment, Vaddr
  <2>q. bus.op = "read" => ~inc_addr
    BY <1>t DEF PortInv, TypeOK
  <2>1. CASE Control(b)
    <3>1. Port!Control
      BY <2>1, <2>p, <2>v DEF Control, Port!Control, Vaddr
    <3> QED
      BY <3>1 DEF Port!Next
  <2>2. CASE Status(b)
    <3>1. Port!Status
      BY <2>2, <2>p, <2>v DEF Status, Port!Status, Vaddr
    <3> QED
      BY <3>1 DEF Port!Next
  <2>3. CASE OamRead(b)
    <3>1. Port!OtherRead
      BY <2>3, <2>p, <2>v DEF OamRead, Port!OtherRead, Vaddr
    <3> QED
      BY <3>1 DEF Port!Next
  <2>4. CASE Scroll(b)
    <3>1. Port!Scroll
      BY <2>4, <2>p, <2>v DEF Scroll, Port!Scroll, Vaddr
    <3> QED
      BY <3>1 DEF Port!Next
  <2>5. CASE AddressHigh(b)
    <3>1. Port!AddressHigh(bus.byte % HighN)
      BY <2>5, <2>p, <2>v DEF AddressHigh, Port!AddressHigh, Vaddr
    <3>2. bus.byte % HighN \in 0 .. HighN - 1
      BY <1>t, PortAssumption DEF TypeOK, Cycles
    <3> QED
      BY <3>1, <3>2 DEF Port!Next
  <2>6. CASE AddressLow(b)
    <3>1. Vaddr' = Combine(PPUADDR, bus.byte)
      BY <2>6 DEF AddressLow, Vaddr
    <3>2. Port!AddressLow(bus.byte)
      BY <2>6, <2>p, <3>1 DEF AddressLow, Port!AddressLow, Vaddr
    <3>3. bus.byte \in 0 .. LowN - 1
      BY <1>t, <2>6, PortAssumption DEF AddressLow, PortInv, TypeOK, Cycles
    <3> QED
      BY <3>2, <3>3 DEF Port!Next
  <2>7. CASE WriteData(b)
    <3>1. bus.op = "data" /\ inc_addr' /\ ppu_wren' /\ bus.byte \in Byte
      BY <1>t, <2>7 DEF WriteData, PortInv
    <3>2. addr_final' = Vaddr /\ ctrl2' = ctrl2 /\ PPUDATA' = bus.byte /\ mem' = mem
      BY <2>7, <3>1 DEF WriteData, Increment, EndOfCycle, Vaddr
    <3>3. CellOf(addr_final)' = CellOf(Vaddr)
      BY <3>2 DEF CellOf, VramCell, PalCell, Nametable, Palette, Pattern
    <3>4. /\ Vaddr' = StepBy(Vaddr, ctrl2)
          /\ Pending' = IF CellOf(Vaddr) \in Cell
                        THEN [mem EXCEPT ![CellOf(Vaddr)] = bus.byte] ELSE mem
      BY <3>1, <3>2, <3>3 DEF Pending, Vaddr
    <3>5. Port!WriteData(bus.byte)
      BY <2>7, <2>p, <3>4 DEF WriteData, Port!WriteData, Vaddr
    <3> QED
      BY <3>1, <3>5 DEF Port!Next
  <2>8. CASE ReadData(b)
    <3>1. /\ bus.op = "read" /\ phase >= MinNes /\ ~inc_addr /\ inc_addr' /\ ~ppu_wren'
          /\ dout' = readdata /\ ctrl2' = ctrl2
      BY <2>8, <2>q DEF ReadData, EndOfCycle
    <3>2. addr_final' = addr_final /\ Vaddr = addr_final /\ Vaddr' = StepBy(addr_final, ctrl2)
      BY <2>8, <3>1 DEF ReadData, Increment, Vaddr
    <3>3. addr_final \in Address /\ readdata \in Byte
      BY <1>t DEF TypeOK
    <3>4. ReadsAreReady
      BY IInvReady
    <3>5. CellOf(addr_final) \in Cell => dout' = mem[CellOf(addr_final)]
      BY <3>1, <3>3, <3>4, CellOfWritable DEF ReadsAreReady
    <3>6. CellOf(addr_final) \in RomCells => dout' = Rom(CellOf(addr_final))
      BY <3>1, <3>3, <3>4, CellOfWritable DEF ReadsAreReady
    <3>7. Port!ReadData
      BY <2>8, <2>p, <3>1, <3>2, <3>3, <3>5, <3>6 DEF ReadData, Port!ReadData, Vaddr
    <3> QED
      BY <3>7 DEF Port!Next
  <2>9. CASE PlainCycle(b)
    <3>1. UNCHANGED <<addr_latch, PPUADDR, dout, ctrl2, got>> /\ Vaddr' = Vaddr /\ Pending' = Pending
      BY <2>9, <2>p, <2>v DEF PlainCycle
    <3> QED
      BY <3>1 DEF Port!vars, Vaddr
  <2> QED
    BY <2>by, <2>1, <2>2, <2>3, <2>4, <2>5, <2>6, <2>7, <2>8, <2>9
<1> QED
  BY <1>1, <1>2, <1>3 DEF Next

(* To a game the registers with the pipeline behind them are the port: a   *)
(* write takes effect at once, and what is read comes one read late.       *)
THEOREM Implements == Spec => ImplementsPort
<1>1. IInv /\ [Next]_vars => [Port!Next]_(Port!vars)
  BY StepMaps
<1> QED
  BY <1>1, InitMaps, Invariance, PTL DEF Spec, ImplementsPort, Port!Spec
=============================================================================
