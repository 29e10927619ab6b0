---------------------------- MODULE OamDmaProofs ----------------------------
(***************************************************************************)
(* The OAM DMA engine copies the right page whatever the width of a byte,  *)
(* the contents of RAM and the number (two at least) of nes_clk edges in a *)
(* CPU cycle.                                                              *)
(***************************************************************************)
EXTENDS OamDma, TLAPS

(* TypeOK, NoLostPoke and CopiedPrefix are preserved only together with    *)
(* EngineInv, which ties the addresses and the read port to the count.     *)
IInv == TypeOK /\ EngineInv /\ CopiedPrefix /\ NoLostPoke

(* Incrementing an address stays in the address space.                     *)
LEMMA IncTypes ==
    ASSUME NEW a \in Addr, NEW b \in Byte
    PROVE  IncByte(b) \in Byte /\ IncAddr(a) \in Addr
  BY ByteAssumption DEF IncByte, IncAddr, Byte, Addr

(* Bytes make addresses, and 0 is a byte.                                  *)
LEMMA AddrOf ==
    /\ 0 \in Byte
    /\ \A p, o \in Byte : <<p, o>> \in Addr
  BY ByteAssumption DEF Byte, Addr

(* Inside a page the high byte of an address does not move.                *)
LEMMA IncInPage ==
    ASSUME NEW p \in Byte, NEW j \in Byte, j # N - 1
    PROVE  IncAddr(<<p, j>>) = <<p, j + 1>> /\ IncByte(j) = j + 1
  BY ByteAssumption DEF IncByte, IncAddr, Byte

(* The engine is idle and consistent at power-up.                          *)
LEMMA InitInv == Init => IInv
<1> SUFFICES ASSUME Init PROVE IInv
  OBVIOUS
<1>b. 0 \in Byte /\ <<0, 0>> \in Addr
  BY AddrOf
<1>c. 0 \in 0 .. 2 * N /\ 0 \in 0 .. MaxNes
  BY ByteAssumption, ClockAssumption
<1>d. bus \in [addr : Addr, wren : BOOLEAN, dout : Byte] /\ ram \in [Addr -> Byte]
  BY BusAssumption, RamAssumption DEF Init
<1>e. oam \in [Byte -> Byte]
  BY <1>b DEF Init
<1>1. TypeOK
  BY <1>b, <1>c, <1>d, <1>e DEF Init, TypeOK
<1>2. EngineInv /\ CopiedPrefix /\ NoLostPoke
  BY DEF Init, EngineInv, Within, CopiedPrefix, NoLostPoke
<1> QED
  BY <1>1, <1>2 DEF IInv

(* The memories keep their types at every nes_clk edge.                    *)
LEMMA MemoriesType ==
    ASSUME TypeOK, NesEdge
    PROVE  /\ ram' \in [Addr -> Byte] /\ ram_dout' \in Byte
           /\ oam' \in [Byte -> Byte]
<1>1. ram' \in [Addr -> Byte]
  BY DEF TypeOK, NesEdge, RamEdge
<1>2. ram_dout' \in Byte
  BY <1>1 DEF TypeOK, NesEdge, RamEdge
<1>3. oam' \in [Byte -> Byte]
  BY DEF TypeOK, NesEdge, OamEdge
<1> QED
  BY <1>1, <1>2, <1>3

(* A nes_clk edge keeps the invariant.                                     *)
LEMMA NesEdgeInv ==
    ASSUME IInv, NesEdge
    PROVE  IInv'
<1> USE ByteAssumption, ClockAssumption DEF IInv
<1>a. /\ phase' = phase + 1 /\ phase' \in 0 .. MaxNes /\ bus' = bus /\ dma' = dma
      /\ OAMADDR' = OAMADDR /\ OAMDATA' = OAMDATA /\ oam_wren1' = oam_wren1
  BY DEF NesEdge, TypeOK, ppuRegs
<1>m. ram' \in [Addr -> Byte] /\ ram_dout' \in Byte /\ oam' \in [Byte -> Byte]
  BY MemoriesType
<1>n. NoLostPoke'
  BY <1>a DEF NoLostPoke
<1>1. CASE Trigger
  <2>1. TypeOK'
    <3>1. 0 \in Byte /\ 0 \in 0 .. 2 * N /\ <<dma_reg, 0>> \in Addr
      BY AddrOf DEF TypeOK
    <3> QED
      BY <1>1, <1>a, <1>m, <3>1 DEF Trigger, TypeOK
  <2>2. EngineInv' /\ CopiedPrefix'
    BY <1>1, <1>a DEF Trigger, EngineInv, Within, CopiedPrefix, TypeOK
  <2> QED
    BY <2>1, <2>2, <1>n
<1>2. CASE Idle
  <2>1. TypeOK'
    BY <1>2, <1>a, <1>m DEF Idle, TypeOK, dmaRegs
  <2>2. EngineInv' /\ CopiedPrefix'
    BY <1>2, <1>a DEF Idle, EngineInv, Within, CopiedPrefix, dmaRegs
  <2> QED
    BY <2>1, <2>2, <1>n
<1>3. CASE Transfer
  <2> DEFINE p == dma_reg
             j == dma_oam_addr
  <2>a. /\ dma /\ ram' = ram /\ ram_dout' = ram[dma_ram_addr]
        /\ dma_count \in 0 .. 2 * N - 1 /\ p \in Byte /\ j \in Byte
        /\ dma_reg' = p /\ dma_finish' = dma_finish
        /\ dma_count' = dma_count + 1 /\ dma_ram_addr \in Addr
        /\ oam' = [oam EXCEPT ![j] = ram_dout] /\ oam \in [Byte -> Byte]
    BY <1>3 DEF Transfer, NesEdge, RamEdge, OamEdge, TypeOK
  <2>f. ~dma_finish /\ bus.addr \notin PpuOamRegs
    BY <2>a DEF EngineInv, Within
  <2>1. CASE dma_count = 2 * j
    <3>1. dma_count % 2 = 0
      BY <2>1, <2>a DEF Byte
    <3>2. dma_ram_addr = <<p, j>>
      BY <2>1, <2>a DEF EngineInv, Within, Byte
    <3>3. dma_ram_addr' = IncAddr(<<p, j>>) /\ dma_oam_addr' = j
      BY <1>3, <3>1, <3>2 DEF Transfer
    <3>4. TypeOK'
      BY <1>a, <1>m, <2>a, <3>3, <3>2, IncTypes DEF TypeOK
    <3>5. dma_count' = 2 * j + 1 /\ dma_count' # 2 * N /\ ram_dout' = ram'[<<p, j>>]
      BY <2>1, <2>a, <3>2 DEF Byte
    <3>6. EngineInv'
      <4>1. dma_ram_addr' = IncAddr(<<dma_reg, dma_oam_addr>>)'
        BY <2>a, <3>3 DEF IncAddr, IncByte
      <4>2. dma_count' = 2 * dma_oam_addr' + 1 /\ ram_dout' = ram'[<<dma_reg', dma_oam_addr'>>]
        BY <2>a, <3>3, <3>5
      <4>3. dma' /\ ~dma_finish' /\ dma_count' # 2 * N /\ bus'.addr \notin PpuOamRegs
        BY <1>a, <2>a, <2>f, <3>5
      <4> QED
        BY <4>1, <4>2, <4>3 DEF EngineInv, Within
    <3>7. CopiedPrefix'
      <4> SUFFICES ASSUME NEW i \in Byte, i < j PROVE oam'[i] = ram'[<<dma_reg', i>>]
        BY <3>3, <3>5 DEF CopiedPrefix
      <4>1. oam[i] = ram[<<dma_reg, i>>]
        BY <2>a DEF CopiedPrefix
      <4>2. oam'[i] = oam[i]
        BY <2>a DEF Byte
      <4> QED
        BY <4>1, <4>2, <2>a
    <3> QED
      BY <3>4, <3>6, <3>7, <1>n
  <2>2. CASE dma_count # 2 * j
    <3>1. /\ dma_count = 2 * j + 1
          /\ dma_ram_addr = IncAddr(<<p, j>>)
          /\ ram_dout = ram[<<p, j>>]
      BY <2>2, <2>a DEF EngineInv, Within, Byte
    <3>2. dma_count % 2 = 1
      BY <3>1, <2>a DEF Byte
    <3>3. dma_ram_addr' = dma_ram_addr /\ dma_oam_addr' = IncByte(j)
      BY <1>3, <3>2 DEF Transfer
    <3>4. TypeOK'
      BY <1>a, <1>m, <2>a, <3>3, IncTypes DEF TypeOK
    <3>c. \A i \in Byte : i < j \/ i = j => oam'[i] = ram'[<<dma_reg', i>>]
      BY <2>a, <3>1 DEF CopiedPrefix, Byte
    <3>5. CASE j = N - 1
      <4>1. dma_count' = 2 * N /\ dma_oam_addr' = 0
        BY <3>5, <3>1, <3>3, <2>a DEF IncByte
      <4>2. EngineInv'
        BY <4>1, <1>a, <2>a, <2>f DEF EngineInv, Within, PpuOamRegs
      <4>3. CopiedPrefix'
        BY <3>c, <3>5, <2>a DEF CopiedPrefix, Byte
      <4> QED
        BY <3>4, <4>2, <4>3, <1>n
    <3>6. CASE j # N - 1
      <4>1. /\ dma_oam_addr' = j + 1 /\ dma_ram_addr' = <<p, j + 1>>
            /\ dma_count' = 2 * (j + 1) /\ dma_count' # 2 * N
        BY <3>6, <3>1, <3>3, <2>a, IncInPage DEF Byte
      <4>2. ram_dout' = ram'[<<p, j + 1>>]
        BY <4>1, <3>3, <2>a
      <4>3. EngineInv'
        BY <4>1, <4>2, <1>a, <2>a, <2>f DEF EngineInv, Within, PpuOamRegs
      <4>4. CopiedPrefix'
        BY <3>c, <4>1, <2>a DEF CopiedPrefix, Byte
      <4> QED
        BY <3>4, <4>3, <4>4, <1>n
    <3> QED
      BY <3>5, <3>6
  <2> QED
    BY <2>1, <2>2
<1>4. CASE Finish
  <2>1. ram' = ram /\ oam' = oam
    BY <1>4 DEF Finish, NesEdge, RamEdge, OamEdge
  <2>2. TypeOK'
    BY <1>4, <1>a, <1>m DEF Finish, TypeOK, dmaRegs
  <2>3. EngineInv'
    BY <1>4, <1>a DEF Finish, EngineInv, Within, dmaRegs, PpuOamRegs
  <2>4. CopiedPrefix'
    BY <1>4, <1>a, <2>1 DEF Finish, CopiedPrefix, dmaRegs
  <2> QED
    BY <2>2, <2>3, <2>4, <1>n
<1> QED
  BY <1>1, <1>2, <1>3, <1>4 DEF NesEdge

(* A cpu_clk edge keeps the invariant.                                     *)
LEMMA CpuEdgeInv ==
    ASSUME IInv, CpuEdge
    PROVE  IInv'
<1> USE ByteAssumption, ClockAssumption, BusAssumption DEF IInv
<1>a. /\ phase' = 0 /\ phase >= 2 /\ phase >= 1 /\ dma' = ~dma_finish
      /\ ram' = ram /\ ram_dout' = ram_dout /\ oam' = oam
      /\ dma_finish' = dma_finish /\ dma_count' = dma_count
      /\ dma_reg' = dma_reg /\ dma_ram_addr' = dma_ram_addr
      /\ dma_oam_addr' = dma_oam_addr
  BY DEF CpuEdge, dmaRegs, TypeOK
<1>b. bus' \in [addr : Addr, wren : BOOLEAN, dout : Byte]
  BY DEF CpuEdge, TypeOK
<1>1. TypeOK'
  <2>1. OAMADDR' \in Byte /\ OAMDATA' \in Byte /\ oam_wren1' \in BOOLEAN
    <3>1. 0 \in Byte /\ bus.dout \in Byte /\ OAMADDR \in Byte /\ OAMDATA \in Byte
      BY AddrOf DEF TypeOK
    <3>2. IncByte(OAMADDR) \in Byte
      BY <3>1, ByteAssumption DEF IncByte, Byte
    <3> QED
      BY <3>1, <3>2 DEF CpuEdge, OamRegsEdge
  <2> QED
    BY <2>1, <1>a, <1>b DEF TypeOK
<1>2. CASE dma
  <2>1. bus' = bus
    BY <1>2 DEF CpuEdge
  <2>2. ~oam_wren1'
    BY <1>2 DEF CpuEdge, OamRegsEdge, EngineInv, Within, PpuOamRegs
  <2>3. EngineInv'
    <3>1. CASE dma_finish
      BY <3>1, <1>2, <1>a, <2>1 DEF EngineInv, Within
    <3>2. CASE ~dma_finish
      BY <3>2, <1>2, <1>a, <2>1 DEF EngineInv, Within, PpuOamRegs, TypeOK, IncAddr, IncByte
    <3> QED
      BY <3>1, <3>2
  <2>4. CopiedPrefix' /\ NoLostPoke'
    BY <1>2, <1>a, <2>2 DEF CopiedPrefix, NoLostPoke
  <2> QED
    BY <1>1, <2>3, <2>4
<1>3. CASE ~dma /\ bus.addr # DmaReg
  BY <1>1, <1>3, <1>a DEF EngineInv, Within, CopiedPrefix, NoLostPoke, TypeOK
<1>4. CASE ~dma /\ bus.addr = DmaReg
  <2>1. /\ dma' /\ ~dma_finish /\ dma_count = 0 /\ dma_oam_addr = 0
        /\ dma_ram_addr = <<dma_reg, 0>>
    BY <1>4, <1>a DEF EngineInv, Within
  <2>2. bus'.addr \notin PpuOamRegs
    BY <1>4 DEF CpuEdge, CpuMayIssue
  <2>3. ~oam_wren1'
    BY <1>4 DEF CpuEdge, OamRegsEdge, PpuOamRegs
  <2>4. EngineInv'
    BY <2>1, <2>2, <1>a DEF EngineInv, Within, PpuOamRegs
  <2>5. CopiedPrefix' /\ NoLostPoke'
    BY <2>1, <2>3, <1>a DEF CopiedPrefix, NoLostPoke, Byte
  <2> QED
    BY <1>1, <2>4, <2>5
<1> QED
  BY <1>2, <1>3, <1>4

(* The inductive invariant holds in every reachable state.                 *)
THEOREM Invariance == Spec => []IInv
<1>1. Init => IInv
  BY InitInv
<1>2. IInv /\ [Next]_vars => IInv'
  <2> SUFFICES ASSUME IInv, [Next]_vars PROVE IInv'
    OBVIOUS
  <2>1. CASE NesEdge
    BY <2>1, NesEdgeInv
  <2>2. CASE CpuEdge
    BY <2>2, CpuEdgeInv
  <2>3. CASE UNCHANGED vars
    BY <2>3 DEF IInv, TypeOK, EngineInv, Within, CopiedPrefix, NoLostPoke, vars,
                dmaRegs, ppuRegs, IncAddr, IncByte, PpuOamRegs
  <2> QED
    BY <2>1, <2>2, <2>3 DEF Next
<1> QED
  BY <1>1, <1>2, PTL DEF Spec

(* Every variable keeps its type.                                          *)
THEOREM TypeCorrect == Spec => []TypeOK
  BY Invariance, PTL DEF IInv

(* When the engine has finished, OAM holds the whole page, and at every    *)
(* moment before that the part below dma_oam_addr.                         *)
THEOREM CopiesPage == Spec => []CopiedPrefix
  BY Invariance, PTL DEF IInv

(* No byte written through $2004 is lost to a transfer that follows it.    *)
THEOREM KeepsPokes == Spec => []NoLostPoke
  BY Invariance, PTL DEF IInv

(* A step that raises dma finds in the engine's registers the page that is *)
(* on the bus, although dma_ram_addr takes the dma_reg of an edge before.  *)
THEOREM StartsRight == Spec => StartsAtPage
<1>1. IInv /\ [Next]_vars => [~dma /\ dma' => /\ dma_reg = bus.dout
                                            /\ dma_ram_addr = <<bus.dout, 0>>
                                            /\ bus.addr = DmaReg]_vars
  <2> SUFFICES ASSUME IInv, Next, ~dma, dma'
               PROVE  /\ dma_reg = bus.dout /\ dma_ram_addr = <<bus.dout, 0>>
                      /\ bus.addr = DmaReg
    BY DEF vars
  <2>1. ~dma_finish /\ phase >= MinNes
    BY DEF Next, NesEdge, CpuEdge
  <2>2. phase >= 2 /\ phase >= 1
    BY <2>1, ClockAssumption DEF IInv, TypeOK
  <2> QED
    BY <2>1, <2>2 DEF IInv, EngineInv, Within
<1> QED
  BY <1>1, Invariance, PTL DEF Spec, StartsAtPage

(* Every write of the engine but the first is of the byte that belongs     *)
(* there.                                                                  *)
THEOREM WritesPageOnly == Spec => OnlyFirstByteGlitches
<1> DEFINE Right == \A i \in Byte :
              oam'[i] # oam[i] => \/ oam'[i] = ram[<<dma_reg, i>>]
                                  \/ i = 0 /\ dma_count = 0
<1>1. IInv /\ [Next]_vars => [dma /\ dma' => Right]_vars
  <2> SUFFICES ASSUME IInv, Next, dma, NEW i \in Byte, oam'[i] # oam[i]
               PROVE  \/ oam'[i] = ram[<<dma_reg, i>>]
                      \/ i = 0 /\ dma_count = 0
    BY DEF vars
  <2>0. ~CpuEdge
    BY DEF CpuEdge
  <2>n. NesEdge
    BY <2>0 DEF Next
  <2>1. NesEdge /\ dma_count # 2 * N
    BY <2>n, ByteAssumption DEF NesEdge, OamEdge
  <2>2. oam' = [oam EXCEPT ![dma_oam_addr] = ram_dout] /\ oam \in [Byte -> Byte]
    BY <2>1 DEF NesEdge, OamEdge, IInv, TypeOK
  <2>3. i = dma_oam_addr /\ oam'[i] = ram_dout
    BY <2>2
  <2>4. dma_count \in Nat /\ dma_oam_addr \in Nat
    BY ByteAssumption DEF IInv, TypeOK, Byte
  <2> QED
    BY <2>1, <2>3, <2>4 DEF IInv, EngineInv, Within
<1> QED
  BY <1>1, Invariance, PTL DEF Spec, OnlyFirstByteGlitches

(* The engine is an atomic copy of a page for everybody but the sprite     *)
(* evaluation, which reads the other port of OAM while it is being filled. *)
THEOREM Implements == Spec => ImplementsCopy
<1> USE DEF Page
<1>1. Init => Copy!Init
  BY DEF Init, Copy!Init, Byte, Copy!Byte
<1>2. IInv /\ [Next]_vars => [Copy!Next]_(Copy!vars)
  <2> SUFFICES ASSUME IInv, [Next]_vars PROVE [Copy!Next]_(Copy!vars)
    OBVIOUS
  <2>1. CASE NesEdge /\ ~dma
    <3>1. ~dma' /\ UNCHANGED <<bus, OAMADDR, OAMDATA, oam_wren1>>
      BY <2>1 DEF NesEdge, ppuRegs
    <3>2. /\ ram' = IF bus.wren THEN [ram EXCEPT ![bus.addr] = bus.dout] ELSE ram
          /\ oam' = IF oam_wren1 THEN [oam EXCEPT ![OAMADDR] = OAMDATA] ELSE oam
      BY <2>1 DEF NesEdge, RamEdge, OamEdge
    <3>3. Copy!Memories
      BY <2>1, <3>1, <3>2 DEF Copy!Memories
    <3> QED
      BY <3>3 DEF Copy!Next
  <2>2. CASE NesEdge /\ dma
    <3>1. dma' /\ dma_reg' = dma_reg /\ ram' = ram
      BY <2>2 DEF NesEdge, RamEdge, Trigger, Idle, Transfer, Finish, dmaRegs
    <3>2. UNCHANGED <<bus, OAMADDR, OAMDATA, oam_wren1>>
      BY <2>2 DEF NesEdge, ppuRegs
    <3> QED
      BY <2>2, <3>1, <3>2 DEF Copy!vars
  <2>3. CASE CpuEdge /\ dma
    <3>1. /\ bus' = bus /\ ram' = ram /\ oam' = oam /\ dma_reg' = dma_reg
          /\ dma' = ~dma_finish
      BY <2>3 DEF CpuEdge, dmaRegs
    <3>2. /\ (OAMADDR' = OAMADDR \/ OAMADDR' = 0)
          /\ OAMDATA' = OAMDATA /\ ~oam_wren1'
      BY <2>3 DEF CpuEdge, OamRegsEdge, IInv, EngineInv, Within, PpuOamRegs
    <3>3. oam_wren1' = oam_wren1
      BY <2>3, <3>2 DEF IInv, NoLostPoke, TypeOK, CpuEdge, OamRegsEdge
    <3>4. dma_finish => oam = Page(dma_reg)
      BY <2>3 DEF IInv, TypeOK, EngineInv, Within, CopiedPrefix
    <3>5. (IF dma THEN Page(dma_reg) ELSE oam)' = IF dma THEN Page(dma_reg) ELSE oam
      BY <2>3, <3>1, <3>4
    <3> QED
      <4>1. CASE OAMADDR' = OAMADDR
        BY <4>1, <3>1, <3>2, <3>3, <3>5 DEF Copy!vars
      <4>2. CASE OAMADDR' = 0
        <5>1. Copy!Clear
          BY <4>2, <3>1, <3>2, <3>3, <3>5 DEF Copy!Clear
        <5> QED
          BY <5>1 DEF Copy!Next
      <4> QED
        BY <4>1, <4>2, <3>2
  <2>4. CASE CpuEdge /\ ~dma
    <3>1. bus' \in BusCycles /\ ram' = ram /\ oam' = oam /\ dma_reg' = dma_reg
      BY <2>4 DEF CpuEdge, dmaRegs
    <3>2. Copy!Registers
      BY <2>4 DEF CpuEdge, OamRegsEdge, Copy!Registers, IncByte, Copy!IncByte
    <3>3. (IF dma THEN Page(dma_reg) ELSE oam)'
             = IF bus.addr = DmaReg THEN [i \in Byte |-> ram[<<bus.dout, i>>]]
                                    ELSE oam
      <4>1. phase >= 1 /\ dma' = ~dma_finish
        BY <2>4, ClockAssumption DEF CpuEdge, IInv, TypeOK
      <4> QED
        BY <2>4, <3>1, <4>1 DEF IInv, EngineInv, Within
    <3>4. PICK b \in BusCycles : bus' = b
      BY <3>1
    <3>5. Copy!NextCycle(b)
      BY <2>4, <3>1, <3>3, <3>4 DEF Copy!NextCycle, Copy!Byte, Byte
    <3> QED
      BY <3>2, <3>5 DEF Copy!Next, Copy!CpuCycle
  <2>5. CASE UNCHANGED vars
    BY <2>5 DEF vars, dmaRegs, ppuRegs, Copy!vars
  <2> QED
    BY <2>1, <2>2, <2>3, <2>4, <2>5 DEF Next
<1> QED
  BY <1>1, <1>2, Invariance, PTL DEF Spec, ImplementsCopy, Copy!Spec

-----------------------------------------------------------------------------
(* With resets of the CPU: the page may be that of an earlier transfer.    *)
LEMMA ResetTransfer ==
    ASSUME TypeOK, NEW p \in Byte, EngineAt(p), dma, Transfer, RamEdge, OamEdge
    PROVE  EngineAt(p)'
<1> USE ByteAssumption
<1> DEFINE j == dma_oam_addr
<1>a. /\ ram' = ram /\ ram_dout' = ram[dma_ram_addr]
      /\ dma_count \in 0 .. 2 * N - 1 /\ j \in Byte
      /\ dma_finish' = dma_finish /\ ~dma_finish
      /\ dma_count' = dma_count + 1 /\ dma_ram_addr \in Addr
      /\ oam' = [oam EXCEPT ![j] = ram_dout] /\ oam \in [Byte -> Byte]
  BY DEF Transfer, RamEdge, OamEdge, TypeOK, EngineAt, Within
<1>1. CASE dma_count = 2 * j
  <2>1. dma_count % 2 = 0 /\ dma_ram_addr = <<p, j>>
    BY <1>1, <1>a DEF EngineAt, Within, Byte
  <2>2. dma_ram_addr' = IncAddr(<<p, j>>) /\ dma_oam_addr' = j
    BY <2>1 DEF Transfer
  <2>3. dma_count' = 2 * j + 1 /\ dma_count' # 2 * N /\ ram_dout' = ram'[<<p, j>>]
    BY <1>1, <1>a, <2>1 DEF Byte
  <2>4. dma_ram_addr' = IncAddr(<<p, dma_oam_addr>>)'
    BY <1>a, <2>2 DEF IncAddr, IncByte
  <2>5. ASSUME NEW i \in Byte, i < j PROVE oam'[i] = ram'[<<p, i>>]
    BY <2>5, <1>a, SMTT(30) DEF EngineAt, Within, Byte
  <2> QED
    BY <1>a, <2>2, <2>3, <2>4, <2>5 DEF EngineAt, Within
<1>2. CASE dma_count # 2 * j
  <2>1. dma_count = 2 * j + 1 /\ dma_ram_addr = IncAddr(<<p, j>>) /\ ram_dout = ram[<<p, j>>]
    BY <1>2, <1>a DEF EngineAt, Within, Byte
  <2>2. dma_ram_addr' = dma_ram_addr /\ dma_oam_addr' = IncByte(j)
    BY <1>a, <2>1 DEF Transfer, Byte
  <2>3. \A i \in Byte : i < j \/ i = j => oam'[i] = ram'[<<p, i>>]
    BY <1>a, <2>1 DEF EngineAt, Within, Byte
  <2>4. CASE j = N - 1
    <3>1. dma_count' = 2 * N
      BY <2>4, <1>a, <2>1 DEF Byte
    <3>2. \A i \in Byte : i < j \/ i = j
      BY <2>4 DEF Byte
    <3> QED
      BY <1>a, <2>3, <3>1, <3>2 DEF EngineAt, Within
  <2>5. CASE j # N - 1
    <3>1. /\ dma_oam_addr' = j + 1 /\ dma_ram_addr' = <<p, j + 1>>
          /\ dma_count' = 2 * (j + 1) /\ dma_count' # 2 * N
      BY <2>5, <1>a, <2>1, <2>2, IncInPage, SMTT(30) DEF Byte
    <3>2. ram_dout' = ram'[<<p, j + 1>>]
      BY <3>1, <2>2, <1>a
    <3>3. \A i \in Byte : i < j + 1 => oam'[i] = ram'[<<p, i>>]
      BY <2>3, <1>a DEF Byte
    <3> QED
      BY <1>a, <3>1, <3>2, <3>3 DEF EngineAt, Within
  <2> QED
    BY <2>4, <2>5
<1> QED
  BY <1>1, <1>2

LEMMA ResetNesEdge ==
    ASSUME TypeOK, ResetInv, NesEdge
    PROVE  TypeOK' /\ ResetInv'
<1> USE ByteAssumption, ClockAssumption
<1>a. /\ phase' = phase + 1 /\ phase' \in 0 .. MaxNes /\ bus' = bus /\ dma' = dma
      /\ OAMADDR' = OAMADDR /\ OAMDATA' = OAMDATA /\ oam_wren1' = oam_wren1
  BY DEF NesEdge, TypeOK, ppuRegs
<1>m. ram' \in [Addr -> Byte] /\ ram_dout' \in Byte /\ oam' \in [Byte -> Byte]
  BY MemoriesType
<1>1. CASE Trigger
  <2>1. 0 \in Byte /\ 0 \in 0 .. 2 * N /\ <<dma_reg, 0>> \in Addr
    BY AddrOf DEF TypeOK
  <2>2. TypeOK'
    BY <1>1, <1>a, <1>m, <2>1 DEF Trigger, TypeOK
  <2> QED
    BY <1>1, <1>a, <2>2 DEF Trigger, ResetInv, TypeOK
<1>2. CASE Idle
  <2>1. TypeOK'
    BY <1>2, <1>a, <1>m DEF Idle, TypeOK, dmaRegs
  <2> QED
    BY <1>2, <1>a, <2>1 DEF Idle, ResetInv, dmaRegs
<1>3. CASE Transfer
  <2>1. dma /\ RamEdge /\ OamEdge
    BY <1>3 DEF Transfer, NesEdge
  <2>2. dma_count' \in 0 .. 2 * N /\ dma_ram_addr' \in Addr /\ dma_oam_addr' \in Byte
    <3>1. dma_count' \in 0 .. 2 * N
      BY <1>3 DEF Transfer, TypeOK
    <3> QED
      BY <1>3, <3>1, IncTypes DEF Transfer, TypeOK
  <2>3. TypeOK'
    BY <1>3, <1>a, <1>m, <2>2 DEF Transfer, TypeOK
  <2>4. PICK p \in Byte : EngineAt(p)
    BY <2>1 DEF ResetInv
  <2>5. EngineAt(p)'
    BY <1>3, <2>1, <2>4, ResetTransfer
  <2> QED
    BY <1>a, <2>1, <2>3, <2>5 DEF ResetInv
<1>4. CASE Finish
  <2>1. ram' = ram /\ oam' = oam /\ dma
    BY <1>4 DEF Finish, NesEdge, RamEdge, OamEdge
  <2>2. TypeOK'
    BY <1>4, <1>a, <1>m DEF Finish, TypeOK, dmaRegs
  <2>3. PICK p \in Byte : EngineAt(p)
    BY <2>1 DEF ResetInv
  <2>4. EngineAt(p)'
    BY <1>4, <2>1, <2>3 DEF Finish, EngineAt, Within, dmaRegs
  <2> QED
    BY <1>a, <2>1, <2>2, <2>4 DEF ResetInv
<1> QED
  BY <1>1, <1>2, <1>3, <1>4 DEF NesEdge

LEMMA CpuEdgeType ==
    ASSUME TypeOK, CpuEdge
    PROVE  TypeOK'
<1>1. OAMADDR' \in Byte /\ OAMDATA' \in Byte /\ oam_wren1' \in BOOLEAN
  <2>1. 0 \in Byte /\ bus.dout \in Byte /\ OAMADDR \in Byte /\ OAMDATA \in Byte
    BY AddrOf DEF TypeOK
  <2>2. IncByte(OAMADDR) \in Byte
    BY <2>1, ByteAssumption DEF IncByte, Byte
  <2> QED
    BY <2>1, <2>2 DEF CpuEdge, OamRegsEdge
<1>2. bus' \in [addr : Addr, wren : BOOLEAN, dout : Byte]
  BY BusAssumption DEF CpuEdge, TypeOK
<1>3. phase' \in 0 .. MaxNes /\ dma' \in BOOLEAN
  BY ClockAssumption DEF CpuEdge
<1> QED
  BY <1>1, <1>2, <1>3 DEF TypeOK, CpuEdge, dmaRegs

LEMMA ResetCpuEdge ==
    ASSUME TypeOK, ResetInv, CpuEdge
    PROVE  TypeOK' /\ ResetInv'
<1> USE ByteAssumption
<1>a. /\ dma' = ~dma_finish
      /\ UNCHANGED <<ram, ram_dout, oam, dma_finish, dma_count, dma_reg, dma_ram_addr, dma_oam_addr>>
  BY DEF CpuEdge, dmaRegs
<1>1. CASE dma_finish
  BY <1>1, <1>a, CpuEdgeType DEF ResetInv
<1>2. CASE ~dma_finish /\ dma
  <2>1. PICK p \in Byte : EngineAt(p)
    BY <1>2 DEF ResetInv
  <2>2. EngineAt(p)'
    BY <1>a, <2>1 DEF EngineAt, Within, IncAddr, IncByte
  <2> QED
    BY <1>2, <1>a, <2>2, CpuEdgeType DEF ResetInv
<1>3. CASE ~dma_finish /\ ~dma
  <2>1. dma_count = 0 /\ dma_oam_addr = 0
    BY <1>3 DEF ResetInv
  <2>2. PICK p \in Byte : dma_ram_addr = <<p, 0>>
    BY <1>3 DEF ResetInv
  <2>3. EngineAt(p)'
    BY <1>3, <1>a, <2>1, <2>2 DEF EngineAt, Within, Byte
  <2> QED
    BY <1>3, <1>a, <2>3, CpuEdgeType DEF ResetInv
<1> QED
  BY <1>1, <1>2, <1>3

(* Whenever KEY0 is pressed, what a transfer leaves in OAM is one page.    *)
THEOREM WholePage == ResetSpec => []WholePageAtEnd
<1>1. Init => TypeOK /\ ResetInv
  BY InitInv DEF IInv, ResetInv, Init
<1>2. TypeOK /\ ResetInv /\ [Next \/ CpuReset]_vars => TypeOK' /\ ResetInv'
  <2>1. ASSUME TypeOK, ResetInv, CpuReset PROVE TypeOK' /\ ResetInv'
    <3>1. bus' \in [addr : Addr, wren : BOOLEAN, dout : Byte]
      BY <2>1, BusAssumption DEF CpuReset
    <3>2. UNCHANGED <<phase, ram, ram_dout, dma, dma_finish, dmaRegs, ppuRegs, oam>>
      BY <2>1 DEF CpuReset
    <3> QED
      BY <2>1, <3>1, <3>2 DEF TypeOK, ResetInv, EngineAt, Within, dmaRegs, ppuRegs, IncAddr, IncByte
  <2>2. ASSUME TypeOK, ResetInv, UNCHANGED vars PROVE TypeOK' /\ ResetInv'
    BY <2>2 DEF TypeOK, ResetInv, EngineAt, Within, vars, dmaRegs, ppuRegs, IncAddr, IncByte
  <2> QED
    BY <2>1, <2>2, ResetNesEdge, ResetCpuEdge DEF Next
<1>3. TypeOK /\ ResetInv => WholePageAtEnd
  <2> SUFFICES ASSUME TypeOK, ResetInv, dma, dma_finish PROVE \E p \in Byte : oam = Page(p)
    BY DEF WholePageAtEnd
  <2>1. PICK p \in Byte : EngineAt(p)
    BY DEF ResetInv
  <2>2. \A i \in Byte : oam[i] = ram[<<p, i>>]
    BY <2>1 DEF EngineAt, Within
  <2> QED
    BY <2>2 DEF Page, TypeOK
<1> QED
  BY <1>1, <1>2, <1>3, PTL DEF ResetSpec
=============================================================================
