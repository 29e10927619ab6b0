------------------------------- MODULE PpuPort -------------------------------
(***************************************************************************)
(* What a game may rely on at $2002, $2005, $2006 and $2007: one latch     *)
(* that says which byte comes next, an address that moves on with every    *)
(* access of the data port, writes that take effect at once, and one       *)
(* register through which everything that is read passes one read late.    *)
(***************************************************************************)
EXTENDS Integers

CONSTANTS
    Byte, Addresses,    \* values of a data byte and of the address register
    Highs, Lows,        \* values of the two bytes of an address
    Cells,              \* the bytes of video memory
    CellOf(_),          \* the byte an address names, if any
    Rom(_), Roms,       \* the contents of the cells that cannot be written
    Combine(_, _),      \* an address from its two bytes
    Step(_, _)          \* the address after an access: old address, PPUCTRL[2]

VARIABLES
    mem,        \* video memory
    latch,      \* the next byte of a pair is the second
    high,       \* the first byte of an address
    vaddr,      \* the address register
    buffer,     \* what the next read returns
    stride,     \* PPUCTRL[2]
    got         \* what the last read returned

vars == <<mem, latch, high, vaddr, buffer, stride, got>>

Init ==
    /\ mem \in [Cells -> Byte] /\ latch = FALSE /\ high \in Highs
    /\ vaddr \in Addresses /\ buffer \in Byte /\ stride = FALSE /\ got \in Byte

Control == stride' \in BOOLEAN /\ UNCHANGED <<mem, latch, high, vaddr, buffer, got>>

Status ==
    /\ got' = buffer /\ buffer' \in Byte
    /\ latch' = FALSE
    /\ UNCHANGED <<mem, high, vaddr, stride>>

OtherRead ==
    /\ got' = buffer /\ buffer' \in Byte
    /\ UNCHANGED <<mem, latch, high, vaddr, stride>>

Scroll == latch' = ~latch /\ UNCHANGED <<mem, high, vaddr, buffer, stride, got>>

AddressHigh(b) ==
    /\ ~latch /\ latch' = TRUE /\ high' = b
    /\ UNCHANGED <<mem, vaddr, buffer, stride, got>>

AddressLow(b) ==
    /\ latch /\ latch' = FALSE
    /\ vaddr' = Combine(high, b)
    /\ UNCHANGED <<mem, high, buffer, stride, got>>

WriteData(v) ==
    /\ mem' = IF CellOf(vaddr) \in Cells THEN [mem EXCEPT ![CellOf(vaddr)] = v] ELSE mem
    /\ vaddr' = Step(vaddr, stride)
    /\ UNCHANGED <<latch, high, buffer, stride, got>>

(* An address that names nothing loads whatever was on the bus.            *)
ReadData ==
    /\ got' = buffer
    /\ IF CellOf(vaddr) \in Cells THEN buffer' = mem[CellOf(vaddr)]
       ELSE IF CellOf(vaddr) \in Roms THEN buffer' = Rom(CellOf(vaddr))
       ELSE buffer' \in Byte
    /\ vaddr' = Step(vaddr, stride)
    /\ UNCHANGED <<mem, latch, high, stride>>

Next ==
    \/ Control \/ Status \/ OtherRead \/ Scroll \/ ReadData
    \/ \E v \in Byte : WriteData(v)
    \/ \E b \in Highs : AddressHigh(b)
    \/ \E b \in Lows : AddressLow(b)

Spec == Init /\ [][Next]_vars
=============================================================================
