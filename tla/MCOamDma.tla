------------------------------ MODULE MCOamDma ------------------------------
(* Bytes of two and of three values.  The CPU can read, write RAM, write   *)
(* and read the three device registers; the model with three values keeps  *)
(* to the cycles a game's interrupt handler uses.                          *)
EXTENDS OamDma

MCDmaReg == <<N - 1, 1>>
MCOamAddrReg == <<N - 1, 0>>
MCOamDataReg == <<0, 1>>

Cycle(a, w, d) == [addr |-> a, wren |-> w, dout |-> d]

AllCycles == [addr : Addr, wren : BOOLEAN, dout : Byte]
HandlerCycles ==
    {Cycle(<<0, 0>>, FALSE, 0), Cycle(<<1, 2>>, TRUE, 1)}
        \cup {Cycle(MCDmaReg, TRUE, d) : d \in Byte}
        \cup {Cycle(MCOamDataReg, TRUE, d) : d \in {1, 2}}

AllRams == [Addr -> Byte]
(* Every byte of a page differs from its neighbours'.                      *)
StripedRams == {[a \in Addr |-> (a[1] + a[2] + k) % N] : k \in {0, 1}}
=============================================================================
