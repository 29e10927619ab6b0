------------------------------ MODULE MCPpuRegs ------------------------------
(* Addresses 0-1 are pattern ROM, 2-5 a nametable RAM of two bytes seen    *)
(* twice, 6-9 a palette of four entries of which 0 and 2 are one, and      *)
(* 10-11 nothing.                                                          *)
EXTENDS PpuRegs

MCByte == {0, 1}
MCRom == [a \in 0 .. VramBase - 1 |-> 1 - a]
=============================================================================
