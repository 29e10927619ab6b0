---------------------------- MODULE MCJtagUart -------------------------------
(* A ring of three slots in front of FIFOs of two characters, and  *)
(* characters told apart modulo two.  The firmware only writes; a program  *)
(* that only reads exercises the other half of the driver.                 *)
EXTENDS JtagUart

MCPrograms == {{"write", "close"}, {"read"}}
=============================================================================
