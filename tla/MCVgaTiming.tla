---------------------------- MODULE MCVgaTiming -----------------------------
(* The beam with the values of the code: 525 lines of 800 pixels.          *)
EXTENDS VgaTiming
=============================================================================
