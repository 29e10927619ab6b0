-------------------------- MODULE MCFirmwareClock ----------------------------
(* An alarm of a short period and of nearly a whole turn's on a counter of *)
(* five bits, whose product wraps every eighth tick.                       *)
EXTENDS FirmwareClock
=============================================================================
