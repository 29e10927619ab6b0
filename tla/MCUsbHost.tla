------------------------------ MODULE MCUsbHost ------------------------------
(* Two addresses, and as many changes on the wire as a cfg allows.         *)
EXTENDS UsbHost
=============================================================================
