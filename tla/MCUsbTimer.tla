----------------------------- MODULE MCUsbTimer ------------------------------
(* The clock scaled: 2^W ticks, a product that wraps every tenth of them.  *)
EXTENDS UsbTimer
=============================================================================
