----------------------------- MODULE MCUartFlow -----------------------------
(* Small buffers: XOFF above 4 of 15 bytes, where the firmware has 64 of   *)
(* 255.  What is under way when XOFF is requested is the same as there.    *)
EXTENDS UartFlow
=============================================================================
