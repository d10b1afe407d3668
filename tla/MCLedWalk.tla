----------------------------- MODULE MCLedWalk -----------------------------
(* Two channels of three numbers.  Of the numbers one is known to drop the
   device, one does and has to be found out, and one is harmless.            *)
EXTENDS LedWalk
=============================================================================
