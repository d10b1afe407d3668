----------------------------- MODULE MCCapture -----------------------------
(* Capture on a queue that holds three of the largest cycles.                *)
EXTENDS Capture
=============================================================================
