----------------------------- MODULE MCPlayback -----------------------------
(* Playback on a queue that holds three of the client's largest deliveries.  *)
EXTENDS Playback
=============================================================================
