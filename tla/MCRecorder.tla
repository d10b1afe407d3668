----------------------------- MODULE MCRecorder -----------------------------
(* A button, a fader and a platter that may also chatter, over two sessions. *)
EXTENDS Recorder
CONSTANTS button, fader, platter
=============================================================================
