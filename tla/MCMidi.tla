------------------------------- MODULE MCMidi -------------------------------
(* Three statuses, one of them followed by a single byte.  A packet holds a    *)
(* message, or one and the beginning of the next.                              *)
EXTENDS Midi

CONSTANTS control, note, pressure
=============================================================================
