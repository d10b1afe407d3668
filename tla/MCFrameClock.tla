---------------------------- MODULE MCFrameClock ----------------------------
(* FrameClock with a second of eight packets at 5.5 frames each, where the   *)
(* device asks for 43 to 45 frames or sends a count that is none.            *)
EXTENDS FrameClock

SomeBytes == {5, 43, 45}
=============================================================================
