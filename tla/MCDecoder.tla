----------------------------- MODULE MCDecoder -----------------------------
(* Payloads of four frames and five bytes and of two frames: they end in the *)
(* middle of a slot, and of the pair of bytes a bit takes.  An odd or an even *)
(* number of bytes goes by unread.                                           *)
EXTENDS Decoder
=============================================================================
