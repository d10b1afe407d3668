----------------------------- MODULE PlayQueue -----------------------------
(***************************************************************************)
(* The playback queue of audio.rs and the three threads that share it:     *)
(*   - PipeWire's data thread hands over encoded frames (push_play);       *)
(*   - the main loop throws the queue away when a stream ends (clear_play);*)
(*   - the USB thread refills an OUT transfer in its completion callback   *)
(*     (on_complete, take_play, silence_out).                              *)
(* A frame is the number it was handed over under, 1, 2, 3...: what is in  *)
(* it is nobody's business here.  The switch PLAY_ON is thrown by Playback;*)
(* in this module it may change at any time.                               *)
(***************************************************************************)
EXTENDS Naturals, Sequences

CONSTANTS PlayLimit,    \* PLAY_LIMIT, in frames
          Bursts,       \* the sizes of a delivery, in frames
          Transfers,    \* the OUT transfers in rotation
          Sizes,        \* the lengths an OUT transfer can be given, in frames
          MaxFrames     \* bound: frames handed over in a behaviour

ASSUME QueueAssumption ==
  /\ PlayLimit \in Nat \ {0}
  /\ Bursts \subseteq Nat \ {0}
  /\ Sizes \subseteq Nat \ {0}
  /\ MaxFrames \in Nat

VARIABLES play,       \* PLAY: frames queued, oldest first
          playOn,     \* PLAY_ON
          pushed,     \* PLAY_PUSHED
          taken,      \* PLAY_FRAMES
          drops,      \* PLAY_DROPS
          wire,       \* the frames push_play has counted and not yet queued
          buffer,     \* what each OUT transfer was last filled with
          filling,    \* the transfer in its callback, and what it is filled from
          cleared,    \* history: frames thrown away by clear_play
          heard       \* history: the newest frame put into a transfer
vars == <<play, playOn, pushed, taken, drops, wire, buffer, filling, cleared, heard>>

Silence == 0
Nobody == [from |-> "nothing"]

Smaller(a, b) == IF a < b THEN a ELSE b

(* Mistakes push_play could make: a limit off by one, dropping the newest frames. *)
ExcessOffByOne(q) == IF Len(q) > PlayLimit + 1 THEN Len(q) - PlayLimit ELSE 0
FromWrongEnd(q, k) == SubSeq(q, 1, Len(q) - k)

(* How far a queue is over the limit, and a queue without its k oldest frames. *)
Excess(q) == IF Len(q) > PlayLimit THEN Len(q) - PlayLimit ELSE 0
From(q, k) == SubSeq(q, k + 1, Len(q))

Run(k, n) == [i \in 1..n |-> k + i]
Quiet(n) == [i \in 1..n |-> Silence]

TypeOK ==
  /\ play \in Seq(1..pushed)
  /\ Len(play) <= PlayLimit
  /\ playOn \in BOOLEAN
  /\ pushed \in Nat /\ taken \in Nat /\ drops \in Nat /\ cleared \in Nat
  /\ wire \in Seq(1..pushed)
  /\ buffer \in [Transfers -> Seq(0..pushed)]
  /\ \/ filling = Nobody
     \/ filling \in [transfer : Transfers, length : Sizes, from : {"queue", "silence"}]
  /\ heard \in 0..pushed

Init ==
  /\ play = <<>> /\ wire = <<>>
  /\ playOn = FALSE
  /\ pushed = 0 /\ taken = 0 /\ drops = 0 /\ cleared = 0
  /\ buffer \in [Transfers -> {Quiet(n) : n \in Sizes}]
  /\ filling = Nobody
  /\ heard = 0

(* push_play counts a delivery before it has the lock... *)
CountPush(n) ==
  /\ wire = <<>>
  /\ pushed + n <= MaxFrames
  /\ wire' = Run(pushed, n)
  /\ pushed' = pushed + n
  /\ UNCHANGED <<play, playOn, taken, drops, buffer, filling, cleared, heard>>

(* Mistake: a drop counted once per delivery and not once per frame. *)
PushDropsOnce ==
  /\ wire # <<>>
  /\ LET q == play \o wire
     IN  /\ play' = From(q, Excess(q))
         /\ drops' = drops + Smaller(1, Excess(q))
  /\ wire' = <<>>
  /\ UNCHANGED <<playOn, pushed, taken, buffer, filling, cleared, heard>>

(* Mistake: a delivery queued ahead of what is waiting. *)
PushInFront ==
  /\ wire # <<>>
  /\ play' = From(wire \o play, Excess(wire \o play))
  /\ drops' = drops + Excess(wire \o play)
  /\ wire' = <<>>
  /\ UNCHANGED <<playOn, pushed, taken, buffer, filling, cleared, heard>>

(* ... and queues it under the lock, dropping the oldest frames over the limit. *)
Push ==
  /\ wire # <<>>
  /\ LET q == play \o wire
     IN  /\ play' = From(q, Excess(q))
         /\ drops' = drops + Excess(q)
  /\ wire' = <<>>
  /\ UNCHANGED <<playOn, pushed, taken, buffer, filling, cleared, heard>>

ClearPlay ==
  /\ play # <<>>
  /\ cleared' = cleared + Len(play)
  /\ play' = <<>>
  /\ UNCHANGED <<playOn, pushed, taken, drops, wire, buffer, filling, heard>>

SetPlayOn ==
  /\ playOn' = ~playOn
  /\ UNCHANGED <<play, pushed, taken, drops, wire, buffer, filling, cleared, heard>>

(* An OUT transfer completes: it is given a length, and PLAY_ON says, once,
   what it will carry. *)
OutComplete(t, n) ==
  /\ filling = Nobody
  /\ filling' = [transfer |-> t, length |-> n,
                 from |-> IF playOn THEN "queue" ELSE "silence"]
  /\ UNCHANGED <<play, playOn, pushed, taken, drops, wire, buffer, cleared, heard>>

Submit(t, content) ==
  /\ buffer' = [buffer EXCEPT ![t] = content]
  /\ filling' = Nobody

(* take_play: as much as is there, silence for the rest. *)
FillFromQueue ==
  /\ filling.from = "queue"
  /\ LET n == filling.length
         k == Smaller(n, Len(play))
     IN  /\ Submit(filling.transfer, SubSeq(play, 1, k) \o Quiet(n - k))
         /\ play' = From(play, k)
         /\ taken' = taken + k
         /\ heard' = IF k = 0 THEN heard ELSE play[k]
  /\ UNCHANGED <<playOn, pushed, drops, wire, cleared>>

(* Mistake: a transfer with nothing to send resubmitted as it stands. *)
FillNothing ==
  /\ filling.from = "silence"
  /\ Submit(filling.transfer, buffer[filling.transfer])
  /\ UNCHANGED <<play, playOn, pushed, taken, drops, wire, cleared, heard>>

(* silence_out: what the transfer carried last must not go out again. *)
FillSilence ==
  /\ filling.from = "silence"
  /\ Submit(filling.transfer, Quiet(filling.length))
  /\ UNCHANGED <<play, playOn, pushed, taken, drops, wire, cleared, heard>>

Next ==
  \/ \E n \in Bursts : CountPush(n)
  \/ Push
  \/ ClearPlay
  \/ SetPlayOn
  \/ \E t \in Transfers, n \in Sizes : OutComplete(t, n)
  \/ FillFromQueue
  \/ FillSilence

Spec == Init /\ [][Next]_vars

-----------------------------------------------------------------------------
(* Every frame handed over (PLAY_PUSHED) is in exactly one place: about to be
   queued, queued, taken by the device, dropped over the limit or thrown away
   with a finished stream. *)
Accounted == pushed = Len(wire) + Len(play) + taken + drops + cleared

(* What is held is one unbroken run of the newest frames, all of it newer than
   anything the device has been sent: nothing is lost from the middle of the
   queue, duplicated or reordered (push_play, take_play). *)
InOrder ==
  LET q == play \o wire
  IN  /\ \A i \in 1..Len(q) : q[i] = pushed - Len(q) + i
      /\ heard <= pushed - Len(q)

(* Each submission carries frames the device has not had, then silence: a
   transfer is never sent off with what was last in it (silence_out). *)
NeverTwice ==
  [][filling # Nobody /\ filling' = Nobody =>
       LET sent == buffer'[filling.transfer]
       IN  /\ \A i \in 1..Len(sent) : sent[i] = Silence \/ sent[i] > heard
           /\ \A i \in 2..Len(sent) : sent[i] = Silence \/ sent[i] = sent[i - 1] + 1]_vars

(* The queue, seen as the promise it makes. *)
Fifo == INSTANCE AudioFifo WITH handed <- pushed, held <- play \o wire, given <- heard

(* The queue keeps that promise. *)
KeepsOrder == Fifo!Spec
=============================================================================
