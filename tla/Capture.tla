------------------------------ MODULE Capture ------------------------------
(***************************************************************************)
(* The way in: bulk IN 0x86 is decoded into REC by the USB thread, taken   *)
(* from it by PipeWire's data thread, and switched on and off by the main  *)
(* loop.                                                                   *)
(*   - usb   on_bulk_in: look at REC_ON, decode_i2s, push_rec;             *)
(*   - rt    `capture`: prime once, then serve what is there;              *)
(*   - loop  `follow` on every tick, arm_rec, state_changed of the source. *)
(* Of a frame, queued or still in the decoder, only one thing is kept:     *)
(* whether it was captured before REC_ON was last switched off, and so     *)
(* belongs to a recording that is over.  Old frames are always ahead of    *)
(* the others, and go first.                                               *)
(* PipeWire is taken at its word that it does not report a stream stopped  *)
(* in the middle of a cycle.                                               *)
(***************************************************************************)
EXTENDS Naturals

CONSTANTS RecLimit,   \* REC_LIMIT, in frames
          Floor,      \* the refill NS6_REC_MS asks for, in frames
          Requests,   \* the frames a cycle can ask for
          Payload,    \* the most frames one bulk payload holds
          Waiting     \* the most frames the decoder keeps the units of: a hunt's,
                      \* or the rest of a payload it lost the phase in

ASSUME CaptureAssumption ==
  /\ {RecLimit, Floor, Payload, Waiting} \subseteq Nat
  /\ Requests \subseteq Nat \ {0}

VARIABLES rec,        \* the frames in REC, old and new
          recOn,      \* REC_ON
          recPrimed,  \* REC_PRIMED
          decoder,    \* the frames, begun or whole, whose units are left in REC_STATE
          usb,        \* where on_bulk_in is, what it decoded, whether REC_ON fell since
          rt,         \* where `capture` is, and the frames asked of it
          burst,      \* Capture.burst
          loop,       \* where the main loop is
          listener,   \* somebody is linked to the source
          links,      \* ... as far as the registry has told the loop
          streaming,  \* the source's stream is Streaming
          alive       \* `alive()`
vars == <<rec, recOn, recPrimed, decoder, usb, rt, burst, loop, listener,
          links, streaming, alive>>

Larger(a, b) == IF a > b THEN a ELSE b
Smaller(a, b) == IF a < b THEN a ELSE b
Less(a, b) == a - Smaller(a, b)

(* Capture::target *)
Target(b) == Larger(Floor, 3 * b)

Frames(old, new) == [old |-> old, new |-> new]
Depth(q) == q.old + q.new
WithoutOldest(q, k) == Frames(Less(q.old, k), Less(q.new, Less(k, q.old)))

(* Mistake: a limit that is never enforced. *)
CappedNowhere(q) == q

(* What is left of a queue once it is down to its limit. *)
Capped(q) == WithoutOldest(q, Less(Depth(q), RecLimit))

UsbIdle == [at |-> "idle", got |-> Frames(0, 0), late |-> FALSE]
RtIdle == [at |-> "idle", frames |-> 0]

TypeOK ==
  /\ rec \in [old : 0..RecLimit, new : 0..RecLimit] /\ Depth(rec) <= RecLimit
  /\ {recOn, recPrimed, listener, links, streaming, alive} \subseteq BOOLEAN
  /\ decoder \in [old : 0..Waiting, new : 0..Waiting] /\ Depth(decoder) <= Waiting
  /\ usb \in [at : {"idle", "decode", "push"}, late : BOOLEAN,
              got : [old : 0..Waiting + Payload, new : 0..Waiting + Payload]]
  /\ rt \in [at : {"idle", "primed", "depth", "full", "short", "take"},
             frames : Requests \union {0}]
  /\ burst \in Requests \union {0}
  /\ loop \in {"idle", "reset", "unprime", "drain", "on", "over"}

Init ==
  /\ rec = Frames(0, 0) /\ decoder = Frames(0, 0)
  /\ recOn = FALSE /\ recPrimed = FALSE
  /\ usb = UsbIdle /\ rt = RtIdle
  /\ burst = 0
  /\ loop = "idle"
  /\ listener = FALSE /\ links = FALSE
  /\ streaming = TRUE /\ alive = TRUE

-----------------------------------------------------------------------------
(* The USB thread: on_bulk_in. *)
OnlyUsb == UNCHANGED <<recOn, recPrimed, rt, burst, loop, listener, links,
                       streaming, alive>>

BulkIn ==
  /\ usb.at = "idle" /\ recOn
  /\ usb' = [UsbIdle EXCEPT !.at = "decode"]
  /\ UNCHANGED <<rec, decoder>> /\ OnlyUsb

(* How much comes out and how much is kept depends on the data: a hunt drops
   units or keeps them, a phase that is lost keeps the rest of the payload, and
   the next call puts out what it can of all that, oldest first. *)
Decode(out, kept) ==
  /\ usb.at = "decode"
  /\ out.old + kept.old <= decoder.old + (IF usb.late THEN Payload ELSE 0)
  /\ Depth(out) + Depth(kept) <= Depth(decoder) + Payload
  /\ usb.late => out.new = 0 /\ kept.new = 0
  /\ out.new > 0 => kept.old = 0
  /\ usb' = [usb EXCEPT !.at = "push", !.got = out]
  /\ decoder' = kept
  /\ UNCHANGED rec /\ OnlyUsb

Outputs == {q \in [old : 0..Waiting + Payload, new : 0..Waiting + Payload] :
              Depth(q) <= Waiting + Payload}
Keepable == {q \in [old : 0..Waiting, new : 0..Waiting] : Depth(q) <= Waiting}

(* push_rec: the oldest frames over the limit are dropped. *)
PushRec ==
  /\ usb.at = "push"
  /\ rec' = Capped(Frames(rec.old + usb.got.old, rec.new + usb.got.new))
  /\ usb' = UsbIdle
  /\ UNCHANGED decoder /\ OnlyUsb

Usb == BulkIn \/ PushRec \/ \E out \in Outputs, kept \in Keepable : Decode(out, kept)

-----------------------------------------------------------------------------
(* The data thread: capture. *)
OnlyRt == UNCHANGED <<recOn, decoder, usb, loop, listener, links, streaming, alive>>
RtAt(from, to) == rt.at = from /\ rt' = [rt EXCEPT !.at = to]

Request(n) ==
  /\ streaming
  /\ rt.at = "idle"
  /\ rt' = [at |-> "primed", frames |-> n]
  /\ burst' = Larger(burst, n)
  /\ UNCHANGED <<rec, recPrimed>> /\ OnlyRt

TestPrimed ==
  /\ RtAt("primed", IF recPrimed THEN "take" ELSE "depth")
  /\ UNCHANGED <<rec, recPrimed, burst>> /\ OnlyRt

(* Mistake: a lead-in deeper than the queue. *)
TestFourDeep ==
  /\ RtAt("depth", IF Depth(rec) >= Larger(Floor, 4 * burst) THEN "full" ELSE "short")
  /\ UNCHANGED <<rec, recPrimed, burst>> /\ OnlyRt

TestDepth ==
  /\ RtAt("depth", IF Depth(rec) >= Target(burst) THEN "full" ELSE "short")
  /\ UNCHANGED <<rec, recPrimed, burst>> /\ OnlyRt

StorePrimed ==
  /\ RtAt("full", "take") \/ (rt.at = "short" /\ rt' = RtIdle)
  /\ recPrimed' = (rt.at = "full")
  /\ UNCHANGED <<rec, burst>> /\ OnlyRt

(* take_rec; what is missing is silence. *)
TakeRec ==
  /\ rt.at = "take"
  /\ rec' = WithoutOldest(rec, rt.frames)
  /\ rt' = RtIdle
  /\ UNCHANGED <<recPrimed, burst>> /\ OnlyRt

RtStep == TestPrimed \/ TestDepth \/ StorePrimed \/ TakeRec

-----------------------------------------------------------------------------
(* The main loop. *)
OnlyLoop == UNCHANGED <<rt, listener, alive>>
LoopAt(from, to) == loop = from /\ loop' = to

(* REC_ON is switched off: what was captured so far is of a recording that is over. *)
SwitchOff ==
  /\ recOn' = FALSE
  /\ IF recOn
       THEN /\ rec' = Frames(Depth(rec), 0)
            /\ usb' = [usb EXCEPT !.late = usb.at # "idle",
                                  !.got = Frames(Depth(usb.got), 0)]
            /\ decoder' = Frames(Depth(decoder), 0)
       ELSE UNCHANGED <<rec, usb, decoder>>

(* follow, when the links and REC_ON disagree: off at once, or on in four steps. *)
FollowOff ==
  /\ alive /\ ~links /\ recOn
  /\ LoopAt("idle", "idle")
  /\ SwitchOff
  /\ UNCHANGED <<recPrimed, burst, links, streaming>> /\ OnlyLoop

FollowOn ==
  /\ alive /\ links /\ ~recOn
  /\ LoopAt("idle", "reset")
  /\ UNCHANGED <<rec, recOn, recPrimed, decoder, usb, burst, links, streaming>> /\ OnlyLoop

ResetAlign ==
  /\ LoopAt("reset", "unprime")
  /\ decoder' = Frames(0, 0)
  /\ UNCHANGED <<rec, recOn, recPrimed, usb, burst, links, streaming>> /\ OnlyLoop

ArmUnprime ==
  /\ LoopAt("unprime", "drain")
  /\ recPrimed' = FALSE
  /\ UNCHANGED <<rec, recOn, decoder, usb, burst, links, streaming>> /\ OnlyLoop

(* Mistake: arming that leaves the queue as it is. *)
ArmKeeps ==
  /\ LoopAt("drain", "on")
  /\ UNCHANGED <<rec, recOn, recPrimed, decoder, usb, burst, links, streaming>> /\ OnlyLoop

ArmDrain ==
  /\ LoopAt("drain", "on")
  /\ rec' = Frames(0, 0)
  /\ UNCHANGED <<recOn, recPrimed, decoder, usb, burst, links, streaming>> /\ OnlyLoop

SwitchOn ==
  /\ LoopAt("on", "idle")
  /\ recOn' = TRUE
  /\ UNCHANGED <<rec, recPrimed, decoder, usb, burst, links, streaming>> /\ OnlyLoop

(* state_changed of the source, away from Streaming. *)
SourceStops ==
  /\ streaming /\ rt.at = "idle"
  /\ LoopAt("idle", "idle")
  /\ streaming' = FALSE
  /\ SwitchOff
  /\ recPrimed' = FALSE
  /\ burst' = 0
  /\ UNCHANGED links /\ OnlyLoop

SourceStarts ==
  /\ ~streaming
  /\ LoopAt("idle", "idle")
  /\ streaming' = TRUE
  /\ UNCHANGED <<rec, recOn, recPrimed, decoder, usb, burst, links>> /\ OnlyLoop

(* Mistake: links that are only ever added to the map. *)
LinkEventAddsOnly ==
  /\ listener /\ ~links
  /\ LoopAt("idle", "idle")
  /\ links' = TRUE
  /\ UNCHANGED <<rec, recOn, recPrimed, decoder, usb, burst, streaming>> /\ OnlyLoop

LinkEvent ==
  /\ links # listener
  /\ LoopAt("idle", "idle")
  /\ links' = listener
  /\ UNCHANGED <<rec, recOn, recPrimed, decoder, usb, burst, streaming>> /\ OnlyLoop

(* run and spawn end, and the streams are gone; only this thread ever writes
   REC_ON, so once is enough. *)
RunEnds ==
  /\ ~alive /\ rt.at = "idle"
  /\ LoopAt("idle", "over")
  /\ streaming' = FALSE
  /\ SwitchOff
  /\ UNCHANGED <<recPrimed, burst, links>> /\ OnlyLoop

Loop == \/ FollowOff \/ FollowOn \/ ResetAlign \/ ArmUnprime \/ ArmDrain
        \/ SwitchOn \/ RunEnds

Around ==
  /\ \/ listener' = ~listener /\ UNCHANGED alive
     \/ alive /\ alive' = FALSE /\ UNCHANGED listener
  /\ UNCHANGED <<rec, recOn, recPrimed, decoder, usb, rt, burst, loop, links, streaming>>

Next == \/ Usb \/ RtStep \/ \E n \in Requests : Request(n)
        \/ Loop \/ LinkEvent \/ SourceStops \/ SourceStarts \/ Around

(* The threads are scheduled and the loop serves its timer and its link events;
   a streaming node is asked every cycle, and a device that is on the bus keeps
   sending payloads with frames in them. *)
DecodeSome ==
  \E out \in Outputs, kept \in Keepable : Depth(out) > 0 /\ Decode(out, kept)

Fairness ==
  /\ WF_vars(RtStep) /\ WF_vars(\E n \in Requests : Request(n))
  /\ WF_vars(Usb) /\ SF_vars(DecodeSome)
  /\ WF_vars(Loop) /\ SF_vars(LinkEvent) /\ SF_vars(FollowOn) /\ SF_vars(RunEnds)

Spec == Init /\ [][Next]_vars /\ Fairness

-----------------------------------------------------------------------------
(* Arming works: once REC_ON is on again, what is left of the last recording is
   no more than one callback made of it, the one the USB thread was in the middle
   of when it was switched off: its payload, and what the decoder had kept until
   then.  Nothing the queue held, and nothing the decoder keeps on (follow,
   reset_rec_align, arm_rec, on_bulk_in). *)
ArmedIsFresh == recOn => rec.old + usb.got.old + decoder.old <= Payload + Waiting

(* A listener that stays is recorded for and, after its lead-in, served
   (follow, capture). *)
GetsServed == <>[](listener /\ streaming /\ alive) => <>[](recOn /\ recPrimed)

(* A source nobody is linked to stops decoding (follow). *)
StopsDecoding == <>[]~listener => <>[]~recOn
=============================================================================
