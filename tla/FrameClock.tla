----------------------------- MODULE FrameClock -----------------------------
(***************************************************************************)
(* iso.rs's answer to the device's clock: how the frame counts read from   *)
(* the feedback endpoint 0x81 become the number of frames in each packet   *)
(* of the OUT pipe.                                                        *)
(*                                                                         *)
(* Every step is made in a libusb callback, and libusb runs one callback   *)
(* at a time; a callback sizes a whole transfer, so no feedback is read    *)
(* between its packets.                                                    *)
(***************************************************************************)
EXTENDS Integers

CONSTANTS Nominal,       \* OUT_RATE: frames per second
          RateFrac,      \* RATE_FRAC: units of rate in a frame per second
          Microframes,   \* MICROFRAMES_PER_SEC: OUT packets per second
          PerSecond,     \* feedback packets per second
          Scale,         \* 1 << FB_RATE_SHIFT
          Alpha,         \* 1 << FB_RATE_SHIFT_ALPHA
          Tolerance,     \* FB_RATE_TOLERANCE, percent
          Warmup,        \* FB_WARMUP
          FbMin, FbMax,  \* FB_FRAMES_MIN, FB_FRAMES_MAX
          Bytes,         \* what the first byte of a feedback packet can be
          Packets,       \* packets in an OUT transfer
          PacketFrames   \* the frames a packet's share of the buffer holds

PerPacket == Microframes * RateFrac
NominalRate == Nominal * RateFrac
Slack == (NominalRate * Tolerance) \div 100
Rates == NominalRate - Slack .. NominalRate + Slack

ASSUME ClockAssumption ==
  /\ {Nominal, RateFrac, Microframes, PerSecond, Scale, Alpha, FbMin, Packets}
       \subseteq Nat \ {0}
  /\ {Warmup, FbMax} \subseteq Nat
  /\ Tolerance \in 0..100
  /\ Bytes \subseteq Nat

(* A packet at the highest rate fits its share of the buffer, with one frame to
   spare: 6 of the 13 frames of ISO_OUT_PACKET. *)
ASSUME RoomAssumption ==
  /\ PacketFrames \in Nat
  /\ NominalRate + Slack <= (PacketFrames - 1) * PerPacket

VARIABLES fbRate,      \* FB_RATE
          seen,        \* FB_PACKETS, counted as far as Warmup
          noFeedback,  \* NO_FEEDBACK
          rate,        \* the rate the transfer in hand is sized to
          left,        \* the packets of it still to be sized
          acc,         \* FRAME_ACC
          length,      \* the frames in the packet sized last
          asking,      \* what the device puts first in its feedback packets
          owed         \* history: all the rate asked for, less the frames sent
vars == <<fbRate, seen, noFeedback, rate, left, acc, length, asking, owed>>

(* A count is frames per feedback packet; a rate is frames per second. *)
RateOf(count) == count * PerSecond * Scale

(* Mistake: a division that rounds towards zero. *)
BlendTowardsZero(prev, count) ==
  LET d == RateOf(count) - prev
  IN  IF prev = 0 THEN RateOf(count)
      ELSE prev + IF d < 0 THEN -((-d) \div Alpha) ELSE d \div Alpha

(* blend_rate, whose shift rounds down. *)
BlendRate(prev, count) ==
  IF prev = 0 THEN RateOf(count)
  ELSE prev + (RateOf(count) - prev) \div Alpha

Clamp(x, lo, hi) == IF x < lo THEN lo ELSE IF x > hi THEN hi ELSE x

(* Mistake: whatever the average says, however far from nominal. *)
OutRateNoClamp ==
  IF noFeedback \/ seen < Warmup THEN NominalRate ELSE (fbRate * RateFrac) \div Scale

(* out_rate *)
OutRate ==
  IF noFeedback \/ seen < Warmup THEN NominalRate
  ELSE Clamp((fbRate * RateFrac) \div Scale, NominalRate - Slack, NominalRate + Slack)

TypeOK ==
  /\ fbRate \in Int
  /\ seen \in 0..Warmup
  /\ noFeedback \in BOOLEAN
  /\ rate \in Rates
  /\ left \in 0..Packets
  /\ acc \in 0..PerPacket - 1
  /\ length \in 0..PacketFrames
  /\ asking \in Bytes
  /\ owed \in Int

Init ==
  /\ fbRate = 0 /\ seen = 0
  /\ noFeedback = FALSE
  /\ rate = NominalRate /\ left = 0
  /\ acc = 0 /\ length = 0 /\ owed = 0
  /\ asking \in Bytes

(* Mistake: a count that is not one let through. *)
PlausibleAnything(b) == b \in Nat

(* feedback_frames: whether a first byte is a count at all. *)
Plausible(b) == b \in FbMin..FbMax

(* The device asks for something else, or sends garbage. *)
Ask(b) ==
  /\ b # asking
  /\ asking' = b
  /\ UNCHANGED <<fbRate, seen, noFeedback, rate, left, acc, length, owed>>

(* take_feedback *)
TakeFeedback ==
  /\ left = 0
  /\ IF Plausible(asking)
       THEN /\ seen' = IF seen < Warmup THEN seen + 1 ELSE seen
            /\ fbRate' = BlendRate(fbRate, asking)
       ELSE UNCHANGED <<seen, fbRate>>
  /\ UNCHANGED <<noFeedback, rate, left, acc, length, asking, owed>>

(* NS6_NO_FEEDBACK takes effect after the streams are already up. *)
IgnoreFeedback ==
  /\ left = 0 /\ ~noFeedback
  /\ noFeedback' = TRUE
  /\ UNCHANGED <<fbRate, seen, rate, left, acc, length, asking, owed>>

(* An OUT transfer is about to be sized: one rate for all of its packets. *)
StartTransfer ==
  /\ left = 0
  /\ rate' = OutRate
  /\ left' = Packets
  /\ UNCHANGED <<fbRate, seen, noFeedback, acc, length, asking, owed>>

(* Mistake: the pattern read before this packet's rate is added to it. *)
SizePacketStale ==
  /\ left > 0
  /\ length' = acc \div PerPacket
  /\ acc' = acc + rate - length' * PerPacket
  /\ owed' = owed + rate - length' * PerPacket
  /\ left' = left - 1
  /\ UNCHANGED <<fbRate, seen, noFeedback, rate, asking>>

(* next_frame_count for the next packet. *)
SizePacket ==
  /\ left > 0
  /\ length' = (acc + rate) \div PerPacket
  /\ acc' = acc + rate - length' * PerPacket
  /\ owed' = owed + rate - length' * PerPacket
  /\ left' = left - 1
  /\ UNCHANGED <<fbRate, seen, noFeedback, rate, asking>>

Next ==
  \/ \E b \in Bytes : Ask(b)
  \/ TakeFeedback
  \/ IgnoreFeedback
  \/ StartTransfer
  \/ SizePacket

(* The device reports every millisecond, whatever it asks for. *)
Fairness == WF_vars(SizePacket) /\ SF_vars(TakeFeedback)

Spec == Init /\ [][Next]_vars /\ Fairness

-----------------------------------------------------------------------------
(* What has been asked of the pattern and not been sent is always less than
   one frame: over any stretch of packets, however the rate changed along the
   way, the device is sent what it asked for (next_frame_count). *)
NothingLost == 0 <= owed /\ owed < PerPacket

(* Packets differ by at most one frame at a given rate (next_frame_count). *)
Even == [][left' < left => length' - rate \div PerPacket \in {0, 1}]_vars

(* From the first count on, the average is a rate some run of plausible counts
   could have, and until then there is none: a packet of garbage, or the window
   that is still filling, never steers the output (take_feedback, blend_rate). *)
BelievesCounts ==
  IF fbRate = 0 THEN seen = 0 ELSE RateOf(FbMin) <= fbRate /\ fbRate <= RateOf(FbMax)

(* A device that keeps asking for the same count gets that rate, short of it by
   less than one step of the average: the rounding down settles it exactly
   when coming from above, and just below when coming from underneath. *)
Settles ==
  \A b \in Bytes : Plausible(b) =>
    (<>[](asking = b) => <>[](RateOf(b) - fbRate \in 0..Alpha - 1))
=============================================================================
