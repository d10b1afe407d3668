------------------------------- MODULE Decoder -------------------------------
(***************************************************************************)
(* decode_i2s: bulk IN 0x86 turned into frames.  The payloads are one      *)
(* continuous I2S line cut wherever the transfers ended: a bit in every    *)
(* other byte, each frame two slots, each slot its data bits, MSB first,   *)
(* and then pad bits that are always zero.  There is no word clock; where  *)
(* a frame starts is found, and found wrong, by looking for the pads.      *)
(* A slot is one sign bit, one low bit and one pad here; what the decoder  *)
(* can confuse is which of the three it is looking at.                     *)
(***************************************************************************)
EXTENDS Integers, Sequences, FiniteSets, SequencesExt

CONSTANTS HuntFrames,  \* frames find_alignment looks at, and MAX_HUNT holds
          Payloads,    \* the lengths a payload may have, in bytes
          Lost,        \* the bytes that may go by undecoded
          MaxLosses    \* bound: how often that happens

ASSUME DecoderAssumption ==
  /\ {HuntFrames, MaxLosses} \subseteq Nat /\ HuntFrames >= 4
  /\ Payloads \subseteq Nat \ {0} /\ IsFiniteSet(Payloads)
  /\ Lost \subseteq Nat

Slot == 3                      \* units in a slot: sign, low bit, pad
FrameUnits == 2 * Slot         \* IN_UNITS_PER_FRAME
MaxHunt == HuntFrames * FrameUnits

(* What is played: nothing, a little above zero, and full swing. *)
Sounds == {"silence", "quiet", "loud"}

VARIABLES locked, units, start,  \* Rec
          next,     \* the byte of the line, modulo a frame, the device sends next
          emitted,  \* the last payload put frames in `out`
          losses    \* how often the line went by unread
decoderVars == <<locked, units, start, next, emitted, losses>>

Longest == CHOOSE n \in Payloads : \A m \in Payloads : m <= n

DecoderTypeOK ==
  /\ {locked, emitted} \subseteq BOOLEAN
  /\ start \in {0, 1}
  /\ next \in 0..2 * FrameUnits - 1
  /\ losses \in 0..MaxLosses
  /\ units \in Seq({0, 1})
  /\ Len(units) <= MaxHunt + (Longest + 1) \div 2

DecoderInit ==
  /\ locked = FALSE /\ units = <<>> /\ start = 0
  /\ next \in 0..2 * FrameUnits - 1
  /\ emitted = FALSE /\ losses = 0

-----------------------------------------------------------------------------
(* The line: even bytes carry the bits, and odd ones nothing. *)
Bit(sound, place) ==
  CASE place % Slot = 0 -> IF sound = "loud" THEN 1 ELSE 0
    [] place % Slot = 1 -> IF sound = "silence" THEN 0 ELSE 1
    [] OTHER -> 0

Byte(sound, at) == IF at % 2 = 0 THEN Bit(sound, at \div 2) ELSE 0

(* What a payload of n bytes has in every other byte, from `offset` on. *)
Twos(n, offset) == (n + 1 - offset) \div 2
Nth(sound, offset, i) == Byte(sound, next + offset + 2 * (i - 1))
InTwos(sound, n, offset) == [i \in 1..Twos(n, offset) |-> Nth(sound, offset, i)]

-----------------------------------------------------------------------------
ClearUpTo(us, n) == \A i \in 1..n : us[i] = 0
AllClear(us) == ClearUpTo(us, Len(us))
Drain(us, k) == SubSeq(us, k + 1, Len(us))
Whole(us) == Len(us) \div FrameUnits
Least(S) == CHOOSE a \in S : \A b \in S : a <= b

(* The pads of the frame after the first k units. *)
PadsAreClear(us, k) == us[k + Slot] = 0 /\ us[k + 2 * Slot] = 0

(* Mistake: a payload is taken to begin on an even byte of the line. *)
NextStartEven(n, from) == 0

(* Where the bits of the payload after this one begin. *)
NextStart(n, from) == (n + from) % 2

ReadsAsData(sound, n, offset) ==
  \E i \in 1..Twos(n, offset) : Nth(sound, offset, i) = 1

(* Mistake: nobody asks whether the other parity has something. *)
WrongParityNever(sound, n) == FALSE

(* Nothing where the bits should be and something where none can be. *)
WrongParity(sound, n) ==
  ~ReadsAsData(sound, n, start) /\ ReadsAsData(sound, n, 1 - start)

(* The phases the pads allow. *)
Fits(us) ==
  LET frames == IF Whole(us) < HuntFrames THEN Whole(us) ELSE HuntFrames
  IN  IF frames < 4 \/ ClearUpTo(us, frames * FrameUnits) THEN {}
      ELSE {p \in 0..FrameUnits - 1 :
              \A f \in 0..frames - 2 : PadsAreClear(us, p + f * FrameUnits)}

(* find_alignment: the first of them, if there is one. *)
Phases(us) == IF Fits(us) = {} THEN {} ELSE {Least(Fits(us))}

(* The units in whole frames with clear pads, up to the first that is not. *)
Clean(us) ==
  FrameUnits * Least({Whole(us)} \union
    {f \in 0..Whole(us) - 1 : ~PadsAreClear(us, f * FrameUnits)})

-----------------------------------------------------------------------------
(* With a phase: decode as long as the pads are clear, and stop believing in
   the phase when they are not. *)
DecodeFrames(us) ==
  \E done \in {Clean(us)} :
      /\ units' = Drain(us, done)
      /\ locked' = (Len(us) - done < FrameUnits)
      /\ emitted' = (done > 0)

(* Mistake: no phase, no frames. *)
HuntInTheDark(us) ==
  /\ units' = IF Len(us) > MaxHunt THEN Drain(us, Len(us) - MaxHunt) ELSE us
  /\ emitted' = FALSE

(* Mistake: hunting keeps everything. *)
HuntHoards(us) ==
  LET whole == FrameUnits * (Len(us) \div FrameUnits)
  IN  IF whole > 0 /\ AllClear(us)
        THEN units' = Drain(us, whole) /\ emitted' = TRUE
        ELSE units' = us /\ emitted' = FALSE

(* Without one: silence is silence at any phase; anything else waits, no more
   of it than finding a phase can use. *)
Hunt(us) ==
  LET whole == FrameUnits * (Len(us) \div FrameUnits)
  IN  IF whole > 0 /\ AllClear(us)
        THEN units' = Drain(us, whole) /\ emitted' = TRUE
        ELSE /\ units' = IF Len(us) > MaxHunt THEN Drain(us, Len(us) - MaxHunt) ELSE us
             /\ emitted' = FALSE

DecodeFrom(sound, n, wrong) ==
  LET from == IF wrong THEN 1 - start ELSE start
  IN  \E us \in {(IF wrong THEN <<>> ELSE units) \o InTwos(sound, n, from)} :
        /\ start' = NextStart(n, from)
        /\ \/ locked /\ ~wrong /\ DecodeFrames(us)
           \/ /\ ~locked \/ wrong
              /\ \E aligned \in {Drain(us, p) : p \in Phases(us)} : DecodeFrames(aligned)
           \/ /\ ~locked \/ wrong
              /\ Phases(us) = {}
              /\ locked' = FALSE /\ Hunt(us)

DecodeI2s(sound, n) ==
  /\ DecodeFrom(sound, n, WrongParity(sound, n))
  /\ next' = (next + n) % (2 * FrameUnits)
  /\ UNCHANGED losses

(* A transfer that failed: its bytes are counted by nobody. *)
Lose(n) ==
  /\ losses < MaxLosses
  /\ losses' = losses + 1
  /\ next' = (next + n) % (2 * FrameUnits)
  /\ UNCHANGED <<locked, units, start, emitted>>

(* Capture is switched on again, at whatever byte the line has got to. *)
Restart(n) ==
  /\ losses < MaxLosses
  /\ losses' = losses + 1
  /\ locked' = FALSE /\ units' = <<>> /\ start' = 0
  /\ next' = (next + n) % (2 * FrameUnits)
  /\ emitted' = FALSE

Play(sound) == \E n \in Payloads : DecodeI2s(sound, n)

DecoderNext ==
  \/ \E sound \in Sounds : Play(sound)
  \/ \E n \in Lost : Lose(n) \/ Restart(n)

(* The device keeps sending. *)
DecoderSpec ==
  /\ DecoderInit /\ [][DecoderNext]_decoderVars
  /\ WF_decoderVars(\E sound \in Sounds : Play(sound))

(* What is played has its loud passages. *)
GetsLoud == SF_decoderVars(Play("loud"))

-----------------------------------------------------------------------------
(* On the parity the bits are on, and cut where the slots begin; what waits for
   the rest of its frame may be from before a gap, and is so cut too. *)
Aligned ==
  /\ locked
  /\ (next + start) % 2 = 0
  /\ ((next + start) \div 2 - Len(units)) % Slot = 0
  /\ Len(units) >= Slot => units[Slot] = 0

(* "Once it has, units is kept frame-aligned, so it never has to be found
   again": as long as the line is read without a gap, payloads of any length
   and any sound never cost the decoder its phase (Rec, decode_i2s). *)
KeepsPhase == [][Aligned /\ losses' = losses => Aligned']_decoderVars

(* Whatever was lost, and whatever quiet passage the decoder locked on in the
   wrong place, loud passages, as long as there are any, bring it back to where the slots begin, for good
   (decode_i2s, find_alignment; which of the two slots is the left one is not
   on this wire). *)
Recovers == GetsLoud => <>[]Aligned

(* Capture never stays dark: frames come out again and again whatever is played,
   were it nothing but an idle mixer's silence from the start or quiet passages
   that fit several phases (decode_i2s). *)
NeverDark == []<>emitted
=============================================================================
