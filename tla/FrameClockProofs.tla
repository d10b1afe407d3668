-------------------------- MODULE FrameClockProofs --------------------------
(***************************************************************************)
(* FrameClock for every value of its constants: the OUT pattern sends      *)
(* exactly the rate it is asked for, packet by packet, and the average it  *)
(* follows never leaves the range of plausible counts.                     *)
(***************************************************************************)
EXTENDS FrameClock, TLAPS

(* Integer division by a positive number, for the provers: the remainder. *)
LEMMA DivRemainder ==
  ASSUME NEW a \in Int, NEW d \in Nat, d > 0
  PROVE  /\ a \div d \in Int
         /\ (a \div d) * d <= a
         /\ a < (a \div d) * d + d
  BY SMT

(* Multiplication by a natural number keeps the order. *)
LEMMA TimesKeepsOrder ==
  ASSUME NEW a \in Int, NEW b \in Int, NEW c \in Nat, a <= b
  PROVE  a * c <= b * c
<1>1. (b - a) * c >= 0
  BY SMT
<1>2. QED BY <1>1, SMT

(* What divides out to less than n whole parts was less than n parts, and the
   other way round. *)
LEMMA DivBelow ==
  ASSUME NEW a \in Int, NEW d \in Nat, d > 0, NEW n \in Int, a < n * d
  PROVE  a \div d < n
<1> DEFINE q == a \div d
<1>1. q \in Int /\ q * d <= a
  BY DivRemainder
<1>2. SUFFICES ASSUME n <= q PROVE FALSE
  BY <1>1
<1>3. n * d <= q * d
  BY <1>1, <1>2, TimesKeepsOrder
<1>4. n * d \in Int /\ q * d \in Int
  BY <1>1
<1> HIDE DEF q
<1>5. QED BY <1>1, <1>3, <1>4

LEMMA DivNonNegative ==
  ASSUME NEW a \in Nat, NEW d \in Nat, d > 0
  PROVE  a \div d \in Nat
  BY SMT

(* A part of a gap, rounded down, stays inside the gap. *)
LEMMA PartOfGap ==
  ASSUME NEW a \in Int, NEW d \in Nat, d > 0
  PROVE  /\ a >= 0 => 0 <= a \div d /\ a \div d <= a
         /\ a < 0 => a <= a \div d /\ a \div d <= 0
<1> DEFINE q == a \div d
<1>1. q \in Int /\ q * d <= a /\ a < q * d + d
  BY DivRemainder
<1>2. CASE a >= 0
  <2>1. q >= 0
    BY <1>1, <1>2, SMT
  <2>2. q <= q * d
    BY <1>1, <2>1, SMT
  <2>3. QED BY <1>1, <1>2, <2>1, <2>2
<1>3. CASE a < 0
  <2>1. q <= 0
    BY <1>1, <1>3, SMT
  <2>2. a <= q
    BY <1>1, <1>3, SMT
  <2>3. QED BY <1>3, <2>1, <2>2
<1>4. QED BY <1>2, <1>3

-----------------------------------------------------------------------------
(* The constants make sense together: a rate is a natural number, whatever the
   clamp makes of it, and the packet sized from it fits its share of the buffer. *)
LEMMA RatesFit ==
  /\ PerPacket \in Nat /\ PerPacket > 0
  /\ NominalRate \in Rates
  /\ \A r \in Rates : r \in Nat /\ r <= (PacketFrames - 1) * PerPacket
<1>1. Nominal \in Nat /\ RateFrac \in Nat /\ Microframes \in Nat /\ Tolerance \in Nat
      /\ RateFrac > 0 /\ Microframes > 0 /\ Tolerance <= 100
  BY ClockAssumption
<1>2. PerPacket \in Nat /\ PerPacket > 0
  BY <1>1, SMT DEF PerPacket
<1>3. NominalRate \in Nat
  BY <1>1, SMT DEF NominalRate
<1>4. NominalRate * Tolerance \in Nat /\ NominalRate * Tolerance <= NominalRate * 100
  <2>1. Tolerance * NominalRate <= 100 * NominalRate
    BY <1>1, <1>3, TimesKeepsOrder
  <2>2. QED BY <1>1, <1>3, <2>1, SMT
<1>5. Slack \in Nat /\ Slack <= NominalRate
  BY <1>3, <1>4, SMT DEF Slack
<1>6. NominalRate \in Rates
  BY <1>3, <1>5 DEF Rates
<1>7. ASSUME NEW r \in Rates
      PROVE  r \in Nat /\ r <= (PacketFrames - 1) * PerPacket
  <2>1. r \in Int /\ NominalRate - Slack <= r /\ r <= NominalRate + Slack
    BY <1>3, <1>5 DEF Rates
  <2>2. (PacketFrames - 1) * PerPacket \in Int
    BY <1>2, RoomAssumption
  <2>3. NominalRate + Slack <= (PacketFrames - 1) * PerPacket
    BY RoomAssumption
  <2>4. QED BY <1>3, <1>5, <2>1, <2>2, <2>3
<1>8. QED BY <1>2, <1>6, <1>7

(* out_rate never leaves the band around nominal. *)
LEMMA OutRateInBand ==
  ASSUME fbRate \in Int
  PROVE  OutRate \in Rates
<1>1. NominalRate \in Rates
  BY RatesFit
<1>2. NominalRate \in Int /\ Slack \in Int
  BY ClockAssumption, SMT DEF NominalRate, Slack
<1>3. NominalRate - Slack <= NominalRate + Slack
  BY <1>1, <1>2 DEF Rates
<1>4. (fbRate * RateFrac) \div Scale \in Int
  BY ClockAssumption, DivRemainder
<1>5. QED BY <1>1, <1>2, <1>3, <1>4 DEF OutRate, Clamp, Rates

(* A rate of a plausible count is positive and between those of the limits. *)
LEMMA RateOfCount ==
  /\ \A b \in Nat : RateOf(b) \in Nat
  /\ \A b \in Nat : Plausible(b) => /\ RateOf(FbMin) > 0
                                    /\ RateOf(FbMin) <= RateOf(b)
                                    /\ RateOf(b) <= RateOf(FbMax)
<1>1. PerSecond \in Nat /\ PerSecond > 0 /\ Scale \in Nat /\ Scale > 0
      /\ FbMin \in Nat /\ FbMin > 0 /\ FbMax \in Nat
  BY ClockAssumption
<1>2. ASSUME NEW b \in Nat
      PROVE  b * PerSecond \in Nat /\ RateOf(b) \in Nat
  BY <1>1, SMT DEF RateOf
<1>3. RateOf(FbMin) > 0
  <2>1. FbMin * PerSecond > 0
    BY <1>1, SMT
  <2>2. QED BY <1>1, <1>2, <2>1, SMT DEF RateOf
<1>4. ASSUME NEW a \in Nat, NEW b \in Nat, a <= b
      PROVE  RateOf(a) <= RateOf(b)
  <2>1. a * PerSecond <= b * PerSecond
    BY <1>1, <1>4, TimesKeepsOrder
  <2>2. QED BY <1>1, <1>2, <2>1, TimesKeepsOrder DEF RateOf
<1>5. QED BY <1>1, <1>2, <1>3, <1>4 DEF Plausible

(* A step of the average towards a plausible rate stays among them. *)
LEMMA BlendStaysInside ==
  ASSUME NEW prev \in Int, NEW b \in Nat, Plausible(b),
         prev = 0 \/ (RateOf(FbMin) <= prev /\ prev <= RateOf(FbMax))
  PROVE  /\ BlendRate(prev, b) \in Int
         /\ BlendRate(prev, b) # 0
         /\ RateOf(FbMin) <= BlendRate(prev, b)
         /\ BlendRate(prev, b) <= RateOf(FbMax)
<1> DEFINE lo == RateOf(FbMin)
           hi == RateOf(FbMax)
           v == RateOf(b)
           step == (v - prev) \div Alpha
<1>1. FbMin \in Nat /\ FbMax \in Nat /\ Alpha \in Nat /\ Alpha > 0
  BY ClockAssumption
<1>2. lo \in Nat /\ hi \in Nat /\ v \in Nat /\ lo > 0 /\ lo <= v /\ v <= hi
  BY <1>1, RateOfCount
<1>3. /\ step \in Int
      /\ v - prev >= 0 => 0 <= step /\ step <= v - prev
      /\ v - prev < 0 => v - prev <= step /\ step <= 0
  BY <1>1, <1>2, DivRemainder, PartOfGap
<1>4. BlendRate(prev, b) = IF prev = 0 THEN v ELSE prev + step
  BY DEF BlendRate
<1>5. prev = 0 \/ (lo <= prev /\ prev <= hi)
  OBVIOUS
<1> HIDE DEF lo, hi, v, step
<1>6. /\ BlendRate(prev, b) \in Int /\ BlendRate(prev, b) # 0
      /\ lo <= BlendRate(prev, b) /\ BlendRate(prev, b) <= hi
  BY <1>2, <1>3, <1>4, <1>5
<1>7. QED BY <1>6 DEF lo, hi

(* Adding a share of at most m - 1 wholes to less than one whole: what comes out
   is at most m, leaves less than a whole, and is what the share alone would
   give or one more. *)
LEMMA ShareOut ==
  ASSUME NEW d \in Nat, d > 0, NEW c \in Nat, c < d,
         NEW m \in Nat, NEW r \in Nat, r <= (m - 1) * d
  PROVE  LET n == (c + r) \div d
         IN  /\ n \in Nat /\ n <= m
             /\ c + r - n * d \in 0..d - 1
             /\ n - r \div d \in {0, 1}
<1> DEFINE n == (c + r) \div d
           base == r \div d
<1>1. n \in Nat /\ n * d \in Nat /\ n * d <= c + r /\ c + r < n * d + d
  BY DivRemainder, DivNonNegative
<1>2. base \in Nat /\ base * d \in Nat /\ base * d <= r /\ r < base * d + d
  BY DivRemainder, DivNonNegative
<1>3. n < m
  <2>1. (m - 1) * d + d = m * d /\ (m - 1) * d \in Int
    BY SMT
  <2>2. c + r < m * d
    BY <2>1
  <2>3. QED BY <2>2, DivBelow
<1>4. n < base + 2
  <2>1. base * d + d + d = (base + 2) * d
    BY <1>2, SMT
  <2>2. c + r < (base + 2) * d
    BY <1>2, <2>1
  <2>3. QED BY <1>2, <2>2, DivBelow
<1>5. base < n + 1
  <2>1. n * d + d = (n + 1) * d
    BY <1>1, SMT
  <2>2. r < (n + 1) * d
    BY <1>1, <2>1
  <2>3. QED BY <1>1, <2>2, DivBelow
<1> HIDE DEF n, base
<1>6. n - base \in {0, 1}
  BY <1>1, <1>2, <1>4, <1>5
<1>7. c + r - n * d \in 0..d - 1
  BY <1>1
<1>8. n \in Nat /\ n <= m
  BY <1>1, <1>3
<1>9. QED BY <1>6, <1>7, <1>8 DEF n, base

(* What a packet is sized to: a part of the buffer it has, leaving the
   accumulator with less than one frame. *)
LEMMA PacketSized ==
  ASSUME TypeOK, SizePacket
  PROVE  /\ length' \in 0..PacketFrames
         /\ acc' \in 0..PerPacket - 1
         /\ length' - rate \div PerPacket \in {0, 1}
<1> DEFINE n == (acc + rate) \div PerPacket
<1>1. PerPacket \in Nat /\ PerPacket > 0 /\ rate \in Nat /\ rate <= (PacketFrames - 1) * PerPacket
  BY RatesFit DEF TypeOK
<1>2. acc \in Nat /\ acc < PerPacket
  BY <1>1 DEF TypeOK
<1>3. PacketFrames \in Nat
  BY RoomAssumption
<1>4. length' = n /\ acc' = acc + rate - n * PerPacket
  BY DEF SizePacket
<1>5. /\ n \in Nat /\ n <= PacketFrames
      /\ acc + rate - n * PerPacket \in 0..PerPacket - 1
      /\ n - rate \div PerPacket \in {0, 1}
  BY <1>1, <1>2, <1>3, ShareOut
<1> HIDE DEF n
<1>6. n \in 0..PacketFrames
  BY <1>3, <1>5
<1>7. QED BY <1>4, <1>5, <1>6

-----------------------------------------------------------------------------
(* Why nothing is lost: what is owed is what the accumulator holds, to the unit. *)
IInv == TypeOK /\ owed = acc /\ BelievesCounts

LEMMA InitIInv == Init => IInv
<1> SUFFICES ASSUME Init PROVE IInv
  OBVIOUS
<1>1. PerPacket \in Nat /\ PerPacket > 0 /\ NominalRate \in Rates
  BY RatesFit
<1>2. Warmup \in Nat /\ Packets \in Nat /\ PacketFrames \in Nat
  BY ClockAssumption, RoomAssumption
<1>3. 0 \in 0..PerPacket - 1 /\ 0 \in 0..Warmup /\ 0 \in 0..Packets /\ 0 \in 0..PacketFrames
  BY <1>1, <1>2
<1>4. TypeOK
  <2>1. 0 \in Int
    OBVIOUS
  <2>2. QED BY <1>1, <1>3, <2>1, Zenon DEF Init, TypeOK
<1>5. QED BY <1>4 DEF Init, IInv, BelievesCounts

LEMMA TakeFeedbackIInv ==
  ASSUME IInv, TakeFeedback
  PROVE  IInv'
<1> DEFINE b == asking
<1>1. b \in Nat /\ Warmup \in Nat
  BY ClockAssumption DEF IInv, TypeOK
<1>2. UNCHANGED <<noFeedback, rate, left, acc, length, asking, owed>>
  BY DEF TakeFeedback
<1>3. CASE Plausible(b)
  <2>1. fbRate' = BlendRate(fbRate, b)
        /\ seen' = IF seen < Warmup THEN seen + 1 ELSE seen
    BY <1>3 DEF TakeFeedback
  <2>2. fbRate \in Int /\ (fbRate = 0 \/ (RateOf(FbMin) <= fbRate /\ fbRate <= RateOf(FbMax)))
    BY DEF IInv, TypeOK, BelievesCounts
  <2>3. /\ fbRate' \in Int /\ fbRate' # 0
        /\ RateOf(FbMin) <= fbRate' /\ fbRate' <= RateOf(FbMax)
    BY <1>1, <1>3, <2>1, <2>2, BlendStaysInside
  <2>4. seen' \in 0..Warmup
    BY <1>1, <2>1 DEF IInv, TypeOK
  <2>5. BelievesCounts'
    BY <2>3 DEF BelievesCounts, RateOf
  <2>6. TypeOK'
    BY <1>2, <2>3, <2>4 DEF IInv, TypeOK
  <2>7. QED BY <1>2, <2>5, <2>6 DEF IInv
<1>4. CASE ~Plausible(b)
  <2>1. UNCHANGED <<seen, fbRate>>
    BY <1>4 DEF TakeFeedback
  <2>2. QED BY <1>2, <2>1 DEF IInv, TypeOK, BelievesCounts, RateOf
<1>5. QED BY <1>3, <1>4

LEMMA StepIInv == IInv /\ [Next]_vars => IInv'
<1> SUFFICES ASSUME IInv, [Next]_vars PROVE IInv'
  OBVIOUS
<1>0. ASSUME NEW b \in Bytes, Ask(b) PROVE IInv'
  BY <1>0 DEF IInv, TypeOK, BelievesCounts, RateOf, Ask
<1>1. CASE TakeFeedback
  BY <1>1, TakeFeedbackIInv
<1>2. CASE IgnoreFeedback
  BY <1>2 DEF IInv, TypeOK, BelievesCounts, RateOf, IgnoreFeedback
<1>3. CASE StartTransfer
  <2>1. rate' \in Rates
    BY <1>3, OutRateInBand DEF IInv, TypeOK, StartTransfer
  <2>2. left' \in 0..Packets
    BY <1>3, ClockAssumption DEF StartTransfer
  <2>3. TypeOK'
    BY <1>3, <2>1, <2>2 DEF IInv, TypeOK, StartTransfer
  <2>4. QED BY <1>3, <2>3 DEF IInv, BelievesCounts, RateOf, StartTransfer
<1>4. CASE SizePacket
  <2>1. length' \in 0..PacketFrames /\ acc' \in 0..PerPacket - 1
    BY <1>4, PacketSized DEF IInv
  <2>2. owed' = acc'
    BY <1>4 DEF IInv, SizePacket
  <2>3. left' \in 0..Packets
    BY <1>4, ClockAssumption DEF IInv, TypeOK, SizePacket
  <2>4. TypeOK'
    BY <1>4, <2>1, <2>2, <2>3 DEF IInv, TypeOK, SizePacket
  <2>5. BelievesCounts'
    BY <1>4 DEF IInv, BelievesCounts, RateOf, SizePacket
  <2>6. QED BY <2>2, <2>4, <2>5 DEF IInv
<1>5. CASE UNCHANGED vars
  BY <1>5 DEF IInv, TypeOK, BelievesCounts, RateOf, vars
<1>6. QED BY <1>0, <1>1, <1>2, <1>3, <1>4, <1>5 DEF Next

LEMMA AlwaysIInv == Spec => []IInv
<1>1. Init => IInv
  BY InitIInv
<1>2. IInv /\ [Next]_vars => IInv'
  BY StepIInv
<1>3. QED BY <1>1, <1>2, PTL DEF Spec

(* Every variable keeps its type: in particular the rate stays in the band
   around nominal and no packet outgrows its share of the buffer (out_rate,
   size_out_packets). *)
THEOREM TypeCorrect == Spec => []TypeOK
<1>1. IInv => TypeOK
  BY DEF IInv
<1>2. QED BY <1>1, AlwaysIInv, PTL

(* The frames sent never fall a whole frame behind what was asked for, nor get
   ahead of it, over any number of packets (next_frame_count). *)
THEOREM NothingIsLost == Spec => []NothingLost
<1>1. IInv => NothingLost
  <2>1. PerPacket \in Nat
    BY RatesFit
  <2>2. QED BY <2>1 DEF IInv, TypeOK, NothingLost
<1>2. QED BY <1>1, AlwaysIInv, PTL

(* The average is one that plausible counts could have (take_feedback, blend_rate). *)
THEOREM CountsAreBelieved == Spec => []BelievesCounts
<1>1. IInv => BelievesCounts
  BY DEF IInv
<1>2. QED BY <1>1, AlwaysIInv, PTL

(* At a given rate no two packets differ by more than a frame (next_frame_count). *)
THEOREM PacketsAreEven == Spec => Even
<1>1. IInv /\ [Next]_vars =>
        [left' < left => length' - rate \div PerPacket \in {0, 1}]_vars
  <2> SUFFICES ASSUME IInv, Next, left' < left
               PROVE  length' - rate \div PerPacket \in {0, 1}
    OBVIOUS
  <2>1. left \in Nat
    BY ClockAssumption DEF IInv, TypeOK
  <2>2. SizePacket
    <3>1. ~TakeFeedback /\ \A b \in Bytes : ~Ask(b)
      BY <2>1 DEF TakeFeedback, Ask
    <3>2. ~IgnoreFeedback
      BY <2>1 DEF IgnoreFeedback
    <3>3. ~StartTransfer
      BY <2>1, ClockAssumption DEF StartTransfer
    <3>4. QED BY <3>1, <3>2, <3>3 DEF Next
  <2>3. QED BY <2>2, PacketSized DEF IInv
<1>2. QED BY <1>1, AlwaysIInv, PTL DEF Spec, Even
=============================================================================
