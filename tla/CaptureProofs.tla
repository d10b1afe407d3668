---------------------------- MODULE CaptureProofs ----------------------------
(***************************************************************************)
(* The way in.  Capture for every size of queue, request and payload: a    *)
(* recording that was armed has no more of the last one in it than one     *)
(* callback made.  And the decoder on its way, for payloads of any lengths *)
(* and any number of frames to look for the phase in: what is found stays  *)
(* found as long as the line is read.                                      *)
(***************************************************************************)
EXTENDS Capture, Decoder, SequenceTheorems, WellFoundedInduction, TLAPS

(* Taking the oldest frames off a queue: what is left, and how much. *)
LEMMA LessIsANumber ==
  \A a, b \in Nat : Less(a, b) \in Nat /\ Less(a, b) <= a
  BY DEF Less, Smaller

LEMMA WithoutOldestShrinks ==
  ASSUME NEW q, q.old \in Nat, q.new \in Nat, NEW k \in Nat
  PROVE  /\ WithoutOldest(q, k) \in [old : Nat, new : Nat]
         /\ WithoutOldest(q, k).old <= q.old
         /\ WithoutOldest(q, k).new <= q.new
         /\ Depth(WithoutOldest(q, k)) = Less(Depth(q), k)
<1> DEFINE old == Less(q.old, k)
           new == Less(q.new, Less(k, q.old))
<1>1. old \in Nat /\ old <= q.old /\ new \in Nat /\ new <= q.new
  BY LessIsANumber
<1>2. old + new = Less(q.old + q.new, k)
  BY DEF Less, Smaller
<1>3. WithoutOldest(q, k) = [old |-> old, new |-> new]
  BY DEF WithoutOldest, Frames
<1> HIDE DEF old, new
<1>4. QED BY <1>1, <1>2, <1>3 DEF Depth

LEMMA CappedFits ==
  ASSUME NEW q, q.old \in Nat, q.new \in Nat
  PROVE  /\ Capped(q) \in [old : 0..RecLimit, new : 0..RecLimit]
         /\ Depth(Capped(q)) <= RecLimit
         /\ Capped(q).old <= q.old
<1> DEFINE k == Less(Depth(q), RecLimit)
<1>1. RecLimit \in Nat /\ Depth(q) \in Nat
  BY CaptureAssumption DEF Depth
<1>2. k \in Nat
  BY <1>1, LessIsANumber
<1>3. Less(Depth(q), k) <= RecLimit
  BY <1>1 DEF Less, Smaller
<1>4. Capped(q) = WithoutOldest(q, k)
  BY DEF Capped
<1> HIDE DEF k
<1>5. /\ Capped(q) \in [old : Nat, new : Nat]
      /\ Capped(q).old <= q.old
      /\ Depth(Capped(q)) <= RecLimit
  BY <1>2, <1>3, <1>4, WithoutOldestShrinks
<1>6. Capped(q).old \in 0..RecLimit /\ Capped(q).new \in 0..RecLimit
  BY <1>1, <1>5 DEF Depth
<1>7. QED BY <1>5, <1>6

-----------------------------------------------------------------------------
(* What on_bulk_in carries between its steps is a payload and what the decoder
   had, less what the decoder has again; outside of them it carries nothing. *)
GotFits == Depth(usb.got) + Depth(decoder) <= Payload + Waiting
NothingGot == usb.at # "push" => usb.got = Frames(0, 0)
Shape == TypeOK /\ GotFits /\ NothingGot

UsbStates == [at : {"idle", "decode", "push"}, late : BOOLEAN,
              got : [old : 0..Waiting + Payload, new : 0..Waiting + Payload]]

LEMMA UsbStateMade ==
  ASSUME NEW at \in {"idle", "decode", "push"}, NEW late \in BOOLEAN,
         NEW got \in [old : 0..Waiting + Payload, new : 0..Waiting + Payload]
  PROVE  [at |-> at, got |-> got, late |-> late] \in UsbStates
  BY DEF UsbStates

LEMMA UsbStateParts ==
  ASSUME NEW u \in UsbStates
  PROVE  /\ u.at \in {"idle", "decode", "push"} /\ u.late \in BOOLEAN
         /\ u = [at |-> u.at, got |-> u.got, late |-> u.late]
  BY DEF UsbStates

(* So many frames and none of the other kind are one of the amounts up to n. *)
LEMMA FramesMade ==
  ASSUME NEW n \in Nat, NEW old \in 0..n
  PROVE  /\ Frames(old, 0) \in [old : 0..n, new : 0..n]
         /\ Depth(Frames(old, 0)) = old
  BY DEF Frames, Depth

LEMMA RequestsAreNumbers == \A n \in Requests \union {0} : n \in Nat
  BY CaptureAssumption

LEMMA ShapeParts ==
  ASSUME Shape
  PROVE  /\ rec.old \in Nat /\ rec.new \in Nat /\ Depth(rec) \in 0..RecLimit
         /\ rec = Frames(rec.old, rec.new)
         /\ usb.got.old \in Nat /\ usb.got.new \in Nat
         /\ Depth(usb.got) \in 0..Waiting + Payload
         /\ decoder.old \in Nat /\ decoder.new \in Nat /\ Depth(decoder) \in 0..Waiting
         /\ usb.at \in {"idle", "decode", "push"} /\ usb.late \in BOOLEAN
         /\ RecLimit \in Nat /\ Payload \in Nat /\ Waiting \in Nat
         /\ Waiting + Payload \in Nat
  BY CaptureAssumption DEF Shape, TypeOK, GotFits, Depth, Frames

LEMMA SwitchOffShape ==
  ASSUME Shape, SwitchOff
  PROVE  /\ rec' \in [old : 0..RecLimit, new : 0..RecLimit] /\ Depth(rec') <= RecLimit
         /\ recOn' = FALSE
         /\ decoder' \in [old : 0..Waiting, new : 0..Waiting] /\ Depth(decoder') <= Waiting
         /\ usb' \in [at : {"idle", "decode", "push"}, late : BOOLEAN,
                      got : [old : 0..Waiting + Payload, new : 0..Waiting + Payload]]
         /\ GotFits' /\ NothingGot'
<1>1. CASE ~recOn
  BY <1>1 DEF SwitchOff, Shape, TypeOK, GotFits, NothingGot
<1>2. CASE recOn
  <2> DEFINE depth == Depth(rec)
             got == Depth(usb.got)
             kept == Depth(decoder)
  <2>1. depth \in 0..RecLimit /\ got \in 0..Waiting + Payload /\ kept \in 0..Waiting
    BY ShapeParts
  <2>2. /\ recOn' = FALSE
        /\ rec' = Frames(depth, 0)
        /\ usb' = [usb EXCEPT !.late = usb.at # "idle", !.got = Frames(got, 0)]
        /\ decoder' = Frames(kept, 0)
    BY <1>2 DEF SwitchOff
  <2>3. usb.at # "push" => got = 0
    BY DEF Shape, NothingGot, Depth, Frames
  <2>f. got + kept <= Payload + Waiting
    BY DEF Shape, GotFits
  <2> HIDE DEF depth, got, kept
  <2>4. rec' \in [old : 0..RecLimit, new : 0..RecLimit] /\ Depth(rec') <= RecLimit
    BY <2>1, <2>2, ShapeParts, FramesMade
  <2>5. usb' = [at |-> usb.at, got |-> Frames(got, 0), late |-> usb.at # "idle"]
    <3>1. usb = [at |-> usb.at, got |-> usb.got, late |-> usb.late]
      BY UsbStateParts DEF Shape, TypeOK, UsbStates
    <3>2. QED BY <2>2, <3>1
  <2>6. usb' \in UsbStates
    <3>1. (usb.at # "idle") \in BOOLEAN
      OBVIOUS
    <3>2. Frames(got, 0) \in [old : 0..Waiting + Payload, new : 0..Waiting + Payload]
      BY <2>1, ShapeParts, FramesMade
    <3>3. QED BY <2>5, <3>1, <3>2, ShapeParts, UsbStateMade
  <2>7. GotFits' /\ NothingGot'
    <3>1. Depth(usb'.got) = got /\ Depth(decoder') = kept /\ usb'.at = usb.at
      BY <2>1, <2>2, <2>5, ShapeParts, FramesMade
    <3>2. GotFits'
      BY <2>f, <3>1 DEF GotFits
    <3>3. NothingGot'
      BY <2>3, <2>5 DEF NothingGot
    <3>4. QED BY <3>2, <3>3
  <2>8. decoder' \in [old : 0..Waiting, new : 0..Waiting] /\ Depth(decoder') <= Waiting
    BY <2>1, <2>2, ShapeParts, FramesMade
  <2>9. QED BY <2>2, <2>4, <2>6, <2>7, <2>8 DEF UsbStates
<1>3. QED BY <1>1, <1>2 DEF Shape, TypeOK

LEMMA TakeFits ==
  ASSUME Shape, TakeRec
  PROVE  rec' \in [old : 0..RecLimit, new : 0..RecLimit] /\ Depth(rec') <= RecLimit
<1>1. rt.frames \in Nat
  <2>1. rt.frames \in Requests \union {0}
    BY DEF Shape, TypeOK
  <2>2. QED BY <2>1, RequestsAreNumbers
<1>2. /\ rec' \in [old : Nat, new : Nat]
      /\ rec'.old <= rec.old /\ rec'.new <= rec.new
      /\ Depth(rec') = Less(Depth(rec), rt.frames)
  BY <1>1, ShapeParts, WithoutOldestShrinks DEF TakeRec
<1>3. Depth(rec) \in Nat /\ Depth(rec) <= RecLimit /\ RecLimit \in Nat
  BY ShapeParts
<1> DEFINE n == rt.frames
           d == Depth(rec)
<1>4. Depth(rec') <= RecLimit
  <2>1. Less(d, n) \in Nat /\ Less(d, n) <= d
    <3>1. n \in Nat /\ d \in Nat
      BY <1>1, <1>3
    <3> HIDE DEF n, d
    <3>2. QED BY <3>1, LessIsANumber
  <2>2. Depth(rec') = Less(d, n)
    BY <1>2
  <2> HIDE DEF n, d
  <2>3. QED BY <1>3, <2>1, <2>2 DEF d
<1>5. rec'.old \in 0..RecLimit /\ rec'.new \in 0..RecLimit
  BY <1>2, <1>4, ShapeParts DEF Depth
<1>6. QED BY <1>2, <1>4, <1>5

LEMMA ShapeStep == Shape /\ [Next]_vars => Shape'
<1> SUFFICES ASSUME Shape, [Next]_vars PROVE Shape'
  OBVIOUS
<1>t. TypeOK /\ GotFits /\ NothingGot
  BY DEF Shape
<1> USE CaptureAssumption
<1>1. CASE Usb
  <2>1. CASE BulkIn
    <3>1. /\ usb' = [at |-> "decode", got |-> Frames(0, 0), late |-> FALSE]
          /\ decoder' = decoder
      BY <2>1 DEF BulkIn, UsbIdle
    <3>m. /\ Frames(0, 0) \in [old : 0..Waiting + Payload, new : 0..Waiting + Payload]
          /\ Depth(Frames(0, 0)) = 0
      BY ShapeParts, FramesMade
    <3>2. GotFits' /\ NothingGot'
      BY <3>1, <3>m, ShapeParts DEF GotFits, NothingGot
    <3>3. usb' \in UsbStates
      <4>1. FALSE \in BOOLEAN
        OBVIOUS
      <4>2. QED BY <3>1, <3>m, <4>1, UsbStateMade
    <3>4. QED BY <1>t, <2>1, <3>2, <3>3 DEF BulkIn, OnlyUsb, Shape, TypeOK, UsbStates
  <2>2. ASSUME NEW out \in Outputs, NEW kept \in Keepable, Decode(out, kept) PROVE Shape'
    <3>1. /\ usb.at = "decode" /\ decoder' = kept
          /\ usb' = [usb EXCEPT !.at = "push", !.got = out]
          /\ Depth(out) + Depth(kept) <= Depth(decoder) + Payload
      BY <2>2 DEF Decode
    <3>2. usb' = [at |-> "push", got |-> out, late |-> usb.late]
      <4>1. usb = [at |-> usb.at, got |-> usb.got, late |-> usb.late]
        BY <1>t, UsbStateParts DEF TypeOK, UsbStates
      <4>2. QED BY <3>1, <4>1
    <3>3. usb' \in UsbStates
      BY <3>2, ShapeParts, UsbStateMade DEF Outputs
    <3>4. GotFits' /\ NothingGot'
      <4>1. Depth(out) \in Nat /\ Depth(kept) \in Nat
        BY ShapeParts DEF Outputs, Keepable, Depth
      <4>2. Depth(out) + Depth(kept) <= Payload + Waiting
        BY <3>1, <4>1, ShapeParts
      <4>3. QED BY <3>1, <3>2, <4>2 DEF GotFits, NothingGot
    <3>5. decoder' \in [old : 0..Waiting, new : 0..Waiting] /\ Depth(decoder') <= Waiting
      BY <3>1 DEF Keepable
    <3>6. QED BY <1>t, <2>2, <3>3, <3>4, <3>5 DEF Decode, OnlyUsb, Shape, TypeOK, UsbStates
  <2>3. CASE PushRec
    <3> DEFINE q == Frames(rec.old + usb.got.old, rec.new + usb.got.new)
    <3>1. q.old \in Nat /\ q.new \in Nat
      BY ShapeParts DEF Frames
    <3>2. rec' = Capped(q)
      BY <2>3 DEF PushRec
    <3> HIDE DEF q
    <3>3. rec' \in [old : 0..RecLimit, new : 0..RecLimit] /\ Depth(rec') <= RecLimit
      BY <3>1, <3>2, CappedFits
    <3>4. /\ usb' = [at |-> "idle", got |-> Frames(0, 0), late |-> FALSE]
          /\ decoder' = decoder
      BY <2>3 DEF PushRec, UsbIdle
    <3>m. /\ Frames(0, 0) \in [old : 0..Waiting + Payload, new : 0..Waiting + Payload]
          /\ Depth(Frames(0, 0)) = 0
      BY ShapeParts, FramesMade
    <3>5. GotFits' /\ NothingGot'
      BY <3>4, <3>m, ShapeParts DEF GotFits, NothingGot
    <3>6. usb' \in UsbStates
      <4>1. FALSE \in BOOLEAN
        OBVIOUS
      <4>2. QED BY <3>4, <3>m, <4>1, UsbStateMade
    <3>7. QED BY <1>t, <2>3, <3>3, <3>5, <3>6 DEF PushRec, OnlyUsb, Shape, TypeOK, UsbStates
  <2>4. QED BY <1>1, <2>1, <2>2, <2>3 DEF Usb
<1>2. CASE RtStep
  <2> USE <1>t DEF OnlyRt, RtAt, Shape, TypeOK, GotFits, NothingGot
  <2>1. CASE TestPrimed
    BY <2>1 DEF TestPrimed
  <2>2. CASE TestDepth
    BY <2>2 DEF TestDepth
  <2>3. CASE StorePrimed
    BY <2>3 DEF StorePrimed, RtIdle
  <2>4. CASE TakeRec
    <3>3. rec' \in [old : 0..RecLimit, new : 0..RecLimit] /\ Depth(rec') <= RecLimit
      BY <2>4, TakeFits
    <3>4. QED BY <2>4, <3>3 DEF TakeRec, RtIdle
  <2>5. QED BY <1>2, <2>1, <2>2, <2>3, <2>4 DEF RtStep
<1>3. ASSUME NEW n \in Requests, Request(n) PROVE Shape'
  BY <1>t, <1>3 DEF Request, OnlyRt, Larger, Shape, TypeOK, GotFits, NothingGot
<1>4. CASE Loop
  <2> USE <1>t DEF OnlyLoop, LoopAt, Shape, TypeOK, GotFits, NothingGot
  <2>1. CASE FollowOff
    BY <2>1, SwitchOffShape DEF FollowOff
  <2>2. CASE FollowOn
    BY <2>2 DEF FollowOn
  <2>3. CASE ResetAlign
    <3>1. /\ Frames(0, 0) \in [old : 0..Waiting, new : 0..Waiting]
          /\ Depth(Frames(0, 0)) = 0
      BY ShapeParts, FramesMade
    <3>2. decoder' \in [old : 0..Waiting, new : 0..Waiting] /\ Depth(decoder') = 0
      BY <2>3, <3>1 DEF ResetAlign
    <3>3. GotFits'
      BY <2>3, <3>2, ShapeParts DEF ResetAlign
    <3>4. QED BY <2>3, <3>2, <3>3, ShapeParts DEF ResetAlign
  <2>4. CASE ArmUnprime
    BY <2>4 DEF ArmUnprime
  <2>5. CASE ArmDrain
    BY <2>5 DEF ArmDrain, Frames, Depth
  <2>6. CASE SwitchOn
    BY <2>6 DEF SwitchOn
  <2>7. CASE RunEnds
    BY <2>7, SwitchOffShape DEF RunEnds
  <2>8. QED BY <1>4, <2>1, <2>2, <2>3, <2>4, <2>5, <2>6, <2>7 DEF Loop
<1>5. CASE LinkEvent
  BY <1>t, <1>5 DEF LinkEvent, OnlyLoop, LoopAt, Shape, TypeOK, GotFits, NothingGot
<1>6. CASE SourceStops
  BY <1>t, <1>6, SwitchOffShape DEF SourceStops, OnlyLoop, LoopAt, Shape, TypeOK
<1>7. CASE SourceStarts
  BY <1>t, <1>7 DEF SourceStarts, OnlyLoop, LoopAt, Shape, TypeOK, GotFits, NothingGot
<1>8. CASE Around
  <2>1. listener' \in BOOLEAN /\ alive' \in BOOLEAN
    BY <1>t, <1>8 DEF Around, TypeOK
  <2>2. QED BY <1>t, <1>8, <2>1 DEF Around, Shape, TypeOK, GotFits, NothingGot
<1>9. CASE UNCHANGED vars
  BY <1>t, <1>9 DEF vars, Shape, TypeOK, GotFits, NothingGot
<1>10. QED BY <1>1, <1>2, <1>3, <1>4, <1>5, <1>6, <1>7, <1>8, <1>9 DEF Next

LEMMA InitShape == Init => Shape
<1> SUFFICES ASSUME Init PROVE Shape
  OBVIOUS
<1>1. RecLimit \in Nat /\ Payload \in Nat /\ Waiting \in Nat /\ Waiting + Payload \in Nat
  BY CaptureAssumption
<1>2. rec \in [old : 0..RecLimit, new : 0..RecLimit] /\ Depth(rec) <= RecLimit
  BY <1>1 DEF Init, Frames, Depth
<1>3. usb \in UsbStates
  <2>1. Frames(0, 0) \in [old : 0..Waiting + Payload, new : 0..Waiting + Payload]
    BY <1>1, FramesMade
  <2>2. FALSE \in BOOLEAN
    OBVIOUS
  <2>3. QED BY <2>1, <2>2, UsbStateMade DEF Init, UsbIdle
<1>4. GotFits /\ NothingGot
  BY <1>1 DEF Init, UsbIdle, GotFits, NothingGot, Depth, Frames
<1>d. decoder \in [old : 0..Waiting, new : 0..Waiting] /\ Depth(decoder) <= Waiting
  BY <1>1 DEF Init, Frames, Depth
<1>5. rt \in [at : {"idle", "primed", "depth", "full", "short", "take"},
             frames : Requests \union {0}]
  BY DEF Init, RtIdle
<1>6. QED BY <1>2, <1>3, <1>4, <1>5, <1>d DEF Init, Shape, TypeOK, UsbStates

LEMMA AlwaysInShape == Spec => []Shape
  BY InitShape, ShapeStep, PTL DEF Spec

(* Every state of the capture side is one of those TypeOK names: REC never holds
   more than REC_LIMIT, whatever is decoded and whenever it is pushed. *)
THEOREM TypeCorrect == Spec => []TypeOK
<1>1. Shape => TypeOK
  BY DEF Shape
<1>2. QED BY <1>1, AlwaysInShape, PTL

-----------------------------------------------------------------------------
(* What is stale: in the queue, on its way there, in the decoder, and what a late
   callback may yet decode. *)
Due == IF usb.at = "decode" /\ usb.late THEN Payload ELSE 0
InHand == usb.got.old + decoder.old + Due
Stale == rec.old + InHand

(* The loop arms while REC_ON is down. *)
OffWhileArming == loop \in {"reset", "unprime", "drain", "on"} => ~recOn

StaleIsBounded == recOn \/ loop = "on" => Stale <= Payload + Waiting

Fresh == OffWhileArming /\ StaleIsBounded

(* Outside of the queue there is never more than one callback made, or can make. *)
LEMMA StaleIsANumber ==
  ASSUME Shape
  PROVE  /\ Due \in Nat /\ InHand \in Nat /\ Stale \in Nat
         /\ InHand <= Payload + Waiting
         /\ usb.at # "push" => usb.got.old = 0
<1>1. Due \in Nat /\ Due <= Payload /\ (usb.at # "decode" => Due = 0)
  BY ShapeParts DEF Due
<1>2. usb.at # "push" => usb.got.old = 0
  BY DEF Shape, NothingGot, Frames
<1>3. usb.got.old <= Depth(usb.got) /\ decoder.old <= Depth(decoder)
  BY ShapeParts DEF Depth
<1>4. Depth(usb.got) + Depth(decoder) <= Payload + Waiting
  BY DEF Shape, GotFits
<1>5. InHand \in Nat /\ InHand <= Payload + Waiting
  BY <1>1, <1>2, <1>3, <1>4, ShapeParts DEF InHand
<1>6. QED BY <1>1, <1>2, <1>5, ShapeParts DEF Stale

(* A payload that is decoded makes no more that is stale than was due of it. *)
LEMMA DecodeKeepsStale ==
  ASSUME Shape, NEW out \in Outputs, NEW kept \in Keepable, Decode(out, kept)
  PROVE  Stale' \in Nat /\ Stale' <= Stale
<1>1. /\ usb.at = "decode" /\ rec' = rec /\ decoder' = kept
      /\ usb' = [usb EXCEPT !.at = "push", !.got = out]
      /\ out.old + kept.old <= decoder.old + Due
  BY DEF Decode, Due
<1>2. usb'.at = "push" /\ usb'.got = out
  <2>1. usb = [at |-> usb.at, got |-> usb.got, late |-> usb.late]
    BY UsbStateParts DEF Shape, TypeOK, UsbStates
  <2>2. usb' = [at |-> "push", got |-> out, late |-> usb.late]
    BY <1>1, <2>1
  <2>3. QED BY <2>2
<1>3. out.old \in Nat /\ kept.old \in Nat
  BY ShapeParts DEF Outputs, Keepable
<1>4. usb.got.old = 0 /\ Due' = 0
  BY <1>1, <1>2, StaleIsANumber DEF Due
<1>5. Stale' = rec.old + out.old + kept.old /\ Stale = rec.old + decoder.old + Due
  BY <1>1, <1>2, <1>3, <1>4, ShapeParts, StaleIsANumber DEF Stale, InHand
<1>6. QED BY <1>1, <1>3, <1>5, ShapeParts, StaleIsANumber

LEMMA PushKeepsStale ==
  ASSUME Shape, PushRec
  PROVE  Stale' \in Nat /\ Stale' <= Stale
<1> DEFINE q == Frames(rec.old + usb.got.old, rec.new + usb.got.new)
<1>1. q.old = rec.old + usb.got.old /\ q.old \in Nat /\ q.new \in Nat
  BY ShapeParts DEF Frames
<1>2. rec' = Capped(q) /\ decoder' = decoder /\ usb.at = "push"
      /\ usb' = [at |-> "idle", got |-> [old |-> 0, new |-> 0], late |-> FALSE]
  BY DEF PushRec, UsbIdle, Frames
<1> HIDE DEF q
<1>3. rec'.old \in Nat /\ rec'.old <= q.old
  BY <1>1, <1>2, CappedFits
<1>4. Due' = Due /\ usb'.got.old = 0
  BY <1>2 DEF Due
<1>5. QED BY <1>1, <1>2, <1>3, <1>4, StaleIsANumber, ShapeParts DEF Stale, InHand

LEMMA TakeKeepsStale ==
  ASSUME Shape, TakeRec
  PROVE  Stale' \in Nat /\ Stale' <= Stale
<1>1. rt.frames \in Nat
  <2>1. rt.frames \in Requests \union {0}
    BY DEF Shape, TypeOK
  <2>2. QED BY <2>1, RequestsAreNumbers
<1>2. rec'.old \in Nat /\ rec'.old <= rec.old
  BY <1>1, ShapeParts, WithoutOldestShrinks DEF TakeRec
<1>3. InHand' = InHand
  BY DEF TakeRec, OnlyRt, Due, InHand
<1>4. QED BY <1>2, <1>3, StaleIsANumber, ShapeParts DEF Stale

LEMMA FreshStep == Shape /\ Fresh /\ [Next]_vars => Fresh'
<1> SUFFICES ASSUME Shape, Fresh, [Next]_vars PROVE Fresh'
  OBVIOUS
<1>n. Stale \in Nat /\ Payload \in Nat /\ Waiting \in Nat
  BY StaleIsANumber, ShapeParts
<1>s. ASSUME UNCHANGED <<rec, usb, decoder>> PROVE Stale' = Stale
  BY <1>s DEF Stale, InHand, Due
<1> USE DEF Fresh, OffWhileArming, StaleIsBounded
<1>1. CASE Usb
  <2>1. CASE BulkIn
    <3>1. usb' = [at |-> "decode", got |-> [old |-> 0, new |-> 0], late |-> FALSE]
      BY <2>1 DEF BulkIn, UsbIdle, Frames
    <3>2. Stale' = Stale
      BY <2>1, <3>1, StaleIsANumber, ShapeParts DEF BulkIn, Stale, InHand, Due
    <3>3. QED BY <2>1, <3>2 DEF BulkIn, OnlyUsb
  <2>2. ASSUME NEW out \in Outputs, NEW kept \in Keepable, Decode(out, kept) PROVE Fresh'
    <3>1. Stale' \in Nat /\ Stale' <= Stale
      BY <2>2, DecodeKeepsStale
    <3>2. QED BY <1>n, <2>2, <3>1 DEF Decode, OnlyUsb
  <2>3. CASE PushRec
    <3>1. Stale' \in Nat /\ Stale' <= Stale
      BY <2>3, PushKeepsStale
    <3>2. QED BY <1>n, <2>3, <3>1 DEF PushRec, OnlyUsb
  <2>4. QED BY <1>1, <2>1, <2>2, <2>3 DEF Usb
<1>2. CASE RtStep
  <2> USE DEF OnlyRt
  <2>1. CASE TestPrimed
    BY <1>s, <2>1 DEF TestPrimed
  <2>2. CASE TestDepth
    BY <1>s, <2>2 DEF TestDepth
  <2>3. CASE StorePrimed
    BY <1>s, <2>3 DEF StorePrimed
  <2>4. CASE TakeRec
    <3>1. Stale' \in Nat /\ Stale' <= Stale
      BY <2>4, TakeKeepsStale
    <3>2. QED BY <1>n, <2>4, <3>1 DEF TakeRec
  <2>5. QED BY <1>2, <2>1, <2>2, <2>3, <2>4 DEF RtStep
<1>3. ASSUME NEW n \in Requests, Request(n) PROVE Fresh'
  BY <1>s, <1>3 DEF Request, OnlyRt
<1>4. CASE Loop
  <2> USE DEF LoopAt
  <2>1. CASE FollowOff
    BY <2>1, SwitchOffShape DEF FollowOff
  <2>2. CASE FollowOn
    BY <2>2 DEF FollowOn
  <2>3. CASE ResetAlign
    BY <2>3 DEF ResetAlign
  <2>4. CASE ArmUnprime
    BY <2>4 DEF ArmUnprime
  <2>5. CASE ArmDrain
    <3>1. rec'.old = 0 /\ usb' = usb /\ decoder' = decoder /\ recOn' = recOn
      BY <2>5 DEF ArmDrain, Frames
    <3>2. Stale' = InHand
      BY <3>1, StaleIsANumber, ShapeParts DEF Stale, InHand, Due
    <3>3. InHand <= Payload + Waiting
      BY StaleIsANumber
    <3>4. QED BY <2>5, <3>1, <3>2, <3>3 DEF ArmDrain
  <2>6. CASE SwitchOn
    BY <1>s, <2>6 DEF SwitchOn
  <2>7. CASE RunEnds
    BY <2>7, SwitchOffShape DEF RunEnds
  <2>8. QED BY <1>4, <2>1, <2>2, <2>3, <2>4, <2>5, <2>6, <2>7 DEF Loop
<1>5. CASE LinkEvent
  BY <1>s, <1>5 DEF LinkEvent, LoopAt
<1>6. CASE SourceStops
  BY <1>6, SwitchOffShape DEF SourceStops, LoopAt
<1>7. CASE SourceStarts
  BY <1>s, <1>7 DEF SourceStarts, LoopAt
<1>8. CASE Around
  BY <1>s, <1>8 DEF Around
<1>9. CASE UNCHANGED vars
  BY <1>s, <1>9 DEF vars
<1>10. QED BY <1>1, <1>2, <1>3, <1>4, <1>5, <1>6, <1>7, <1>8, <1>9 DEF Next

(* A recording that was armed has no more of the last one in it than one callback
   made, of its payload and what the decoder kept, however long it was under way. *)
THEOREM RecordingsAreFresh == Spec => []ArmedIsFresh
<1>1. Init => Fresh
  BY DEF Init, Fresh, OffWhileArming, StaleIsBounded
<1>2. Shape /\ Fresh => ArmedIsFresh
  BY StaleIsANumber, ShapeParts
     DEF Fresh, StaleIsBounded, ArmedIsFresh, Stale, InHand
<1>3. QED BY <1>1, <1>2, AlwaysInShape, FreshStep, PTL DEF Spec

-----------------------------------------------------------------------------
(* decode_i2s.  Its types, and what a phase is worth: while one is held, less than
   a frame is left over. *)
DecoderTyped ==
  /\ locked \in BOOLEAN /\ start \in {0, 1} /\ next \in Nat /\ losses \in Nat
  /\ units \in Seq({0, 1})
  /\ locked => Len(units) < FrameUnits

(* What is left of some units after their whole frames. *)
LEMMA Divided ==
  ASSUME NEW m \in Nat
  PROVE  /\ m \div FrameUnits \in Nat
         /\ FrameUnits * (m \div FrameUnits) <= m
         /\ m < FrameUnits * (m \div FrameUnits) + FrameUnits
BY DEF FrameUnits, Slot

(* A set of numbers that has one has a least one. *)
LEMMA LeastIs ==
  ASSUME NEW S, S \subseteq Nat, S # {}
  PROVE  Least(S) \in S /\ \A a \in S : Least(S) <= a
<1> DEFINE R == OpToRel(<, Nat)
<1>1. \A i, j \in Nat : <<i, j>> \in R <=> i < j
  BY DEF OpToRel
<1>2. IsWellFoundedOn(R, Nat)
  BY NatLessThanWellFounded
<1> HIDE DEF R
<1>3. PICK x \in S : \A y \in S : ~(<<y, x>> \in R)
  BY <1>2, WFMin
<1>4. ASSUME NEW y \in S PROVE x <= y
  <2>1. x \in Nat /\ y \in Nat
    OBVIOUS
  <2>2. ~(y < x)
    BY <1>1, <1>3, <2>1
  <2>3. QED BY <2>1, <2>2
<1>5. QED BY <1>3, <1>4 DEF Least

(* What is left when the first k units are drained. *)
LEMMA DrainIs ==
  ASSUME NEW us \in Seq({0, 1}), NEW k \in 0..Len(us)
  PROVE  /\ Drain(us, k) \in Seq({0, 1}) /\ Len(Drain(us, k)) = Len(us) - k
         /\ \A i \in 1..Len(us) - k : Drain(us, k)[i] = us[k + i]
<1>1. \A i \in k + 1..Len(us) : us[i] \in {0, 1}
  OBVIOUS
<1>2. Len(us) \in Nat
  OBVIOUS
<1>3. /\ SubSeq(us, k + 1, Len(us)) \in Seq({0, 1})
      /\ Len(SubSeq(us, k + 1, Len(us))) = IF k + 1 <= Len(us) THEN Len(us) - (k + 1) + 1 ELSE 0
      /\ \A i \in 1..Len(us) - (k + 1) + 1 : SubSeq(us, k + 1, Len(us))[i] = us[k + 1 + i - 1]
  BY <1>1, <1>2, SubSeqProperties
<1> HIDE DEF Drain
<1>4. QED BY <1>2, <1>3 DEF Drain

(* The line: nothing in the odd bytes, and nothing in a pad. *)
LEMMA BitIs ==
  /\ \A sound, at : Byte(sound, at) \in {0, 1}
  /\ \A sound, at : at % 2 # 0 => Byte(sound, at) = 0
  /\ \A sound, at : (at \div 2) % Slot = 2 => Byte(sound, at) = 0
BY DEF Byte, Bit, Slot

LEMMA TwosAre ==
  ASSUME NEW n \in Nat, NEW offset \in {0, 1}
  PROVE  Twos(n, offset) \in Nat
BY DEF Twos

(* The units of a payload: one for each other byte. *)
LEMMA InTwosIs ==
  ASSUME NEW sound, NEW n \in Nat, NEW offset \in {0, 1}
  PROVE  /\ InTwos(sound, n, offset) \in Seq({0, 1})
         /\ Len(InTwos(sound, n, offset)) = Twos(n, offset)
         /\ \A i \in 1..Twos(n, offset) : InTwos(sound, n, offset)[i] = Nth(sound, offset, i)
<1> DEFINE k == Twos(n, offset)
<1>1. k \in Nat
  BY TwosAre
<1>2. \A i : Nth(sound, offset, i) \in {0, 1}
  BY BitIs DEF Nth
<1> HIDE DEF k
<1>3. InTwos(sound, n, offset) = [i \in 1..k |-> Nth(sound, offset, i)]
  BY DEF InTwos, k
<1> HIDE DEF Nth
<1>4. InTwos(sound, n, offset) \in Seq({0, 1})
  BY <1>1, <1>2, <1>3
<1>5. QED BY <1>1, <1>3, <1>4 DEF k

(* Whole frames with clear pads, some of those there are. *)
LEMMA CleanIs ==
  ASSUME NEW us \in Seq({0, 1})
  PROVE  /\ Clean(us) \in 0..Len(us)
         /\ (\A f \in 0..Whole(us) - 1 : PadsAreClear(us, f * FrameUnits))
              => Clean(us) = FrameUnits * Whole(us)
<1> DEFINE S == {Whole(us)} \union {f \in 0..Whole(us) - 1 : ~PadsAreClear(us, f * FrameUnits)}
<1>1. Len(us) \in Nat
  OBVIOUS
<1>2. Whole(us) \in Nat /\ FrameUnits * Whole(us) <= Len(us)
  BY <1>1, Divided DEF Whole
<1>3. S \subseteq Nat /\ Whole(us) \in S /\ S # {}
  BY <1>2
<1>4. Clean(us) = FrameUnits * Least(S)
  BY DEF Clean
<1>5. (\A f \in 0..Whole(us) - 1 : PadsAreClear(us, f * FrameUnits)) => S = {Whole(us)}
  OBVIOUS
<1> HIDE DEF S
<1>6. Least(S) \in Nat /\ Least(S) <= Whole(us) /\ Least(S) \in S
  BY <1>3, LeastIs
<1>7. Clean(us) \in 0..Len(us)
  BY <1>1, <1>2, <1>4, <1>6 DEF FrameUnits, Slot
<1>8. QED BY <1>4, <1>5, <1>6, <1>7

(* A phase that is found is among the units. *)
LEMMA PhasesAre ==
  ASSUME NEW us \in Seq({0, 1}), NEW p \in Phases(us)
  PROVE  p \in 0..Len(us)
<1>1. Fits(us) # {} /\ p = Least(Fits(us))
  BY DEF Phases
<1>2. Fits(us) \subseteq 0..FrameUnits - 1 /\ Whole(us) >= 4
  <2>1. Whole(us) \in Nat
    BY Divided DEF Whole
  <2>2. HuntFrames \in Nat
    BY DecoderAssumption
  <2>3. QED BY <1>1, <2>1, <2>2 DEF Fits
<1>3. p \in Fits(us)
  BY <1>1, <1>2, LeastIs DEF FrameUnits, Slot
<1>4. Len(us) \in Nat /\ FrameUnits * Whole(us) <= Len(us)
  BY Divided DEF Whole
<1>5. FrameUnits = 6
  BY DEF FrameUnits, Slot
<1>6. p \in 0..5
  BY <1>2, <1>3, <1>5
<1>7. Whole(us) \in Nat
  BY Divided DEF Whole
<1> HIDE DEF Whole
<1>8. QED BY <1>2, <1>4, <1>5, <1>6, <1>7

(* Decoding leaves less than a frame, or no phase. *)
LEMMA FramesOut ==
  ASSUME NEW us \in Seq({0, 1}), DecodeFrames(us)
  PROVE  /\ units' \in Seq({0, 1}) /\ locked' \in BOOLEAN
         /\ locked' => Len(units') < FrameUnits
         /\ units' = Drain(us, Clean(us)) /\ locked' = (Len(us) - Clean(us) < FrameUnits)
<1>1. units' = Drain(us, Clean(us)) /\ locked' = (Len(us) - Clean(us) < FrameUnits)
  BY DEF DecodeFrames
<1>2. Clean(us) \in 0..Len(us)
  BY CleanIs
<1>3. units' \in Seq({0, 1}) /\ Len(units') = Len(us) - Clean(us)
  BY <1>1, <1>2, DrainIs
<1>4. locked' \in BOOLEAN
  <2>1. (Len(us) - Clean(us) < FrameUnits) \in BOOLEAN
    OBVIOUS
  <2>2. QED BY <1>1, <2>1, Zenon
<1>5. locked' => Len(units') < FrameUnits
  BY <1>1, <1>3
<1>6. QED BY <1>1, <1>3, <1>4, <1>5, Zenon

(* Hunting only ever drops units. *)
LEMMA HuntTyped ==
  ASSUME NEW us \in Seq({0, 1}), Hunt(us)
  PROVE  units' \in Seq({0, 1})
<1>1. Len(us) \in Nat /\ FrameUnits * (Len(us) \div FrameUnits) \in 0..Len(us)
  BY Divided DEF FrameUnits, Slot
<1>2. MaxHunt \in Nat
  BY DecoderAssumption DEF MaxHunt, FrameUnits, Slot
<1>3. Len(us) > MaxHunt => Len(us) - MaxHunt \in 0..Len(us)
  BY <1>1, <1>2
<1> DEFINE whole == FrameUnits * (Len(us) \div FrameUnits)
<1>4. units' \in {Drain(us, whole), us} \/ (Len(us) > MaxHunt /\ units' = Drain(us, Len(us) - MaxHunt))
  BY DEF Hunt
<1> HIDE DEF whole, MaxHunt
<1>5. Drain(us, whole) \in Seq({0, 1})
  BY <1>1, DrainIs DEF whole
<1>6. QED BY <1>3, <1>4, <1>5, DrainIs

(* decode_i2s as a whole. *)
LEMMA DecodeTyped ==
  ASSUME DecoderTyped, NEW sound \in Sounds, NEW n \in Payloads, DecodeI2s(sound, n)
  PROVE  DecoderTyped'
<1> DEFINE wrong == WrongParity(sound, n)
           from == IF wrong THEN 1 - start ELSE start
           us == (IF wrong THEN <<>> ELSE units) \o InTwos(sound, n, from)
<1>1. n \in Nat /\ start \in {0, 1} /\ next \in Nat /\ losses \in Nat /\ units \in Seq({0, 1})
  BY DecoderAssumption DEF DecoderTyped
<1>2. from \in {0, 1}
  BY <1>1
<1>3. DecodeFrom(sound, n, wrong) /\ next' = (next + n) % (2 * FrameUnits) /\ losses' = losses
  BY DEF DecodeI2s
<1> HIDE DEF wrong
<1>4. InTwos(sound, n, from) \in Seq({0, 1})
  BY <1>1, <1>2, InTwosIs
<1>5. us \in Seq({0, 1})
  <2>1. (IF wrong THEN <<>> ELSE units) \in Seq({0, 1})
    BY <1>1
  <2> HIDE DEF from
  <2>2. QED BY <1>4, <2>1, ConcatProperties
<1>6. /\ start' = NextStart(n, from)
      /\ \/ DecodeFrames(us)
         \/ \E aligned \in {Drain(us, p) : p \in Phases(us)} : DecodeFrames(aligned)
         \/ locked' = FALSE /\ Hunt(us)
  BY <1>3 DEF DecodeFrom
<1>7. start' \in {0, 1}
  BY <1>1, <1>2, <1>6 DEF NextStart
<1>8. next' \in Nat
  BY <1>1, <1>3 DEF FrameUnits, Slot
<1> HIDE DEF us, from
<1>9. /\ units' \in Seq({0, 1}) /\ locked' \in BOOLEAN
      /\ locked' => Len(units') < FrameUnits
  <2>1. CASE DecodeFrames(us)
    BY <1>5, <2>1, FramesOut
  <2>2. CASE \E aligned \in {Drain(us, p) : p \in Phases(us)} : DecodeFrames(aligned)
    <3>1. PICK p \in Phases(us) : DecodeFrames(Drain(us, p))
      BY <2>2
    <3>2. Drain(us, p) \in Seq({0, 1})
      BY <1>5, PhasesAre, DrainIs
    <3>3. QED BY <3>1, <3>2, FramesOut
  <2>3. CASE locked' = FALSE /\ Hunt(us)
    BY <1>5, <2>3, HuntTyped
  <2>4. QED BY <1>6, <2>1, <2>2, <2>3
<1>10. QED BY <1>1, <1>3, <1>7, <1>8, <1>9 DEF DecoderTyped

LEMMA DecoderTypedInit == DecoderInit => DecoderTyped
<1> SUFFICES ASSUME DecoderInit PROVE DecoderTyped
  OBVIOUS
<1>1. locked = FALSE /\ units = <<>> /\ start = 0 /\ losses = 0
  BY DEF DecoderInit
<1>2. next \in Nat
  BY DEF DecoderInit, FrameUnits, Slot
<1>3. <<>> \in Seq({0, 1})
  OBVIOUS
<1>4. QED BY <1>1, <1>2, <1>3 DEF DecoderTyped

LEMMA DecoderTypedStep == DecoderTyped /\ [DecoderNext]_decoderVars => DecoderTyped'
<1> SUFFICES ASSUME DecoderTyped, [DecoderNext]_decoderVars PROVE DecoderTyped'
  OBVIOUS
<1>1. ASSUME NEW sound \in Sounds, NEW n \in Payloads, DecodeI2s(sound, n) PROVE DecoderTyped'
  BY <1>1, DecodeTyped
<1>2. ASSUME NEW n \in Lost, Lose(n) \/ Restart(n) PROVE DecoderTyped'
  <2>1. n \in Nat /\ next \in Nat /\ losses \in Nat
    BY DecoderAssumption DEF DecoderTyped
  <2>2. next' \in Nat /\ losses' \in Nat
    BY <1>2, <2>1 DEF Lose, Restart, FrameUnits, Slot
  <2>3. UNCHANGED <<locked, units, start>> \/ (locked' = FALSE /\ units' = <<>> /\ start' = 0)
    BY <1>2 DEF Lose, Restart
  <2>4. <<>> \in Seq({0, 1})
    OBVIOUS
  <2>5. CASE UNCHANGED <<locked, units, start>>
    BY <2>2, <2>5 DEF DecoderTyped
  <2>6. CASE locked' = FALSE /\ units' = <<>> /\ start' = 0
    BY <2>2, <2>4, <2>6 DEF DecoderTyped
  <2>7. QED BY <2>3, <2>5, <2>6
<1>3. CASE UNCHANGED decoderVars
  BY <1>3 DEF decoderVars, DecoderTyped
<1>4. QED BY <1>1, <1>2, <1>3 DEF DecoderNext, Play

-----------------------------------------------------------------------------
(* Where the line goes on after n bytes, counted in units: it is ahead by those
   the payload had, but for whole frames. *)
LEMMA LineGoesOn ==
  ASSUME NEW at \in Nat, NEW from \in {0, 1}, NEW n \in Nat, (at + from) % 2 = 0
  PROVE  /\ (((at + n) % (2 * FrameUnits)) + NextStart(n, from)) % 2 = 0
         /\ \E q \in Nat :
              (((at + n) % (2 * FrameUnits)) + NextStart(n, from)) \div 2
                = (at + from) \div 2 + Twos(n, from) - 6 * q
<1>1. 2 * FrameUnits = 12
  BY DEF FrameUnits, Slot
<1>2. PICK h \in Nat : at + from = 2 * h
  <2>1. (at + from) = 2 * ((at + from) \div 2) /\ (at + from) \div 2 \in Nat
    OBVIOUS
  <2>2. QED BY <2>1
<1>3. (at + from) \div 2 = h
  BY <1>2
<1>4. PICK t \in Nat : Twos(n, from) = t /\ (n + from) % 2 = 2 * t - n + from
  <2>1. CASE from = 0
    <3>1. (n + 1) \div 2 \in Nat /\ n % 2 = 2 * ((n + 1) \div 2) - n
      OBVIOUS
    <3>2. QED BY <2>1, <3>1 DEF Twos
  <2>2. CASE from = 1
    <3>1. n \div 2 \in Nat /\ (n + 1) % 2 = 2 * (n \div 2) - n + 1
      OBVIOUS
    <3>2. QED BY <2>2, <3>1 DEF Twos
  <2>3. QED BY <2>1, <2>2
<1>5. PICK q \in Nat : (at + n) % 12 = at + n - 12 * q
  <2>1. (at + n) \div 12 \in Nat /\ (at + n) % 12 = at + n - 12 * ((at + n) \div 12)
    OBVIOUS
  <2>2. QED BY <2>1
<1>6. ((at + n) % 12) + NextStart(n, from) = 2 * (h + t - 6 * q)
  BY <1>2, <1>4, <1>5 DEF NextStart
<1>7. h + t - 6 * q \in Int
  OBVIOUS
<1>8. \A x \in Int : (2 * x) % 2 = 0 /\ (2 * x) \div 2 = x
  OBVIOUS
<1>9. /\ (((at + n) % 12) + NextStart(n, from)) % 2 = 0
      /\ (((at + n) % 12) + NextStart(n, from)) \div 2 = h + t - 6 * q
  BY <1>6, <1>7, <1>8
<1>10. QED BY <1>1, <1>3, <1>4, <1>9

(* A payload more: the units it brings go on where those that wait end, so that
   every third one of them all is a pad; the whole frames come out, and what is
   left is cut as it was. *)
LEMMA KeepsStep ==
  ASSUME DecoderTyped, Aligned, NEW sound \in Sounds, NEW n \in Payloads, DecodeI2s(sound, n)
  PROVE  Aligned'
<1> DEFINE us == units \o InTwos(sound, n, start)
           l == Len(units)
           t == Twos(n, start)
           h == (next + start) \div 2
<1>1. /\ n \in Nat /\ start \in {0, 1} /\ next \in Nat /\ units \in Seq({0, 1})
      /\ l \in Nat /\ l < 6 /\ locked
  BY DecoderAssumption DEF DecoderTyped, Aligned, FrameUnits, Slot
<1>2. /\ (next + start) % 2 = 0 /\ (h - l) % 3 = 0 /\ (l >= 3 => units[3] = 0)
      /\ h \in Nat /\ next + start = 2 * h
  <2>1. (next + start) % 2 = 0 /\ (h - l) % 3 = 0 /\ (l >= 3 => units[3] = 0)
    BY DEF Aligned, Slot
  <2>2. h \in Nat /\ next + start = 2 * h
    BY <1>1, <2>1
  <2>3. QED BY <2>1, <2>2
(* The other bytes carry nothing. *)
<1>3. ~WrongParity(sound, n)
  <2>1. \A i \in Nat : Nth(sound, 1 - start, i) = 0
    <3> SUFFICES ASSUME NEW i \in Nat PROVE Nth(sound, 1 - start, i) = 0
      OBVIOUS
    <3>1. (next + (1 - start) + 2 * (i - 1)) % 2 # 0
      BY <1>1, <1>2
    <3>2. QED BY <3>1, BitIs DEF Nth
  <2>2. ~ReadsAsData(sound, n, 1 - start)
    <3>1. \A i \in 1..Twos(n, 1 - start) : i \in Nat
      OBVIOUS
    <3>2. QED BY <2>1, <3>1 DEF ReadsAsData
  <2>3. QED BY <2>2 DEF WrongParity
<1>4. /\ start' = NextStart(n, start) /\ DecodeFrames(us)
      /\ next' = (next + n) % (2 * FrameUnits)
  BY <1>1, <1>3 DEF DecodeI2s, DecodeFrom
<1>5. /\ InTwos(sound, n, start) \in Seq({0, 1}) /\ Len(InTwos(sound, n, start)) = t /\ t \in Nat
      /\ \A i \in 1..t : InTwos(sound, n, start)[i] = Nth(sound, start, i)
  BY <1>1, InTwosIs, TwosAre
<1>6. /\ us \in Seq({0, 1}) /\ Len(us) = l + t
      /\ \A i \in 1..l + t :
           us[i] = IF i <= l THEN units[i] ELSE InTwos(sound, n, start)[i - l]
  BY <1>1, <1>5, ConcatProperties, SMTT(30)
(* Every third unit is a pad. *)
<1>7. ASSUME NEW j \in Nat \ {0}, 3 * j <= l + t
      PROVE  us[3 * j] = 0
  <2>1. CASE 3 * j <= l
    <3>1. j = 1 /\ l >= 3
      BY <1>1, <2>1
    <3>2. us[3] = units[3]
      BY <1>1, <1>5, <1>6, <3>1
    <3>3. QED BY <1>2, <3>1, <3>2
  <2>2. CASE ~(3 * j <= l)
    <3> DEFINE i == 3 * j - l
    <3>1. i \in 1..t
      BY <1>1, <1>5, <1>7, <2>2
    <3>2. us[3 * j] = Nth(sound, start, i)
      <4>1. 3 * j \in 1..l + t /\ ~(3 * j <= l)
        BY <1>1, <1>5, <1>7, <2>2
      <4>2. us[3 * j] = InTwos(sound, n, start)[3 * j - l]
        BY <1>6, <4>1
      <4>3. QED BY <1>5, <3>1, <4>2
    <3>3. ((next + start + 2 * (i - 1)) \div 2) % Slot = 2
      <4>1. next + start + 2 * (i - 1) = 2 * (h + i - 1) /\ h + i - 1 \in Nat
        BY <1>2, <3>1
      <4>2. (next + start + 2 * (i - 1)) \div 2 = h + i - 1
        BY <4>1
      <4>3. h + i - 1 = (h - l) + 3 * j - 1
        BY <1>1, <1>2
      <4>4. ((h - l) + 3 * j - 1) % 3 = 2
        BY <1>1, <1>2
      <4>5. QED BY <4>2, <4>3, <4>4 DEF Slot
    <3>4. QED BY <3>2, <3>3, BitIs DEF Nth
  <2>3. QED BY <2>1, <2>2
<1> HIDE DEF us, l, t, h
<1>8. Len(us) \in Nat /\ Whole(us) \in Nat /\ 6 * Whole(us) <= Len(us)
      /\ Len(us) < 6 * Whole(us) + 6
  BY <1>1, <1>5, <1>6, Divided DEF Whole, FrameUnits, Slot
<1>9. Clean(us) = 6 * Whole(us)
  <2>1. \A f \in 0..Whole(us) - 1 : PadsAreClear(us, f * FrameUnits)
    <3> SUFFICES ASSUME NEW f \in 0..Whole(us) - 1 PROVE PadsAreClear(us, f * FrameUnits)
      OBVIOUS
    <3>1. f * FrameUnits + Slot = 3 * (2 * f + 1) /\ f * FrameUnits + 2 * Slot = 3 * (2 * f + 2)
      BY DEF FrameUnits, Slot
    <3>2. 3 * (2 * f + 1) <= l + t /\ 3 * (2 * f + 2) <= l + t
      BY <1>6, <1>8
    <3>3. 2 * f + 1 \in Nat \ {0} /\ 2 * f + 2 \in Nat \ {0}
      BY <1>8
    <3>4. us[3 * (2 * f + 1)] = 0 /\ us[3 * (2 * f + 2)] = 0
      BY <1>7, <3>2, <3>3, Zenon
    <3>5. QED BY <3>1, <3>4 DEF PadsAreClear
  <2>2. QED BY <1>6, <2>1, CleanIs DEF FrameUnits, Slot
<1>10. /\ units' = Drain(us, Clean(us)) /\ locked' = (Len(us) - Clean(us) < FrameUnits)
  BY <1>4, <1>6, FramesOut
<1>11. locked'
  <2>1. Len(us) - Clean(us) < FrameUnits
    BY <1>8, <1>9 DEF FrameUnits, Slot
  <2>2. QED BY <1>10, <2>1, Zenon
<1>12. /\ Len(units') = l + t - 6 * Whole(us)
       /\ \A i \in 1..Len(units') : units'[i] = us[6 * Whole(us) + i]
  <2>1. Clean(us) \in 0..Len(us)
    BY <1>8, <1>9
  <2>2. /\ Len(units') = Len(us) - Clean(us)
        /\ \A i \in 1..Len(us) - Clean(us) : units'[i] = us[Clean(us) + i]
    BY <1>6, <1>10, <2>1, DrainIs
  <2>3. Len(us) - Clean(us) = l + t - 6 * Whole(us)
    <3>1. Len(us) = l + t
      BY <1>6
    <3>2. l \in Nat /\ t \in Nat /\ Whole(us) \in Nat
      BY <1>1, <1>5, <1>8
    <3>3. \A a, b, w \in Nat : (a + b) - 6 * w = a + b - 6 * w
      OBVIOUS
    <3>4. (l + t) - 6 * Whole(us) = l + t - 6 * Whole(us)
      BY <3>2, <3>3
    <3>5. QED BY <1>9, <3>1, <3>4, Zenon
  <2>4. QED BY <1>9, <2>2, <2>3, Zenon
<1>13. Len(units') >= Slot => units'[Slot] = 0
  <2> SUFFICES ASSUME Len(units') >= 3 PROVE units'[3] = 0
    BY DEF Slot
  <2>1. 6 * Whole(us) + 3 = 3 * (2 * Whole(us) + 1) /\ 6 * Whole(us) + 3 <= l + t
    BY <1>1, <1>5, <1>8, <1>12, SMTT(30)
  <2>2. us[3 * (2 * Whole(us) + 1)] = 0
    <3>1. 2 * Whole(us) + 1 \in Nat \ {0} /\ 3 * (2 * Whole(us) + 1) <= l + t
      BY <1>8, <2>1
    <3>2. QED BY <1>7, <3>1, Zenon
  <2>3. 3 \in 1..Len(units')
    BY <1>1, <1>5, <1>8, <1>12
  <2>4. QED BY <1>12, <2>1, <2>2, <2>3
<1>14. PICK q \in Nat : /\ (next' + start') % 2 = 0
                        /\ (next' + start') \div 2 = h + t - 6 * q
  <2>1. \E q \in Nat :
          /\ (((next + n) % (2 * FrameUnits)) + NextStart(n, start)) % 2 = 0
          /\ (((next + n) % (2 * FrameUnits)) + NextStart(n, start)) \div 2
               = (next + start) \div 2 + Twos(n, start) - 6 * q
    <3>1. start \in {0, 1} /\ next \in Nat /\ n \in Nat /\ (next + start) % 2 = 0
      BY <1>1, <1>2
    <3>2. /\ (((next + n) % (2 * FrameUnits)) + NextStart(n, start)) % 2 = 0
          /\ \E q \in Nat :
               (((next + n) % (2 * FrameUnits)) + NextStart(n, start)) \div 2
                 = (next + start) \div 2 + Twos(n, start) - 6 * q
      BY <3>1, LineGoesOn, Zenon
    <3>3. QED BY <3>2, Zenon
  <2>2. QED BY <1>4, <2>1, Zenon DEF h, t
<1>15. ((next' + start') \div 2 - Len(units')) % Slot = 0
  <2>1. (next' + start') \div 2 - Len(units') = (h - l) + 3 * (2 * Whole(us) - 2 * q)
    <3> DEFINE x == (next' + start') \div 2
               m == Len(units')
    <3>1. x = h + t - 6 * q /\ m = l + t - 6 * Whole(us)
      BY <1>12, <1>14
    <3> HIDE DEF x, m
    <3>2. l \in Nat /\ t \in Nat /\ h \in Nat /\ Whole(us) \in Nat
      BY <1>1, <1>2, <1>5, <1>8
    <3>3. \A a, b, c, w, p \in Nat :
            (c + b - 6 * p) - (a + b - 6 * w) = (c - a) + 3 * (2 * w - 2 * p)
      OBVIOUS
    <3>4. x - m = (h - l) + 3 * (2 * Whole(us) - 2 * q)
      BY <3>1, <3>2, <3>3
    <3>5. QED BY <3>4 DEF x, m
  <2>2. \A a, b \in Int : a % 3 = 0 => (a + 3 * b) % 3 = 0
    OBVIOUS
  <2>3. h - l \in Int /\ 2 * Whole(us) - 2 * q \in Int
    BY <1>1, <1>2, <1>8
  <2>4. QED BY <1>2, <2>1, <2>2, <2>3 DEF Slot
<1>16. QED BY <1>11, <1>13, <1>14, <1>15 DEF Aligned

(* Whatever is played and lost, and however hunting went: the decoder's state keeps
   its types, and a phase that is held leaves less than a frame over. *)
THEOREM DecoderTypedAlways == DecoderSpec => []DecoderTyped
BY DecoderTypedInit, DecoderTypedStep, PTL DEF DecoderSpec

(* "So it never has to be found again": as long as the line is read without a gap,
   payloads of any lengths and any sound never cost decode_i2s its phase. *)
THEOREM KeepsPhaseAlways == DecoderSpec => KeepsPhase
<1>1. DecoderTyped /\ [DecoderNext]_decoderVars => DecoderTyped'
  BY DecoderTypedStep
<1>2. DecoderTyped /\ [DecoderNext]_decoderVars
        => [Aligned /\ losses' = losses => Aligned']_decoderVars
  <2> SUFFICES ASSUME DecoderTyped, [DecoderNext]_decoderVars, Aligned,
                      losses' = losses, ~UNCHANGED decoderVars
               PROVE  Aligned'
    OBVIOUS
  <2>1. ~\E n \in Lost : Lose(n) \/ Restart(n)
    <3>1. losses \in Nat
      BY DEF DecoderTyped
    <3>2. QED BY <3>1 DEF Lose, Restart
  <2>2. PICK sound \in Sounds, n \in Payloads : DecodeI2s(sound, n)
    BY <2>1 DEF DecoderNext, Play
  <2>3. QED BY <2>2, KeepsStep
<1>3. QED BY <1>1, <1>2, DecoderTypedInit, PTL DEF DecoderSpec, KeepsPhase
=============================================================================
