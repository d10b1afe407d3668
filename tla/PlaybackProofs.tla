--------------------------- MODULE PlaybackProofs ---------------------------
(***************************************************************************)
(* Playback for every size of queue, delivery and transfer: PLAY_ON goes   *)
(* on only over a queue that has its target in it, and is down when spawn  *)
(* is done.                                                                *)
(***************************************************************************)
EXTENDS Playback, TLAPS

(* A data thread between two cycles, or a stream that is not streaming, is at
   rest: `play` is only ever called by a stream that is. *)
RestsWhileStopped == ~streaming => rt.at = "idle"

(* state_changed is half done only on a stopped stream that was silenced. *)
ForgetsInSilence == loop = "forget" => ~streaming /\ ~playOn

(* What switched PLAY_ON off other than the sink itself is remembered. *)
RemembersWho == loop \in {"clear", "unwind", "dropped", "over"} => ~restarted

(* No callback of before is left once a sink fills up again. *)
NobodyTakes == restarted /\ ~playOn /\ streaming => pump = "idle"

(* The queue the data thread has found full is full until it says so. *)
StaysFull == rt.at = "raise" /\ restarted /\ ~playOn => queued >= Target(burst)

(* The way out: streams first, and then the flag for good. *)
StreamsAreGone == loop \in {"dropped", "over"} => ~streaming

Primed ==
  /\ RestsWhileStopped /\ ForgetsInSilence /\ RemembersWho
  /\ NobodyTakes /\ StaysFull
  /\ StreamsAreGone /\ SilentWhenOver

LEMMA SizesAreNumbers == \A n \in Quanta \union {0} : n \in Nat
  BY PlaybackAssumption

LEMMA TypeStep == TypeOK /\ [Next]_vars => TypeOK'
<1> SUFFICES ASSUME TypeOK, [Next]_vars PROVE TypeOK'
  OBVIOUS
<1> USE PlaybackAssumption DEF TypeOK
<1>1. CASE Rt
  <2>1. ASSUME NEW n \in Quanta, Deliver(n) PROVE TypeOK'
    BY <2>1 DEF Deliver, OnlyRt, Larger
  <2>2. CASE DeliverNothing
    BY <2>2 DEF DeliverNothing, RtAt, OnlyRt
  <2>3. CASE Push
    <3> DEFINE deep == queued + rt.frames
    <3>1. deep \in Nat
      <4>1. rt.frames \in Quanta \union {0}
        OBVIOUS
      <4>2. rt.frames \in Nat
        BY <4>1, SizesAreNumbers
      <4>3. QED BY <4>2
    <3>2. \A a \in Nat : Smaller(a, PlayLimit) \in 0..PlayLimit
      BY DEF Smaller
    <3>3. queued' \in 0..PlayLimit
      <4>1. queued' = Smaller(deep, PlayLimit)
        BY <2>3 DEF Push
      <4> HIDE DEF deep
      <4>2. QED BY <3>1, <3>2, <4>1
    <3>4. QED BY <2>3, <3>3 DEF Push, RtAt, OnlyRt
  <2>4. CASE TestOn
    BY <2>4 DEF TestOn, RtAt, OnlyRt
  <2>5. CASE TestDepth
    BY <2>5 DEF TestDepth, RtAt, OnlyRt
  <2>6. CASE Raise
    BY <2>6 DEF Raise, RtAt, OnlyRt
  <2>7. QED BY <1>1, <2>1, <2>2, <2>3, <2>4, <2>5, <2>6 DEF Rt
<1>2. CASE Loop
  <2> USE DEF LoopAt, OnlyLoop
  <2>1. CASE Tick
    BY <2>1 DEF Tick
  <2>2. CASE FollowStop
    BY <2>2 DEF FollowStop
  <2>3. CASE FollowClear
    BY <2>3 DEF FollowClear
  <2>4. CASE SinkForgets
    BY <2>4 DEF SinkForgets
  <2>5. CASE LinkEvent
    BY <2>5 DEF LinkEvent
  <2>6. CASE Quit
    BY <2>6 DEF Quit
  <2>7. CASE RunEnds
    BY <2>7 DEF RunEnds
  <2>8. CASE DropStreams
    BY <2>8 DEF DropStreams
  <2>9. CASE SpawnEnds
    BY <2>9 DEF SpawnEnds
  <2>10. QED BY <1>2, <2>1, <2>2, <2>3, <2>4, <2>5, <2>6, <2>7, <2>8, <2>9 DEF Loop
<1>3. CASE Pump
  <2>1. CASE OutComplete
    BY <2>1 DEF OutComplete, OnlyPump
  <2>2. ASSUME NEW n \in Sizes, TakePlay(n) PROVE TypeOK'
    BY <2>2 DEF TakePlay, OnlyPump, Smaller
  <2>3. QED BY <1>3, <2>1, <2>2 DEF Pump
<1>4. CASE SinkStops
  BY <1>4 DEF SinkStops, LoopAt, OnlyLoop
<1>5. CASE SinkStarts
  BY <1>5 DEF SinkStarts, LoopAt, OnlyLoop
<1>6. CASE Around
  BY <1>6 DEF Around
<1>7. CASE UNCHANGED vars
  BY <1>7 DEF vars
<1>8. QED BY <1>1, <1>2, <1>3, <1>4, <1>5, <1>6, <1>7 DEF Next

(* Every state of the driver is one of those TypeOK names: the depth of PLAY is
   never negative and never over its limit, burst is a size that was delivered. *)
THEOREM TypeCorrect == Spec => []TypeOK
<1>1. ASSUME Init PROVE TypeOK
  <2>1. Idle \in [at : {"idle", "push", "test", "depth", "raise"}, frames : Quanta \union {0}]
    BY DEF Idle
  <2>2. queued \in 0..PlayLimit
    BY <1>1, PlaybackAssumption DEF Init
  <2>3. {playOn, moved, client, links, streaming, alive, restarted} \subseteq BOOLEAN
    BY <1>1 DEF Init
  <2>4. QED BY <1>1, <2>1, <2>2, <2>3 DEF Init, TypeOK
<1>2. QED BY <1>1, TypeStep, PTL DEF Spec

-----------------------------------------------------------------------------
(* `restarted` and PLAY_ON between them say whether a prefill is going on; this
   is what holds of it step by step. *)
LEMMA PrimedStep == TypeOK /\ Primed /\ [Next]_vars => Primed'
<1> SUFFICES ASSUME TypeOK, Primed, [Next]_vars PROVE Primed'
  OBVIOUS
<1>t. {playOn, streaming, restarted} \subseteq BOOLEAN
  BY DEF TypeOK
<1> USE DEF Primed, RestsWhileStopped, ForgetsInSilence, RemembersWho, NobodyTakes,
            StaysFull, StreamsAreGone, SilentWhenOver
<1>1. CASE Rt
  <2> USE DEF RtAt, OnlyRt
  <2>1. ASSUME NEW n \in Quanta, Deliver(n) PROVE Primed'
    BY <2>1 DEF Deliver
  <2>2. CASE DeliverNothing
    BY <2>2 DEF DeliverNothing
  <2>3. CASE Push
    BY <2>3 DEF Push
  <2>4. CASE TestOn
    BY <2>4 DEF TestOn
  <2>5. CASE TestDepth
    BY <2>5 DEF TestDepth
  <2>6. CASE Raise
    BY <2>6 DEF Raise
  <2>7. QED BY <1>1, <2>1, <2>2, <2>3, <2>4, <2>5, <2>6 DEF Rt
<1>2. CASE Loop
  <2> USE DEF LoopAt, OnlyLoop
  <2>1. CASE Tick
    BY <2>1 DEF Tick
  <2>2. CASE FollowStop
    BY <2>2, <1>t DEF FollowStop
  <2>3. CASE FollowClear
    BY <2>3 DEF FollowClear
  <2>4. CASE SinkForgets
    BY <2>4 DEF SinkForgets
  <2>5. CASE LinkEvent
    BY <2>5 DEF LinkEvent
  <2>6. CASE Quit
    BY <2>6 DEF Quit
  <2>7. CASE RunEnds
    BY <2>7 DEF RunEnds
  <2>8. CASE DropStreams
    BY <2>8 DEF DropStreams
  <2>9. CASE SpawnEnds
    BY <2>9 DEF SpawnEnds
  <2>10. QED BY <1>2, <2>1, <2>2, <2>3, <2>4, <2>5, <2>6, <2>7, <2>8, <2>9 DEF Loop
<1>3. CASE Pump
  <2>1. CASE OutComplete
    BY <2>1 DEF OutComplete, OnlyPump
  <2>2. ASSUME NEW n \in Sizes, TakePlay(n) PROVE Primed'
    (* Whoever is in take_play while a sink fills up was let in before. *)
    <3>1. ~(restarted /\ ~playOn /\ streaming)
      BY <2>2 DEF TakePlay
    <3>2. QED BY <2>2, <3>1 DEF TakePlay, OnlyPump
  <2>3. QED BY <1>3, <2>1, <2>2 DEF Pump
<1>4. CASE SinkStops
  BY <1>4 DEF SinkStops, LoopAt, OnlyLoop
<1>5. CASE SinkStarts
  BY <1>5 DEF SinkStarts, LoopAt, OnlyLoop
<1>6. CASE Around
  BY <1>6 DEF Around
<1>7. CASE UNCHANGED vars
  BY <1>7 DEF vars
<1>8. QED BY <1>1, <1>2, <1>3, <1>4, <1>5, <1>6, <1>7 DEF Next

LEMMA AlwaysPrimed == Spec => []Primed
<1>1. Init => Primed
  BY DEF Init, Idle, Primed, RestsWhileStopped, ForgetsInSilence, RemembersWho,
         NobodyTakes, StaysFull, StreamsAreGone, SilentWhenOver
<1>2. QED BY <1>1, TypeCorrect, PrimedStep, PTL DEF Spec

(* Once spawn is done PLAY_ON is down and stays down, however late the data
   thread was. *)
THEOREM EndsInSilence == Spec => []SilentWhenOver
<1>1. Primed => SilentWhenOver
  BY DEF Primed
<1>2. QED BY <1>1, AlwaysPrimed, PTL

(* Only the data thread raises PLAY_ON. *)
LEMMA OnlyRaiseRaises == ~playOn /\ [Next]_vars /\ playOn' => Raise
  BY DEF Next, Rt, Loop, Pump, vars, Deliver, DeliverNothing, Push, TestOn, TestDepth,
         OnlyRt, RtAt, Tick, FollowStop, FollowClear, SinkForgets, LinkEvent, Quit,
         RunEnds, DropStreams, SpawnEnds, SinkStops, SinkStarts, OnlyLoop, LoopAt,
         OutComplete, TakePlay, OnlyPump, Around

(* A sink that stopped and started again plays only once its target is queued,
   whatever the main loop and the USB thread did between the data thread's two
   looks and its store. *)
THEOREM PlaysOnlyWhenPrimed == Spec => StartsPrimed
<1>1. ASSUME Primed, [Next]_vars, restarted, ~playOn, playOn'
      PROVE queued >= Target(burst)
  BY <1>1, OnlyRaiseRaises DEF Raise, RtAt, Primed, StaysFull
<1>2. Primed /\ [Next]_vars =>
        [restarted /\ ~playOn /\ playOn' => queued >= Target(burst)]_vars
  BY <1>1
<1>3. QED BY <1>2, AlwaysPrimed, PTL DEF Spec, StartsPrimed
=============================================================================
