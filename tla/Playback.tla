------------------------------ MODULE Playback ------------------------------
(***************************************************************************)
(* When the controller plays: pw.rs's sink, the main loop's tick and the   *)
(* USB thread, over the depth of the queue (what is in it, and in which    *)
(* order, is PlayQueue's business).                                        *)
(*   - rt    PipeWire's data thread in `play`: queue a delivery, then      *)
(*           switch PLAY_ON once the queue is deep enough;                 *)
(*   - loop  the PipeWire main loop: `follow` on every tick, state_changed *)
(*           of the sink, link events, and the way out of `run` and        *)
(*           `spawn`;                                                      *)
(*   - pump  the USB thread in an OUT callback.                            *)
(* Every access to a shared atomic or under a lock is a step of its own.   *)
(*                                                                         *)
(* PLAY_PUSHED and last_pushed are only ever compared, so they are `moved`:*)
(* whether they differ.  PipeWire is taken at its word that it neither     *)
(* reports a stream stopped nor destroys it in the middle of a cycle, and  *)
(* that an OUT callback does not last from a stream's stop to its restart. *)
(***************************************************************************)
EXTENDS Naturals

CONSTANTS PlayLimit,   \* PLAY_LIMIT, in frames
          Floor,       \* the prefill NS6_PLAY_MS asks for, in frames
          Quanta,      \* the sizes of a delivery, in frames
          Sizes        \* the lengths of an OUT transfer, in frames

ASSUME PlaybackAssumption ==
  /\ PlayLimit \in Nat /\ Floor \in Nat
  /\ Quanta \subseteq Nat \ {0} /\ Sizes \subseteq Nat \ {0}

VARIABLES queued,      \* the depth of PLAY
          playOn,      \* PLAY_ON
          moved,       \* PLAY_PUSHED has moved since the last tick
          burst,       \* Playback.burst
          rt,          \* where `play` is, and the delivery it holds
          loop,        \* where the main loop is
          pump,        \* where the OUT callback is
          client,      \* a client is linked to the sink
          links,       \* ... as far as the registry has told the loop
          streaming,   \* the sink's stream is Streaming
          alive,       \* `alive()`
          restarted    \* history: nothing switched PLAY_ON off since the sink last stopped
vars == <<queued, playOn, moved, burst, rt, loop, pump, client, links,
          streaming, alive, restarted>>

Larger(a, b) == IF a > b THEN a ELSE b
Smaller(a, b) == IF a < b THEN a ELSE b

(* Mistake: more deliveries of headroom than the queue has room for. *)
TargetFourDeep(b) == Larger(Floor, 4 * b)

(* Playback::target *)
Target(b) == Larger(Floor, 3 * b)

Idle == [at |-> "idle", frames |-> 0]

TypeOK ==
  /\ queued \in 0..PlayLimit
  /\ {playOn, moved, client, links, streaming, alive, restarted} \subseteq BOOLEAN
  /\ burst \in Quanta \union {0}
  /\ rt \in [at : {"idle", "push", "test", "depth", "raise"}, frames : Quanta \union {0}]
  /\ loop \in {"idle", "follow", "clear", "forget", "quit", "unwind", "dropped", "over"}
  /\ pump \in {"idle", "take"}

Init ==
  /\ queued = 0 /\ burst = 0
  /\ playOn = FALSE /\ moved = FALSE
  /\ rt = Idle
  /\ loop = "idle" /\ pump = "idle"
  /\ client = FALSE /\ links = FALSE
  /\ streaming = TRUE /\ alive = TRUE
  /\ restarted = TRUE

-----------------------------------------------------------------------------
(* The data thread: play. *)
OnlyRt == UNCHANGED <<loop, pump, client, links, streaming, alive, restarted>>
RtAt(from, to) == rt.at = from /\ rt' = [at |-> to, frames |-> 0]

Deliver(n) ==
  /\ client /\ streaming
  /\ rt.at = "idle"
  /\ rt' = [at |-> "push", frames |-> n]
  /\ burst' = Larger(burst, n)
  /\ moved' = TRUE
  /\ UNCHANGED <<queued, playOn>> /\ OnlyRt

(* An unlinked sink is still scheduled, with nothing to read. *)
DeliverNothing ==
  /\ streaming
  /\ RtAt("idle", "test")
  /\ UNCHANGED <<queued, playOn, burst, moved>> /\ OnlyRt

(* Mistake: a queue that only ever grows. *)
PushUnlimited ==
  /\ RtAt("push", "test")
  /\ queued' = queued + rt.frames
  /\ UNCHANGED <<playOn, burst, moved>> /\ OnlyRt

Push ==
  /\ RtAt("push", "test")
  /\ queued' = Smaller(queued + rt.frames, PlayLimit)
  /\ UNCHANGED <<playOn, burst, moved>> /\ OnlyRt

TestOn ==
  /\ RtAt("test", IF playOn THEN "idle" ELSE "depth")
  /\ UNCHANGED <<queued, playOn, burst, moved>> /\ OnlyRt

(* Mistake: only the floor asked for, whatever the client delivers. *)
TestFloorOnly ==
  /\ RtAt("depth", IF queued >= Floor THEN "raise" ELSE "idle")
  /\ UNCHANGED <<queued, playOn, burst, moved>> /\ OnlyRt

TestDepth ==
  /\ RtAt("depth", IF queued >= Target(burst) THEN "raise" ELSE "idle")
  /\ UNCHANGED <<queued, playOn, burst, moved>> /\ OnlyRt

Raise ==
  /\ RtAt("raise", "idle")
  /\ playOn' = TRUE
  /\ UNCHANGED <<queued, burst, moved>> /\ OnlyRt

Rt == \/ DeliverNothing \/ Push \/ TestOn \/ TestDepth \/ Raise
      \/ \E n \in Quanta : Deliver(n)

-----------------------------------------------------------------------------
(* The main loop. *)
OnlyLoop == UNCHANGED <<rt, pump, client, alive>>
LoopAt(from, to) == loop = from /\ loop' = to

(* Mistake: a tick that does not remember what it has seen delivered. *)
TickForgetsToLook ==
  /\ alive
  /\ LoopAt("idle", IF links \/ moved THEN "idle" ELSE "follow")
  /\ UNCHANGED <<queued, playOn, burst, moved, links, streaming, restarted>> /\ OnlyLoop

(* The timer: `follow` has something to do for playback only when nothing is
   linked and nothing was delivered since the last tick. *)
Tick ==
  /\ alive
  /\ LoopAt("idle", IF links \/ moved THEN "idle" ELSE "follow")
  /\ moved' = FALSE
  /\ UNCHANGED <<queued, playOn, burst, links, streaming, restarted>> /\ OnlyLoop

FollowStop ==
  /\ LoopAt("follow", IF playOn THEN "clear" ELSE "idle")
  /\ playOn' = FALSE
  /\ restarted' = (restarted /\ ~playOn)
  /\ UNCHANGED <<queued, burst, moved, links, streaming>> /\ OnlyLoop

FollowClear ==
  /\ LoopAt("clear", "idle")
  /\ queued' = 0
  /\ UNCHANGED <<playOn, burst, moved, links, streaming, restarted>> /\ OnlyLoop

(* state_changed of the sink, away from Streaming: two steps, then back. *)
SinkStops ==
  /\ streaming /\ rt.at = "idle"
  /\ LoopAt("idle", "forget")
  /\ streaming' = FALSE
  /\ playOn' = FALSE
  /\ UNCHANGED <<queued, burst, moved, links, restarted>> /\ OnlyLoop

SinkForgets ==
  /\ LoopAt("forget", "idle")
  /\ queued' = 0
  /\ burst' = 0
  /\ restarted' = TRUE
  /\ UNCHANGED <<playOn, moved, links, streaming>> /\ OnlyLoop

SinkStarts ==
  /\ ~streaming /\ pump = "idle"
  /\ LoopAt("idle", "idle")
  /\ streaming' = TRUE
  /\ UNCHANGED <<queued, playOn, burst, moved, links, restarted>> /\ OnlyLoop

(* The registry catches up with the graph. *)
LinkEvent ==
  /\ links # client
  /\ LoopAt("idle", "idle")
  /\ links' = client
  /\ UNCHANGED <<queued, playOn, burst, moved, streaming, restarted>> /\ OnlyLoop

(* The way out: the timer quits the loop; run switches PLAY_ON off and drops
   the streams on its way out; spawn switches it off again. *)
Quit ==
  /\ ~alive
  /\ LoopAt("idle", "quit")
  /\ UNCHANGED <<queued, playOn, burst, moved, links, streaming, restarted>> /\ OnlyLoop

RunEnds ==
  /\ LoopAt("quit", "unwind")
  /\ playOn' = FALSE
  /\ restarted' = FALSE
  /\ UNCHANGED <<queued, burst, moved, links, streaming>> /\ OnlyLoop

DropStreams ==
  /\ rt.at = "idle"
  /\ LoopAt("unwind", "dropped")
  /\ streaming' = FALSE
  /\ UNCHANGED <<queued, playOn, burst, moved, links, restarted>> /\ OnlyLoop

(* Mistake: leaving it to run to have switched the device off. *)
SpawnTrustsRun ==
  /\ LoopAt("dropped", "over")
  /\ UNCHANGED <<queued, playOn, burst, moved, links, streaming, restarted>> /\ OnlyLoop

SpawnEnds ==
  /\ LoopAt("dropped", "over")
  /\ playOn' = FALSE
  /\ UNCHANGED <<queued, burst, moved, links, streaming, restarted>> /\ OnlyLoop

Loop == \/ Tick \/ FollowStop \/ FollowClear \/ SinkForgets \/ LinkEvent
        \/ Quit \/ RunEnds \/ DropStreams \/ SpawnEnds

-----------------------------------------------------------------------------
(* The USB thread: on_complete looks at PLAY_ON, then empties the queue into
   the transfer; with PLAY_ON off the transfer is silence and nothing moves. *)
OnlyPump == UNCHANGED <<playOn, moved, burst, rt, loop, client, links,
                        streaming, alive, restarted>>

OutComplete ==
  /\ pump = "idle" /\ playOn
  /\ pump' = "take"
  /\ UNCHANGED queued /\ OnlyPump

TakePlay(n) ==
  /\ pump = "take"
  /\ pump' = "idle"
  /\ queued' = queued - Smaller(n, queued)
  /\ OnlyPump

Pump == OutComplete \/ \E n \in Sizes : TakePlay(n)

(* What happens around the driver: clients come and go, and it is stopped. *)
Around ==
  /\ \/ client' = ~client /\ UNCHANGED alive
     \/ alive /\ alive' = FALSE /\ UNCHANGED client
  /\ UNCHANGED <<queued, playOn, moved, burst, rt, loop, pump, links, streaming, restarted>>

Next == Rt \/ Loop \/ Pump \/ SinkStops \/ SinkStarts \/ Around

(* The threads are scheduled, and the main loop serves its timer and its link
   events however busy it is with other things; a client that stays linked keeps delivering,
   whatever empty cycles there are between its deliveries; destroying a stream
   waits for the end of a cycle, and there is always one. *)
Fairness ==
  /\ WF_vars(Push \/ TestOn \/ TestDepth \/ Raise)
  /\ SF_vars(\E n \in Quanta : Deliver(n))
  /\ WF_vars(Loop) /\ SF_vars(DropStreams)
  /\ SF_vars(Tick) /\ SF_vars(LinkEvent)
  /\ \A n \in Sizes : WF_vars(TakePlay(n))

Spec == Init /\ [][Next]_vars /\ Fairness

-----------------------------------------------------------------------------
(* Once spawn is done the device is on silence, however late the data thread
   was with its own decision (pw.rs run, spawn). *)
SilentWhenOver == loop = "over" => ~playOn

(* A sink that stopped and started again fills up from empty before it plays:
   as long as `follow` has not switched it off in between, PLAY_ON goes on
   only over a queue that has its target in it (pw.rs state_changed, play). *)
StartsPrimed == [][restarted /\ ~playOn /\ playOn' => queued >= Target(burst)]_vars

(* A client that stays is heard, and is not cut off again (play, follow). *)
StaysOn == <>[](client /\ streaming /\ alive) => <>[]playOn

(* A sink nobody is linked to goes quiet, whatever raced (follow). *)
GoesQuiet == <>[]~client => <>[]~playOn
=============================================================================
