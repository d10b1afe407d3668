------------------------------- MODULE Bridge -------------------------------
(***************************************************************************)
(* What cmd_run and cmd_stream start, and how they end: the main loop, the *)
(* pump and run_midi_out, and the audio threads of one of two kinds, the   *)
(* PipeWire one (pw::spawn) or a pair on files and pipes (spawn_play and   *)
(* spawn_rec).  cmd_run joins them all; cmd_stream leaves them to the end  *)
(* of the process.                                                         *)
(* Audio is counted in the chunks spawn_play reads at a time.  What the    *)
(* threads do with their audio inside PipeWire is Playback's and Capture's *)
(* business, and what becomes of the streams Transfers's.                  *)
(***************************************************************************)
EXTENDS Integers, FiniteSets

CONSTANTS Setups,    \* the commands and their audio: [command, audio, source, sink]
          Length,    \* the chunks in a file that is played
          Throttle,  \* spawn_play's queue_limit, in chunks
          PlayLimit  \* PLAY_LIMIT, in chunks

ASSUME BridgeAssumption ==
  /\ {Length, Throttle, PlayLimit} \subseteq Nat
  /\ Setups \subseteq [command : {"bridge", "map", "stream"},
                       audio : {"pipewire", "pipes", "none"},
                       source : {"none", "file", "missing", "fifo"},
                       sink : {"none", "file", "fifo"}]

VARIABLES setup,
          running,    \* RUNNING
          gone,       \* DEVICE_GONE
          alive,      \* cmd_run's `alive`
          main,       \* where the main thread is
          pump, midiOut, pw, play, rec,  \* and the others
          daemon,     \* there is a PipeWire daemon
          orphaned,   \* it has gone under a connected `run`
          eof,        \* PLAY_EOF
          left,       \* the chunks of the source still to be read
          queued,     \* the chunks in PLAY
          failed,     \* a read of the source has failed
          dropped,    \* something was dropped from PLAY
          reader,     \* somebody has the other end of the sink's pipe open
          recOn,      \* REC_ON
          captured    \* there is something in REC
bridgeVars ==
  <<setup, running, gone, alive, main, pump, midiOut, pw, play, rec,
    daemon, orphaned, eof, left, queued, failed, dropped, reader, recOn, captured>>
flags == <<setup, running, gone, alive>>
world == <<daemon, orphaned, reader>>
playing == <<play, eof, left, queued, failed, dropped>>
recording == <<rec, recOn, captured>>

BridgeTypeOK ==
  /\ setup \in Setups
  /\ {running, gone, alive, daemon, orphaned, eof, failed, dropped, reader, recOn, captured}
       \subseteq BOOLEAN
  /\ main \in {"loop", "stop", "pump", "threads", "lower", "over", "restart"}
  /\ {pump, midiOut} \subseteq {"none", "on", "over"}
  /\ pw \in {"none", "look", "connect", "run", "settle", "retry", "over"}
  /\ play \in {"none", "open", "read", "push", "end", "over"}
  /\ rec \in {"none", "closed", "open", "write", "end", "over"}
  /\ left \in 0..Length /\ queued \in 0..PlayLimit

BridgeInit ==
  /\ setup \in Setups
  /\ running = TRUE /\ gone = FALSE /\ alive = TRUE
  /\ main = "loop"
  /\ pump = IF setup.command = "stream" THEN "none" ELSE "on"
  /\ midiOut = pump
  /\ pw = IF setup.audio = "pipewire" THEN "look" ELSE "none"
  /\ play = IF setup.source = "none" THEN "none" ELSE "open"
  /\ rec = IF setup.sink = "none" THEN "none" ELSE "closed"
  /\ daemon \in BOOLEAN /\ orphaned = FALSE
  /\ eof = FALSE /\ left = Length /\ queued = 0
  /\ failed = FALSE /\ dropped = FALSE
  /\ reader = (setup.sink = "file")
  /\ recOn = FALSE /\ captured = FALSE

Exited == main \in {"over", "restart"}

-----------------------------------------------------------------------------
(* The main thread. *)
MainTo(from, to) == main = from /\ main' = to
OnlyMain == UNCHANGED <<setup, running, gone, pump, midiOut, pw, world, playing, rec, captured>>

(* cmd_run: a signal ends the loop, a device that is gone the process. *)
Leave ==
  /\ setup.command # "stream"
  /\ \/ ~running /\ MainTo("loop", "stop")
     \/ gone /\ MainTo("loop", "restart")
  /\ UNCHANGED <<alive, recOn>> /\ OnlyMain

(* "`q` finishes": out of the loop and nothing else. *)
Quit ==
  /\ setup.command = "map"
  /\ MainTo("loop", "stop")
  /\ UNCHANGED <<alive, recOn>> /\ OnlyMain

(* Mistake: the threads are joined before they are told. *)
TellNobody ==
  /\ MainTo("stop", "pump")
  /\ UNCHANGED <<alive, recOn>> /\ OnlyMain

Tell ==
  /\ MainTo("stop", "pump")
  /\ alive' = FALSE
  /\ UNCHANGED recOn /\ OnlyMain

JoinPump ==
  /\ pump = "over"
  /\ MainTo("pump", "threads")
  /\ UNCHANGED <<alive, recOn>> /\ OnlyMain

JoinThreads ==
  /\ {midiOut, pw, play, rec} \subseteq {"none", "over"}
  /\ MainTo("threads", "over")
  /\ UNCHANGED <<alive, recOn>> /\ OnlyMain

AllTaken == eof /\ queued = 0

(* cmd_stream: the same two reasons, or the end of what there is to read, and
   nothing of it in the queue any more. *)
LeaveStream ==
  /\ setup.command = "stream"
  /\ ~running \/ gone \/ AllTaken
  /\ MainTo("loop", "lower")
  /\ UNCHANGED <<alive, recOn>> /\ OnlyMain

Lower ==
  /\ MainTo("lower", "over")
  /\ recOn' = FALSE
  /\ UNCHANGED alive /\ OnlyMain

Main == Leave \/ Tell \/ JoinPump \/ JoinThreads \/ LeaveStream \/ Lower

-----------------------------------------------------------------------------
(* The pump and run_midi_out run until they are told. *)
PumpEnds ==
  /\ ~Exited /\ ~alive
  /\ pump = "on" /\ pump' = "over"
  /\ UNCHANGED <<flags, main, midiOut, pw, world, playing, recording>>

MidiOutEnds ==
  /\ ~Exited /\ ~alive
  /\ midiOut = "on" /\ midiOut' = "over"
  /\ UNCHANGED <<flags, main, pump, pw, world, playing, recording>>

-----------------------------------------------------------------------------
(* pw::spawn, for as long as audio_alive says. *)
AudioAlive == running /\ ~gone
PwTo(from, to) ==
  /\ ~Exited
  /\ pw = from /\ pw' = to
  /\ UNCHANGED <<flags, main, pump, midiOut, world, playing, recording>>

PwLooks == PwTo("look", IF AudioAlive THEN "connect" ELSE "over")

(* Mistake: not reaching a daemon is final. *)
PwConnectsOnce == PwTo("connect", IF daemon THEN "run" ELSE "over")
(* `run` fails without a daemon. *)
PwConnects == PwTo("connect", IF daemon THEN "run" ELSE "settle")

(* With one it only ends with the driver. *)
PwRuns == ~AudioAlive /\ PwTo("run", "settle")
PwSettles == PwTo("settle", IF AudioAlive THEN "retry" ELSE "look")
PwRetries == PwTo("retry", "look")

Pw == PwLooks \/ PwConnects \/ PwRuns \/ PwSettles \/ PwRetries

-----------------------------------------------------------------------------
(* spawn_play. *)
PlayTo(from, to) ==
  /\ ~Exited
  /\ play = from /\ play' = to
  /\ UNCHANGED <<flags, main, pump, midiOut, pw, world, recording>>

(* A source that cannot be opened leaves no end of file behind. *)
PlayOpens ==
  /\ PlayTo("open", IF setup.source = "missing" THEN "over" ELSE "read")
  /\ UNCHANGED <<eof, left, queued, failed, dropped>>

(* Mistake: a file is read as fast as it can be. *)
FullNever == FALSE
Full == queued > Throttle

(* A chunk, or the end: of a pipe's there is none, only its writer's. *)
PlayReads ==
  /\ running /\ ~Full
  /\ left > 0
  /\ PlayTo("read", "push")
  /\ left' = IF setup.source = "fifo" THEN left ELSE left - 1
  /\ UNCHANGED <<eof, queued, failed, dropped>>

PlayStops ==
  /\ ~running \/ (~Full /\ left = 0 /\ setup.source = "file")
  /\ PlayTo("read", "end")
  /\ UNCHANGED <<eof, left, queued, failed, dropped>>

(* Any error but that there is nothing in a pipe yet ends it like the end. *)
PlayFails ==
  /\ running /\ ~Full
  /\ PlayTo("read", "end")
  /\ failed' = TRUE
  /\ UNCHANGED <<eof, left, queued, dropped>>

PlayPushes ==
  /\ PlayTo("push", "read")
  /\ queued' = IF queued < PlayLimit THEN queued + 1 ELSE queued
  /\ dropped' = (dropped \/ queued = PlayLimit)
  /\ UNCHANGED <<eof, left, failed>>

PlayEnds ==
  /\ PlayTo("end", "over")
  /\ eof' = TRUE
  /\ UNCHANGED <<left, queued, failed, dropped>>

Play == PlayOpens \/ PlayReads \/ PlayFails \/ PlayStops \/ PlayPushes \/ PlayEnds

(* The OUT callback plays a chunk.  PLAY_ON is up since the source was opened. *)
OutComplete ==
  /\ ~Exited /\ ~gone
  /\ queued > 0
  /\ queued' = queued - 1
  /\ UNCHANGED <<flags, main, pump, midiOut, pw, world, play, eof, left, failed, dropped,
                 recording>>

-----------------------------------------------------------------------------
(* spawn_rec. *)
RecTo(from, to) ==
  /\ ~Exited
  /\ rec = from /\ rec' = to
  /\ UNCHANGED <<flags, main, pump, midiOut, pw, world, playing>>

(* No destination: decoding is off until there is one. *)
RecCloses ==
  /\ running
  /\ recOn' = FALSE
  /\ RecTo("closed", IF reader THEN "open" ELSE "closed")
  /\ UNCHANGED captured

(* reset_rec_align, drain_rec, and on. *)
RecOpens ==
  /\ RecTo("open", "write")
  /\ recOn' = TRUE /\ captured' = FALSE

(* Mistake: a write that fails is like a reader that is slow. *)
AfterErrorGoOn == "write"
AfterError == "closed"

RecWrites ==
  /\ running /\ captured
  /\ RecTo("write", IF reader THEN "write" ELSE AfterError)
  /\ captured' = FALSE
  /\ UNCHANGED recOn

RecStops ==
  /\ ~running
  /\ \E from \in {"closed", "write"} : RecTo(from, "end")
  /\ UNCHANGED <<recOn, captured>>

RecEnds ==
  /\ RecTo("end", "over")
  /\ recOn' = FALSE
  /\ UNCHANGED captured

Rec == RecCloses \/ RecOpens \/ RecWrites \/ RecStops \/ RecEnds

(* on_bulk_in, with something decoded. *)
BulkIn ==
  /\ ~Exited /\ ~gone
  /\ recOn /\ ~captured
  /\ captured' = TRUE
  /\ UNCHANGED <<flags, main, pump, midiOut, pw, world, playing, rec, recOn>>

-----------------------------------------------------------------------------
(* A signal, an unplugged device, a daemon that comes and goes, a reader that
   does. *)
Around ==
  /\ ~Exited
  /\ \/ running' = FALSE /\ UNCHANGED <<gone, world>>
     \/ gone' = TRUE /\ UNCHANGED <<running, world>>
     \/ /\ daemon' = ~daemon
        /\ orphaned' = (orphaned \/ pw = "run")
        /\ UNCHANGED <<running, gone, reader>>
     \/ /\ setup.sink = "fifo" /\ reader' = ~reader
        /\ UNCHANGED <<running, gone, daemon, orphaned>>
  /\ UNCHANGED <<setup, alive, main, pump, midiOut, pw, playing, recording>>

BridgeNext ==
  \/ Main \/ Quit \/ PumpEnds \/ MidiOutEnds \/ Pw \/ Play \/ OutComplete
  \/ Rec \/ BulkIn \/ Around

(* Every thread is scheduled, and the device asks for audio and sends it. *)
Fairness ==
  /\ WF_bridgeVars(Main) /\ WF_bridgeVars(PumpEnds) /\ WF_bridgeVars(MidiOutEnds)
  /\ WF_bridgeVars(Pw) /\ WF_bridgeVars(Play) /\ WF_bridgeVars(Rec)
  /\ WF_bridgeVars(OutComplete) /\ WF_bridgeVars(BulkIn)

BridgeSpec == BridgeInit /\ [][BridgeNext]_bridgeVars /\ Fairness

-----------------------------------------------------------------------------
(* A signal, or a device that left, ends the command with every thread it
   joins, wherever each of them was (cmd_run, cmd_stream). *)
Ends == ~running \/ gone ~> Exited

(* `ns6 play` ends by itself only at the end of its file, or when a read fails,
   and not before the device has taken all there was out of the queue, of which
   nothing was dropped (spawn_play, cmd_stream). *)
PlaysItAll ==
  [][running /\ ~gone /\ main = "loop" /\ main' = "lower"
       => /\ failed \/ (setup.source = "file" /\ left = 0)
          /\ queued = 0 /\ ~dropped]_bridgeVars

(* The nodes come up with a daemon that was late, "for as long as the device
   is" there (pw::spawn). *)
NodesComeUp ==
  setup.audio = "pipewire" /\ []AudioAlive /\ []~orphaned /\ <>[]daemon
    => <>(pw = "run" \/ main # "loop")

(* Capture into a pipe follows its reader: on for one that stays, off again
   once there is none (spawn_rec). *)
FollowsReader ==
  setup.sink = "fifo" /\ []AudioAlive /\ [](main = "loop") =>
    /\ <>[]reader => <>[]recOn
    /\ <>[]~reader => <>[]~recOn

(* "`q` finishes and writes" the map: the command then ends by itself
   (cmd_run). *)
QuitFinishes == main = "stop" ~> Exited
=============================================================================
