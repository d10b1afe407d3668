# ns6-rs in TLA+

A verification project for `ns6-rs`, the userspace driver for the Numark NS6: TLA+
modules for the parts of the driver whose correctness depends on the order things
happen in, TLC runs of them on small instances, and TLAPS proofs of the results that
should hold for every size. Paths are relative to the repository root (`src/…` below is
the crate's own `src/`).

- [The system](#the-system): components, state, operations, interactions, what is hard
- [The modules](#the-modules): what each models and how it corresponds to the code
- [The runs](#the-runs): what is checked, bounds, fairness
- [Where code and documentation disagree](#where-code-and-documentation-disagree)
- [The proofs](#the-proofs)
- [What is left out](#what-is-left-out)
- [The plan](#the-plan)

## The system

The driver claims the controller with libusb, keeps four endpoints streaming, and
presents them to the desktop as two PipeWire nodes and an ALSA MIDI port. Five kinds of
thread meet in a handful of statics:

| thread | code | touches |
|---|---|---|
| USB ("pump") | `iso::pump_events`, callbacks `on_complete`, `on_bulk_in` | `PLAY`, `REC`, `FB_*`, `FRAME_ACC`, `MIDI_IN`, `DEVICE_GONE` |
| PipeWire data | `pw::play`, `pw::capture` | `PLAY`, `REC`, `PLAY_ON`, `REC_PRIMED` |
| PipeWire main loop | timer, `follow`, `state_changed`, registry events, the end of `run`, `spawn` | `PLAY_ON`, `REC_ON`, `REC_PRIMED`, `REC_STATE`, both queues |
| MIDI out | `device::run_midi_out` | the channel of bytes for the controller |
| main | `cmd_run`: bring-up, forwarding of `MIDI_IN`, shutdown | `RUNNING`, `ISO_RUNNING`, `NO_FEEDBACK` |

libusb runs one callback at a time, whoever pumps it. Everything else is concurrent.
The statics are relaxed atomics and mutexes: each access is atomic by itself and
nothing makes two of them one.

**Components**

| component | state | operations | what is hard | what makes it correct |
|---|---|---|---|---|
| playback queue (`audio.rs`, `iso.rs`) | `PLAY`, `PLAY_PUSHED`, `PLAY_FRAMES`, `PLAY_DROPS`, the OUT buffers | `push_play`, `take_play`, `clear_play`, `silence_out` | three threads, a limit, buffers that are resubmitted | frames in order, at most once, whole; every frame accounted for |
| playback control (`pw.rs`) | `PLAY_ON`, `burst`, the link map | `play`, `state_changed`, timer + `follow`, end of `run`/`spawn` | decisions on a depth and a flag read a moment ago; links known later than traffic | starts on a filled queue, goes on for a client that stays, silent afterwards |
| capture control (`pw.rs`, `audio.rs`, `iso.rs`) | `REC`, `REC_ON`, `REC_PRIMED`, `burst` | `on_bulk_in`, `capture`, `follow`, `arm_rec`, `state_changed` | a callback that spans an off and on; a listener served before it is noticed | a recording has nothing of the last one; a listener is served; decoding stops |
| OUT clock (`iso.rs`) | `FB_RATE`, `FB_PACKETS`, `FRAME_ACC`, `NO_FEEDBACK` | `take_feedback`, `out_rate`, `next_frame_count`, `size_out_packets` | rounding; a rate that changes between transfers; a warm-up of garbage | what is asked for is sent, to the fraction of a frame; packets fit |
| USB streams (`iso.rs`, `main.rs`) | submitted transfers and their buffers, `ISO_RUNNING`, `DEVICE_GONE` | `start`, completion and resubmission, `Drop` | cancel racing resubmission; failures in the middle of `start`; unplugging; order of drops | nothing submitted is freed; the device's going is noticed |
| I2S decoder (`audio.rs`) | `Rec {locked, units, start}` | `decode_i2s`, `find_alignment`, `reset` | lost payloads, odd lengths, silence | a wrong phase is left again; the buffer is bounded |
| rate matching (`pw.rs`) | `fill`, `correction`, the resampler's area | `hold_queue` | a control loop that must not run away | the correction is bounded, slow, and has the right sign |
| PipeWire publishing (`pw.rs`) | the nodes, the retry | `spawn`, `run` | a daemon that is late, or restarts | nodes are there as long as the device is |
| bridge (`main.rs`) | threads, `RUNNING`, `alive` | `cmd_run` | shutdown order; threads that wait for a daemon, a reader or a file | every thread ends; streams end before the device |
| device bring-up (`device.rs`) | the status register | `open`, `start`, `arm` | none: a straight line | – |
| MIDI bridge (`device.rs`, `midi.rs`, `protocol.rs`) | `MIDI_IN`, the channel, `pending`, `Surface` | `send_bytes`, `recv_bytes`, `write_midi`, `run_midi_out`, `strip_midi_filler`, `feed` | streams cut into packets anywhere, with statuses left out; a failed write in the middle of a message | what is read is what was sent, in order and once |
| LED map and walk (`ledmap.rs`, `main.rs`) | position, hazards, recorded names, the file | `advance`, `back`, `record`, `mark_hazard`, `seek`, `to_toml`, `load`, `cmd_leds`, `cmd_step` | long sequences of keys; a file reloaded; a device that dies late | a known hazard is never lit; nothing described is lost; one light at a time |
| learning (`learn.rs`) | `Surface`, `Recorder`, the surface map | `observe`, `poll`, `drop_chatter`, `name`, `discard`, `load`, `to_toml` | a person, a terminal thread and a chattering panel at once | a name goes with the controls that were shown; no control has two; no session loses one |
| PCM pipes (`main.rs`) | `PLAY_EOF`, queues, `REC_ON` | `spawn_play`, `spawn_rec`, `cmd_stream` | end of file and errors; readers that come and go | a file is read to its end, or to an error, and taken from the queue before the command ends; capture follows its reader |
| probing commands, status reports, terminal, constants, packaging | – | – | – | not modelled |

**Interactions.** The two PipeWire nodes and the USB callbacks meet only in `PLAY`/`REC`
and the flags `PLAY_ON`/`REC_ON`/`REC_PRIMED`; the OUT clock decides how many frames the
callback takes from `PLAY`; the main loop's timer turns links and traffic into the flags;
`cmd_run` stops everything through `RUNNING`, and the USB side reports an unplugged device
through `DEVICE_GONE`.

## The modules

| module | models |
|---|---|
| `AudioFifo` | abstract: what a queue between two clocks promises |
| `PlayQueue` | the playback queue and the OUT transfers, frame by frame |
| `Playback` | when the controller plays: flag and depth, three threads |
| `Capture` | when the controller records: flags, queue and what is stale in it |
| `FrameClock` | feedback → rate → frames per packet |
| `Transfers` | the life of the USB transfers, their callbacks, the event pump and the order of the shutdown |
| `Decoder` | bulk payloads → frames: the phase, found, kept, lost and found again |
| `Midi` | MIDI both ways, byte by byte, between the panel and the host |
| `Bridge` | the threads of `cmd_run` and `cmd_stream`, PCM files and pipes, and how they end |
| `LedWalk` | `ns6 leds`: the walk, its map on disk and a device that dies of a message |
| `Recorder` | `ns6 map`: what moved, what the person was asked and what was written |
| `PlayQueueProofs`, `FrameClockProofs`, `PlaybackProofs`, `TransfersProofs`, `LedWalkProofs`, `MidiProofs` | theorems about the module each is named after |
| `CaptureProofs` | theorems about the way in: `Capture` and `Decoder` |
| `CommandProofs` | theorems about the commands: `Recorder` and `Bridge` |
| `MC…` | instances for TLC |

### PlayQueue and AudioFifo

A frame is the number it was handed over under. `push_play` is two steps because it
counts into `PLAY_PUSHED` before it takes the lock: `CountPush`, then `Push`, which
appends and drops the oldest frames over `PLAY_LIMIT`. `take_play` under its lock is
`FillFromQueue`; `silence_out` is `FillSilence`; which of the two a transfer gets is
decided by one load of `PLAY_ON` in `OutComplete`, and the flag may change in between
(`SetPlayOn`: who throws it is `Playback`'s business). `clear_play` is `ClearPlay`.
`buffer` is what each transfer was last filled with – it is resubmitted as it stands, so
it is what the device is sent. `cleared` and `heard` are history.

All sizes are in frames: `push_play`, `take_play` and the packet sizes are multiples of a
frame in the code, and `encode_host_quad` only ever emits whole ones, so a queue of a
fraction of a frame is not a state of the program. The test tone (`TONE_ON`) is set only
by commands that do not run the bridge and is left out.

`AudioFifo` says the same with three variables and three actions – `Write`, `Lose` the
oldest, `Read` the oldest – and `PlayQueue` implements it under
`held <- play \o wire, given <- heard`: a delivery counts as handed over once it is
counted.

### Playback

The queue is reduced to its depth. The data thread's `play` is `Deliver` (take the
buffer, raise `burst`, count), `Push`, `TestOn` (load `PLAY_ON`), `TestDepth`
(`play_queued() >= target`), `Raise` (store). A cycle of an unlinked sink is
`DeliverNothing`. The main loop is sequential and is a program counter `loop`: `Tick`
computes `playing` and `fed` and finds `follow`'s first test true or not, `FollowStop`
loads and lowers `PLAY_ON`, `FollowClear` empties the queue; `SinkStops`/`SinkForgets` are
`state_changed` away from `Streaming`; `LinkEvent` is the registry catching up with the
graph, which may be long after the client (`client`) linked and fed the sink; `Quit`,
`RunEnds`, `DropStreams`, `SpawnEnds` are the way out, with the two stores of
`PLAY_ON` where the code has them: in `run` before the streams are dropped, in `spawn`
after. The USB thread is `OutComplete` (load `PLAY_ON`) and `TakePlay`.

`PLAY_PUSHED` and `last_pushed` are compared and never otherwise used: `moved` is whether
they differ.

Taken for granted of PipeWire: it does not report a stream stopped, nor destroy it, in
the middle of one of its cycles (`SinkStops` and `DropStreams` wait for `rt` to be idle),
and a stream stopped and started again has had every OUT callback of before end (an OUT
callback is microseconds, a renegotiation milliseconds).

### Capture

A frame of `REC` is either of the current recording or *old*: captured before `REC_ON`
was last switched off. Old frames are always in front. `on_bulk_in` is `BulkIn` (load
`REC_ON`), `Decode` (under the decoder's lock), `PushRec`; it may span any number of steps
of the others, and `usb.late` remembers that `REC_ON` fell since it was looked at.
`capture` is `Request`, `TestPrimed`, `TestDepth`, `StorePrimed`, `TakeRec`, one step per
access. `follow` is `FollowOff`, or `FollowOn`, `ResetAlign`, `ArmUnprime`, `ArmDrain`,
`SwitchOn`. 
What comes out of a payload and what the decoder keeps (`Decode(out, kept)`) is any division
of what it held and what came, old in front of new: that is `Decoder`'s business. `Payload` is the most
frames a payload holds, `Waiting` the most the decoder keeps. The latter is not one frame: a hunt keeps up
to 64 (`src/audio.rs:366-372`), and a phase lost in the middle of a payload leaves all the rest
of it for the next call (`src/audio.rs:395-410`). The code has no bound on it – two phases lost in a
row keep more than a payload – and `Waiting` stands for whatever it comes to.

### FrameClock

One callback at a time, one rate per transfer: `TakeFeedback` is `take_feedback` of a
packet whose first byte is `asking`, and `Ask(b)` is the device changing what it puts
there, a count or garbage; `StartTransfer` is the call of `out_rate`; `SizePacket` is
`next_frame_count` for the next packet. `OutRate`, `BlendRate` and `Plausible` are
`out_rate`, `blend_rate` and `feedback_frames` to the digit, with the constants of the
code as parameters. `seen` is `FB_PACKETS` counted as far as `FB_WARMUP`, which is all
that is asked of it. Numbers are unbounded here and 64 bits wide in the code: with the
code's constants the largest of them, `FB_RATE * RATE_FRAC`, is below 2^44 (49 000 · 2^20 ·
2^8), `FRAME_ACC` is below 2^25, and no subtraction goes below zero (`NothingLost`), so
none can wrap. `owed` is history: everything asked for less everything sent.

### Transfers

The main thread is sequential and is what it has still to do, its `agenda`: one step per
stream to start, the pump, the loop, and the `ending` of the command. `MCTransfers` gives the
endings of `main.rs`: `cmd_run` (`alive`, `ISO_RUNNING`, join, then the locals in reverse),
the users of `open_for_output` (`Streams::drop`, its fields in order, then the device;
`ISO_RUNNING` stays up), and `cmd_audio`/`cmd_stream`, which drop the device first. A command also says
whether its loop looks at `DEVICE_GONE` (`looksForGone`: `cmd_run`, `cmd_audio` and `cmd_stream` do,
`cmd_leds`, `cmd_step` and `cmd_blocks` do not); `NoticeGone` is that look.
`SubmitNext` and `SubmitFails` are the body of `start`'s loop and its error return, after
which `Unwinding` drops what the command held. `CancelNext` is the first loop of a stream's
`Drop`, `FreeAll` the waiting and the freeing. `IsoStream` and `BulkInStream` differ in the
callback only: `on_bulk_in` does not resubmit a transfer of a device that left, and raises
`DEVICE_GONE`; `on_complete` takes it for any other error.

A callback is three steps: `Begin` (statuses and payload), `Look` (load `ISO_RUNNING`),
`Resubmit`, which fails without a word on a device that is gone. It runs in the pump or,
while it waits in a drop, in the main thread, one at a time, as libusb has it. A transfer
is `flying`, possibly `cancelling`, then given back as `completed`, `cancelled` or `gone`,
then in its `callback`, then `idle` or flying again. Cancelling does nothing to a
transfer whose callback has begun.

`SubmitFails` may be at any submission `FailAt` names. What was submitted before it is then
`abandoned`: libusb has the transfers and their buffers are gone, the cancelling being in the `Drop` of a
stream that does not exist yet. What becomes of memory that is written to after that is not followed; the
transfers go on as before, so that the drops of the other streams are still checked.

Two abstractions. A drop waits 20 rounds of events, each over after 20 ms or with the first event of
any transfer, and then frees whatever is left (`src/iso.rs:454-467`). Whether libusb gives back what was cancelled within
them is not in this code; it is the constant `RoundsSuffice`. Where it is true `FreeAll` comes after what
libusb gives back of itself (cancelled transfers, those of a device that left), and of nothing
else – a transfer that rotates on is not waited for; where it is false `FreeAll` may come at any
moment (`WaitIsOver`). And the device leaves only once the streams are up, a device lost before that being a submission
that fails.

### Decoder

The line is one endless row of bytes: a bit in every other one, a frame two slots, a slot
its data bits and then pads that are always zero. `next` is the byte the device sends
next, modulo two frames. A payload (`DecodeI2s`) is any of `Payloads` long and has one of
three `Sounds`: silence is all zeroes, quiet a small positive sample whose high bits imitate pads,
loud has both data bits set. `Lose` is a transfer that failed, whose bytes
nobody counts, and `Restart` is `Rec::reset` at whatever byte the line has got to.

`locked`, `units` and `start` are `Rec`. `DecodeFrom` is the body of `decode_i2s` after
the parity check (`WrongParity`): with a phase `DecodeFrames`, which stops at the first
frame whose pads are not clear and gives the phase up; without one `Fits`, the phases
`find_alignment` accepts, of which it takes the first, and failing that `Hunt`, which puts
out silence or keeps at most `MAX_HUNT` units. A slot is three units instead of 32, one
sign, one low bit and one pad, since the decoder's mistakes are about which of the three it
is looking at; `HuntFrames` is what both `find_alignment` and `MAX_HUNT` are measured in.
`emitted` is history.

`Aligned` is what a right phase is: the right parity, a cut between two slots, and in what
waits for the rest of its frame a pad where a pad belongs. The last is not a consequence of
the others: after a gap the cut can be right by accident while the units that wait are from
before it, with a loud bit in a pad's place. With payloads of 53, 24 and 6 bytes and 4 bytes lost the decoder
reaches that state, and the next payload costs it the phase.

`Decoder` names what other modules call `Spec`, `Init`, `Next`, `vars` and `TypeOK` after
itself, and so does `Bridge`: each shares a module of proofs with another specification.

### Midi

A message is its status and its number among those sent; a data byte says whose it is.
In: `Moves` puts a message on the device's `line`, with its status left out or not where it
may be; `Packet(n)` cuts the next n bytes into a packet, filler and trailing byte and all
(`Filled`), strips it as `strip_midi_filler` does and adds it to `MIDI_IN`; `PacketLost` is
a transfer that failed. Out: `Asks` is the host, whose events wait in `events` as the bytes
ALSA's decoder makes of them (a status that has not changed is left out); `Recv` is
`recv_bytes`, which takes them all, `SendByte` the channel, `Collect`, `Write` and `WriteFails` are `run_midi_out`, whose failed
write may have reached the device. `turn` is where in its loop `cmd_run` is: `Drain` (feed
`MIDI_IN` to `Surface`), `Recv`, `SendByte`…, `Again`.

`FeedByte` is `Surface::feed` for one byte and `Feed` for all that are there, the parser and what
it has made out being one record; it is also taken for the device's parser and for ALSA's encoder, which
read the same bytes. A `Gap` in a stream marks bytes that went missing; no program
sees it, it only sets `sure` in the message a reader makes out across it. Not modelled:
system messages and realtime bytes, which the panel does not send.

### Bridge

`Setups` are the commands with the audio they can have. The main thread is `Leave`, `Quit`
(`q` in `ns6 map`), `Tell` (`alive`), `JoinPump`, `JoinThreads` for `cmd_run`, and
`LeaveStream`, `Lower` for `cmd_stream`, which joins nobody. `PwLooks` … `PwRetries` are `pw::spawn`: look
at `audio_alive`, connect, run until it is false, sleep, look again. `PlayOpens`,
`PlayReads`, `PlayPushes`, `PlayStops`, `PlayFails`, `PlayEnds` are `spawn_play`, throttled by the depth
of the queue and counted in the chunks it reads; a read that fails ends it as the end of the file does
(`src/main.rs:2122`), which `failed` remembers, and `AllTaken` is what `cmd_stream` waits for after either. `RecCloses`, `RecOpens`, `RecWrites`,
`RecStops`, `RecEnds` are `spawn_rec` with its destination closed and reopened.
`OutComplete` and `BulkIn` are the device's side of the two queues. `Around` is the rest
of the world: a signal, an unplugged device, a daemon and a reader that come and go at any
step.

A `run` under which the daemon went is `orphaned`: nothing tells it (see below). Left out:
the carry of a partial host frame between reads, and standard input as a source, where a
read blocks for as long as its writer likes.

### LedWalk

A candidate is its position in the walk; `Number` is what the hazard list knows it by.
`Arrow` is one key: the off of what is lit (`OffFails`), the new position
(`Advance`, `Back`), and then nothing to show (`ShowNothing`: past the end, or a hazard),
the message (`Show`), or a message that fails (`ShowFails`: mark, write the map, leave).
`Describe` is Enter and a line, `Quit` q or a signal, `Killed` the end without a cleanup,
`Cleanup` the sweep that turns everything off and writes the map. `Save` is
`fs::write(LED_MAP, …)`, which none of its three callers stops for when it fails: `Whole`, or `Torn`, which leaves the map there
was, or the beginning of the new one, the number of its last entry perhaps cut short (`BrokenOff`). A kill
in the middle of a write is a torn one and then `Killed`. `torn` is whether the last write was. `Start(n, skip)` is the
next run: `LedWalk::load`, then `NS6_LED_SKIP` and `NS6_LED_START`. `wire`, `panel` and `blamed`
are history and the device: a message in `Deadly` is refused at once or acknowledged, with
the device leaving some messages later (`doomed`, `Drop`); `blamed` loses what a run could not load because of a
torn write. What descriptions say is left
out, and `NS6_LED_UNSAFE` is not set.

### Recorder

A control is its key on the wire; of its messages only their number is kept. `Announce`
is the panel during calibration and `Ready` what follows it (`Recorder::new`, `load`).
The main loop is `at`: `Observe` and `Drained` (its first part, draining `MIDI_IN` through
`Surface::feed` and `observe`), `Poll` (`poll` with `drop_chatter`), `Line` (at most one line from the
terminal's thread, `Type`). `Name`, `Discard`, `Ignore` are what a line does. `Quiet` is
`SETTLE` going by, `Stop` a signal, `Again` the next session, which reads the file back.
`settled` is the age of the last movement, and `shown` is history: what the person was asked about.

## The runs

| run | instance | shows |
|---|---|---|
| `play_queue` | limit 3, deliveries of 1 and 4, 2 transfers of 1 or 2, 7 frames | `TypeOK`, `Accounted`, `InOrder`, `NeverTwice`, `KeepsOrder` (implements `AudioFifo`) |
| `playback` | limit 6, floor 2, deliveries of 1 and 2, transfers of 1 and 3 | `TypeOK`, `SilentWhenOver`, `StartsPrimed`, `StaysOn`, `GoesQuiet` |
| `capture` | limit 6, floor 2, requests of 1 and 2, payloads of 1, up to 2 frames kept by the decoder | `TypeOK`, `ArmedIsFresh`, `GetsServed`, `StopsDecoding` |
| `frame_clock` | 44 frames a second in 8 packets, counts 43 and 45 and garbage 5, 2 packets to a transfer | `TypeOK`, `NothingLost`, `BelievesCounts`, `Even`, `Settles` |
| `transfers` | three commands: `cmd_run` with an isochronous stream of 2 and a bulk stream of 1, a user of `open_for_output` and `cmd_stream` with the two the other way round; the first or second submission of a stream may fail; the rounds suffice | `TypeOK`, `BufferOutlives`, `GoneIsNoticed`, `Ends` |
| `transfers_close` | the device dropped first | `HandleOutlives` violated |
| `decoder` | payloads of 53 and 24 bytes, hunting in 5 frames, 1 or 2 bytes lost, or a restart, twice | `DecoderTypeOK`, `KeepsPhase`, `Recovers`, `NeverDark` |
| `midi` | three statuses, one with a single data byte; packets of 3 and 4 bytes; 3 messages and 1 loss, both ways together | `AsSent`, `NothingLeftBehind` |
| `bridge` | 12 setups of `ns6`, `ns6 map` and the streaming commands; a file of 5 chunks whose reads may fail, throttled above 1, a queue of 4 | `Ends`, `PlaysItAll`, `NodesComeUp`, `FollowsReader` |
| `bridge_quit` | `ns6 map` with PipeWire | `QuitFinishes` violated |
| `led_walk` | 2 channels of 3 numbers, one known to be deadly and one not; 3 runs of the command, 2 descriptions, 1 torn write | `TypeOK`, `OneLit`, `NeverForgets`, `StepsOver` |
| `recorder` | a button, a fader and a platter, up to 4 messages each; 1 line typed ahead; 2 sessions | `NamedOnce`, `NamesWhatWasShown`, `FileGrows` |

`TypeOK` of `Midi` and `Recorder` and `BridgeTypeOK` hold of the same instances; they are there for
the proofs and are not among the runs' properties.

**Bounds, and why they are enough.** In the first five instances `MaxFrames`, and `Waiting` for what a
decoder may keep, are the only bounds on a behaviour; all other state is finite because the code's is. In `play_queue` a delivery of 4 overflows a
queue of 3 by itself, and 7 frames are a full queue, an overflow and a drain; two
transfers are enough for one to hold old frames while the other is filled (they are
interchangeable, and the run uses that symmetry; it has no liveness property). In
`playback` and `capture` the limit is three of the largest piece, which is the smallest
that has room for the target at all, and the two sizes of piece make `burst` change after
a client has started. In `capture` the decoder keeps more than a payload, as it can in the code, so that what one
callback hands over comes from both. In `frame_clock` the nominal rate is 5.5 frames a packet, as 44 100
in 8 000 is, so that packets alternate; the resolution of the rate and of the average are
4 and 16 instead of 256 and 2^20 and the average moves by a quarter; the tolerance of 2 %
lies between the counts, so the clamp acts. In `transfers` two streams
are enough for one to rotate while the other is dropped, and two transfers in one for a
submission that fails with another in flight. What does not depend on the size is proved
for every size.

In `decoder` a payload ends in the middle of a slot and of the pair of bytes a bit takes,
and everything else about the line is modulo a frame; two losses are one in any state and
one while recovering from it. `HuntFrames` must be at least 4, below which the code does
not look for a phase, and 5 leaves room for a payload that begins mid-frame. In `midi` three messages hold
two of one status and a change of it, and a loss between any two of them; a packet is as long as
a message or a byte longer, so messages are cut everywhere and packets are full. In `bridge` a file is longer than
the queue, and the queue deeper than the throttle, so an unthrottled reader would
overflow it. In `led_walk` the second channel has the same numbers as the first, which is what a
hazard's being a number is about, a run ends and resumes at any candidate, and three runs are one that learns, one
that is killed and one that reads both back; two descriptions (`MaxFound`) are one that is kept and one that a torn
write loses, and one torn write (`MaxTears`) can come at every write of every run, to be made good by the next or
read back; `MaxPast` stops the index of a walk that
keeps on past its end. In `recorder` `MaxCount` is a movement that counts, after a calibration that
makes a control noisy, with messages to spare for the chatter test; two sessions are one that
writes and one that reads.

**Fairness.** The threads are scheduled (weak fairness on the steps within a cycle, a
callback or the loop). The main loop serves its timer and link events however often other
events arrive (strong fairness on `Tick`, `LinkEvent`, `FollowOn`): it is an event loop
that dispatches every ready source. In `playback` a linked client delivers again and
again, though empty cycles come in between (strong fairness on `Deliver`); destroying a
stream gets the pause between two cycles it waits for (strong fairness on `DropStreams`).
In `capture` a streaming node is asked every cycle and the device keeps sending payloads
with frames in them (strong fairness on `DecodeSome`), which is what a locked decoder
makes of any payload. In `frame_clock` the device reports on its own clock whatever it
asks for (strong fairness on `TakeFeedback`, which waits for a transfer to be sized). In `transfers` the threads run, what is ready is handled whoever handles it
(strong fairness on `Begin`), `pump_events` comes back and the waits of a drop end though
other transfers keep coming (strong fairness: both are bounded in time in the code);
nothing makes a transfer complete or a user stop. In `decoder` the device keeps sending
(weak fairness), whatever is played. `Recovers` alone asks for loud passages (`GetsLoud`, strong fairness on
`Play("loud")`): a decoder that is only ever shown silence or sounds that imitate pads has
nothing to tell a right phase from a wrong one by. `NeverDark` does without. In `bridge` every thread runs (weak fairness on each; nothing makes a read fail),
and a device that is there takes what is queued and sends what is decoded (`OutComplete`,
`BulkIn`). `midi`, `led_walk` and `recorder` have safety properties only and no fairness: a
person decides what happens next, and the MIDI threads block nobody. No fairness is
assumed of clients coming or going, of streams being stopped or started, or of the driver
being stopped. Deadlock is checked in every run but those of `transfers`, `bridge`, `led_walk`
and `recorder`, where a command that has ended, for the last time, has nothing left to do;
where the other systems come to rest some thread or the environment always has a step.

**What the properties are for.** `StartsPrimed` is the promise of the prefill: unless
`follow` has interfered since the sink last stopped, `PLAY_ON` goes on over a full target,
though three threads change flag, queue and burst between the test and the store.
`StaysOn` and `GoesQuiet` are the two sides of `follow`: it must not cut a client off for good
because its link is late – once it may, until the registry has caught up – and must not leave the device playing because
its link went early. `BufferOutlives` is where
cancelling, resubmitting and freeing cross: it needs the callback's look at the status, since
`ISO_RUNNING` stays up in most commands. `FailedStartIsClean` would be the same of a start that fails, and is
not so. `GoneIsNoticed` is about the commands that look at `DEVICE_GONE` and a device that leaves under a posted bulk
transfer; `GoneEndsCommands` would be about all commands, and is not so. Both are stated in `Transfers` and are no run's. `SilentWhenOver` needs both stores of `PLAY_ON` (the mutant `SpawnTrustsRun` has one).
`ArmedIsFresh` bounds what the race between arming and a callback can leave in a new
recording: what that one callback made of its payload and of what the decoder had kept. `NothingLost` is what the accumulator is for.
`Settles` is the only claim about the average that survives its rounding down: it stops
short of the device's rate by less than one step when approached from below and meets it
from above.

`KeepsPhase` and `Recovers` are two halves: the first says no payload's length or sound costs a right
phase (it needs `start` carried over odd lengths), the second that a wrong one, which quiet
sounds imitate perfectly, does not survive a loud passage (it needs the other parity to be looked at).
Which of the two slots is the left one is not on the wire, and `Aligned` does not ask.
`AsSent` allows a reader to be misled after a loss only until the next status, and lets
nothing be invented, doubled or swapped; `NothingLeftBehind` is its other side.
The `Ends` of `Bridge` is about joins: each thread must see one of three flags from wherever it waits, and
who lowers which is spread over four functions. `PlaysItAll` ties the end of the file (or an error), which the
reader sees, to the queue, which the device empties; the last OUT transfers may still be in flight then,
which the command does not wait for. `FollowsReader` needs the error of a
write to close the pipe. `OneLit`, `NeverForgets` and `StepsOver` are for long sequences of
keys with a device that dies a message late: the blame may go to the wrong candidate, but
what was blamed once must stay blamed on both channels and over every later run, and what was described must stay
described. Both are as good as the map on disk, which is rewritten in place: a run that starts after a write
that was torn begins with what that left, and the two properties say so. Anything but that – a kill between two writes, a device
that goes, a failed write that a later one makes good – costs nothing.
`NamesWhatWasShown` is what the `naming` flag is for: a control that moves, or a line that
arrives, between the question and the answer. `FileGrows` takes the write of the surface map as whole: it is a single one
at the end of a session, and a kill inside it (`src/main.rs:476`) is not modelled.

## Where code and documentation disagree

Shown by a run:

1. **`transfers_close`** – `cmd_audio` and `cmd_stream` end with `drop(dev)`
   (`src/main.rs:2023`, `:2354`), before `_streams`: the handle goes with every transfer in
   flight, against the contract of `start` (`src/iso.rs:371`).
2. **`bridge_quit`** – "`q` finishes and writes" the map, `ns6 map` says (`src/main.rs:343`). It leaves the loop
   (`src/main.rs:423`), but `RUNNING` stays up, and the PipeWire thread, which goes by
   `audio_alive` (`src/main.rs:110`), never ends: the join at `src/main.rs:500-501` waits for good, until a
   signal. The map is written before the join.

Met while modelling, where the model follows the code:

3. When a submission in the middle of `start` fails, the ones before
   it stay with libusb while the `Vec` that owns their buffers is dropped
   (`src/iso.rs:431-434`, `:613-617`), where a transfer comes "together with the buffer it points
   at" (`src/iso.rs:283`) and a drop lets "the cancellations complete before the buffers are freed"
   (`src/iso.rs:453`). The cancelling is in the `Drop` of a stream that does not exist yet.
   (`FailedStartIsClean`, as an invariant of `MCTransfers.cfg`, is violated within two steps.)
4. `cmd_leds`, `cmd_step` and `cmd_blocks` loop on `running()` alone
   (`src/main.rs:1735`, `:1426`, `:1574`): with nothing to send they stay at their prompt with a device that left,
   against "Far better to exit" (`src/iso.rs:119-122`). (`GoneEndsCommands`, as a property of `MCTransfers.cfg`, is violated.)
5. `NS6_PLAY_MS` (README.md:318) has no upper limit, and above 250
   it silences the sink for good: `push_play` keeps the queue at `PLAY_LIMIT`
   (`src/audio.rs:85`), `Playback::target` is not capped by it (`src/pw.rs:364`), and
   `play_queued() >= target` (`src/pw.rs:521`) is never true. A client with deliveries of
   more than 83 ms does the same. (`Playback` with a floor above the limit violates
   `StaysOn`.)
6. `follow` lowers `PLAY_ON` and then empties the queue
   (`src/pw.rs:299-300`); the data thread can raise it in between, and the device goes on
   with an empty queue and no prefill, against the comment at `src/pw.rs:519`. It needs a
   client that starts to deliver in the tick that finds the last one gone; `StartsPrimed`
   excepts it.
7. Switching capture off leaves `REC` and `REC_PRIMED` as they are
   (`src/pw.rs:310`), and a listener that links up again is served from them until the
   next tick arms the queue, against the comment at `src/pw.rs:304` and `src/audio.rs:455`.
8. `pw::run` only ends with the driver (`src/pw.rs:279`): a daemon that restarts under it is not
   noticed, and the nodes do not come back, though `spawn` retries "for as long as the
   device is" there (`src/pw.rs:45-52`). `NodesComeUp` excepts it.
9. `spawn_play` returns without setting `PLAY_EOF` when its source does not open, and
   `cmd_stream` waits for a signal; a source that blocks in `read` keeps `cmd_run`'s join
   waiting.
10. `spawn_rec` reopens its destination after any failed write; a regular file is
    truncated by that.
11. After a failed write `pending.clear()` may throw away a status; the host goes on leaving
    it out, and the device reads the data that follows under the one before, until the
    next status. `AsSent` excepts it.
12. A MIDI IN packet that is full to the last byte has no filler, and `strip_midi_filler`
    would pass its trailing byte on as data (`src/protocol.rs:225`). The repository documents none;
    `Filled` always has a filler byte.
13. The sweep at the end of `ns6 leds` sends an off to every number, the hazards included
    (`src/main.rs:1822`), which are to be "stepped over rather than sent"
    (`src/main.rs:1699`). `StepsOver` is about what is lit.
14. `ns6 leds` "blames whichever candidate was lit when the device vanished"
    (`src/ledmap.rs:80`), but a device that
    is found gone by the off of the last light leaves by `?`: nothing is blamed, and
    nothing written that the last key had not written.
15. Enter describes the candidate the walk is at, lit or not: before the first arrow and at a
    hazard it records one that was never shown, against `src/ledmap.rs:183`. A walk resumed at
    n shows n + 1 first.
16. `LedWalk::load` takes what is between the first two `=` of a line, so a description with
    one in it comes back shorter. Both maps are rewritten in place (`fs::write`): a write that fails or is
    killed half way costs what was in them. `ns6 leds` goes on as if nothing were, and prints "recorded" and
    "Recorded as destructive" though it could not write (`src/main.rs:1772`, `:1808`).
17. Chatter is counted from the calibration on and never forgotten, so a noisy control does
    reach the threshold of `observe` (`src/learn.rs:186-195`); one that chatters more often than
    `SETTLE` keeps a batch from ever being offered. The empty batch `drop_chatter` provides
    for cannot happen: the busiest control always stays.
18. Material of 16 bits has its low byte clear and fits wrong phases of the line as well as the right
    one; no passage of it is loud in `Decoder`'s sense.
19. `spawn_play` takes any error of a read for the end of its source (`src/main.rs:2122`), so `ns6 play` of a directory,
    or of a disk that fails half way, ends like one that has been played. `PlaysItAll` says so.

## The proofs

| theorem | module | states |
|---|---|---|
| `TypeCorrect`, `EveryFrameIsAccountedFor`, `HeldInOrder` | `PlayQueueProofs` | `Spec => []TypeOK`, `[]Accounted`, `[]InOrder` |
| `NothingIsSentTwice` | `PlayQueueProofs` | `Spec => NeverTwice` |
| `Implements` | `PlayQueueProofs` | `Spec => KeepsOrder`, the refinement of `AudioFifo` |
| `TypeCorrect`, `NothingIsLost`, `CountsAreBelieved` | `FrameClockProofs` | `Spec => []TypeOK`, `[]NothingLost`, `[]BelievesCounts` |
| `PacketsAreEven` | `FrameClockProofs` | `Spec => Even` |
| `TypeCorrect`, `EndsInSilence` | `PlaybackProofs` | `Spec => []TypeOK`, `[]SilentWhenOver` |
| `PlaysOnlyWhenPrimed` | `PlaybackProofs` | `Spec => StartsPrimed` |
| `TypeCorrect`, `RecordingsAreFresh` | `CaptureProofs` | `Spec => []TypeOK`, `[]ArmedIsFresh` |
| `DecoderTypedAlways` | `CaptureProofs` | `DecoderSpec => []DecoderTyped`, the types without the bound on `units` |
| `KeepsPhaseAlways` | `CaptureProofs` | `DecoderSpec => KeepsPhase` |
| `TypeCorrect`, `ReadAsSent`, `NothingIsLeft` | `MidiProofs` | `Spec => []TypeOK`, `[]AsSent`, `[]NothingLeftBehind` |
| `TypeCorrect` | `TransfersProofs` | `Spec => []TypeOK` |
| `BuffersOutlive` | `TransfersProofs` | `RoundsSuffice => (Spec => []BufferOutlives)` |
| `TypeCorrect`, `OneAtATime` | `LedWalkProofs` | `Spec => []TypeOK`, `[]OneLit` |
| `NothingIsForgotten`, `HazardsStayDark` | `LedWalkProofs` | `Spec => NeverForgets`, `StepsOver` |
| `TypeCorrect`, `NamedOnlyOnce` | `CommandProofs` | `Spec => []TypeOK`, `[]NamedOnce` |
| `WhatWasShownIsNamed`, `NoSessionCostsAnEntry` | `CommandProofs` | `Spec => NamesWhatWasShown`, `FileGrows` |
| `BridgeTypeCorrect` | `CommandProofs` | `BridgeSpec => []BridgeTypeOK` |
| `PlaysItAllAlways` | `CommandProofs` | `Throttle < PlayLimit => (BridgeSpec => PlaysItAll)` |

They hold for every value of the constants that satisfies the `ASSUME`s of the modules,
which say little: sizes are natural numbers; a packet at the highest rate fits its share of
the buffer with a frame to spare (`RoomAssumption`: 44 982 / 8 000 < 6 frames of the 13 that
`ISO_OUT_PACKET` holds); the controls are finitely many (`RecorderAssumption`); the
transfers are finitely many and numbered from 1 (`TransferAssumption`); a walk has something
to walk through (`LedWalkAssumption`, which does not say that what is listed as a hazard is
one). These say something about the code, and two theorems have a hypothesis:

- `CommandAssumption`: an `ending` joins the pump before it drops a stream. It is so in every
  order `MCTransfers` takes from `main.rs`. The exception in the code is no `Command`: a file
  that `NS6_OUT_DUMP` or `NS6_PCM_DUMP` names and that cannot be created ends `cmd_run` by `?`
  (`src/main.rs:262`, `:269`) with the pump still running.
- `BridgeAssumption` lists the kinds of command, of source and of sink there are.
- `DecoderAssumption`: `find_alignment` looks at four frames or more, and payloads are not empty
  and have a longest one; nothing is said of their lengths otherwise, odd or even.
- `MidiAssumption`: packets have room for a byte, the controls' statuses are any set, and "none",
  which a parser holds before the first of them, is not among them.
- `BuffersOutlive` has `RoundsSuffice`: without it a drop frees what libusb still has, as the code would
  if 20 rounds were not enough. It holds wherever a start may fail, for every `FailAt`; what a failed
  start leaves behind is `FailedStartIsClean` (the third disagreement above), which is false.
- `PlaysItAllAlways` has `Throttle < PlayLimit`: `queue_limit` is 40 ms of audio against a
  `PLAY_LIMIT` of 250 ms, which leaves room for the chunk that is read, unless `NS6_PLAY_MS`
  asks for more than that, and then `push_play` does drop.

*PlayQueue.* `InOrder` speaks of positions in a sequence and is not convenient to carry
through a step. The invariant is `Held`: there are numbers `base`, `m`, `n` such that the
queue is the run of `m` frames after `base` and the delivery on its way the run of `n`
after that, ending at `pushed`, with nothing newer than `base` heard. Each operation moves
this window along (`CountPushWindow`, `PushWindow`, `ClearPlayWindow`,
`FillFromQueueWindow`), and order, accounting, what a transfer is filled with and the
refinement are all read off it.

*FrameClock.* `owed < PerPacket` is not inductive, because nothing ties `owed` to the
accumulator; `owed = acc` is what does, and `acc < PerPacket` is the remainder of a
division (`ShareOut`). The average stays within the plausible rates because one step of it
covers at most the gap to the new count and never overshoots (`PartOfGap`), also with the
division rounding down.

*Playback.* The data thread looks at `PLAY_ON`, looks at the depth and stores the flag in
three steps, and the depth it acts on is an old one. `Primed` says why it is still good:
between the second look and the store the queue is full (`StaysFull`), because the only
two that take from it are out of the way – no OUT callback of before is left under way once
a sink that has stopped fills up again (`NobodyTakes`), and the main loop clears only after
something else than the sink stopped it, which `restarted` remembers (`RemembersWho`).
`RestsWhileStopped` and `ForgetsInSilence` carry these over `state_changed`;
`StreamsAreGone` and `SilentWhenOver` are the way out, where the flag is stored for the
last time after the streams that could raise it.

*Capture.* `ArmedIsFresh` counts what is old in `REC`, in the callback's hands and in the decoder. What makes it
inductive is `Stale`, which also counts what is not there yet: a payload while a
callback that began before the switch-off still decodes, and, in the decoder, all that it may turn out to have kept. `Stale` is bounded not only when `REC_ON` is up but already when the loop is
about to raise it (`StaleIsBounded`), and until then nothing new is decoded (`OffWhileArming`).
`Shape` adds to the types that a callback carries at most a payload, and nothing outside of
its steps.

*Transfers.* Types already need the order of the main thread: that one callback runs at a
time, and in whom, rests on the pump having been joined when the main thread handles events
in a drop, hence on the agenda (`Orderly`: starts, then the pump, and a join ahead of every
drop as long as a pump runs or is to be). On it stands `Buffers`: in a drop, a transfer
that has been cancelled is not flying, is not waiting for a callback that would submit it
again, and, if it is in a callback, the device has left and the submission fails (`Calmed`);
nothing has been freed before the last start (`NothingFreedYet`). This is the argument for
`Drop` without `ISO_RUNNING`: the look at the status is enough once every transfer has been
cancelled, if what was cancelled comes back within the rounds.

*Decoder.* A phase that is held leaves less than a frame over (`DecoderTyped`), which bounds
what waits. On an aligned line no other byte carries anything, so nothing speaks for the other
parity (`~WrongParity`), and the units of a payload go on where those that wait end: every
third one of them all is a pad, whether it waited (that is what `Aligned` says of the third
unit) or has just come (`InTwosIs`, `BitIs`). So every whole frame has its pads clear,
`Clean` is all of them (`CleanIs`), and what is left begins at a cut between slots again. That
the line and the units agree afterwards is arithmetic over odd and even payloads
(`LineGoesOn`): the parity that is carried over is what makes it come out.

*Midi.* What is buffered somewhere says nothing by itself; the invariant is about what the
reader *will* have made out once everything under way has reached it: `Arriving` for `Surface`,
`Leaving` for the device, the one `Feed` of all the bytes in front of a reader in their order.
`Understood` says that this is what was sent: of every message when nothing is missing, and otherwise
of those that are sure, with the parser, if it is sure, between two messages and in the running status of the last. A step that
only moves bytes on – into a packet and out of its filler (`StrippedIs`), down the channel,
into what is pending, through the reader – does not change it, since feeding a sequence is
feeding its two parts one after the other (`FeedOn`). A message more is `UnderstoodMore`, with or
without its status. A loss takes bytes out of the middle and leaves a gap; a reader that met the gap
makes out no more than one that did not (`GapWeaker`), because two readers that
differ only in being sure stay so byte by byte until the next status brings them
together (`WeakerStep`, `WeakerFeed`). `AsSent` and `NothingLeftBehind` follow, what has been
made out so far being where the whole stream's messages begin (`SentSoFar`).

*LedWalk.* `OneLit` is inductive with the types. `NeverForgets` and `StepsOver` relate a run
to the runs before it, and need `Kept`: what has been blamed is a hazard by the map in
memory and, unless its last write was torn, by the map on disk, and then the descriptions in the two are the same.
A write that is whole restores it (`SaveKeeps`); one that is torn leaves at least a map of the same type
(`BrokenOffIsAMap`), and the next run loads what is there. Hazards are
numbers and what is stepped through are positions over all channels, so blaming a position has
to be shown to blame its number (`MarkedIsHazard`).

*Recorder.* `Recorded` says why no control is named twice: all that has a name is claimed
(`AllClaimed`), nothing claimed is in a batch (`NotAgain`), and the entries are disjoint, on
disk too (`NotTwice`); why the batch named is the one shown (`AsShown`); and that after
loading the file is a prefix of the entries (`Onwards`). That `settle` offers
something whenever it settles on something is part of the types: of finitely many controls one is the busiest
(`Greatest`), and that one is never chatter beside itself.

*Bridge.* `Played` follows `spawn_play`: `PLAY_EOF` is the last thing it does (`EndsLast`), an
uninterrupted end of it is the end of the file or a failed read (`ReadsToTheEnd`), and a chunk that was read has room,
because the depth was looked at before and only the device has changed it since (`HasRoom`).

Only model-checked, and why:

- Liveness (`StaysOn`, `GoesQuiet`, `GetsServed`, `StopsDecoding`, `Settles`, `GoneIsNoticed`, `Ends`,
  `Recovers`, `NeverDark`, `NodesComeUp`, `FollowsReader`): the prover has no fairness.
- `DecoderTypeOK`: that no more than a hunt's worth and a payload ever wait. With a phase lost in
  the middle of a payload that depends on what the rest of it holds, and on what quiet passages
  can make `find_alignment` accept; the types without the bound are `DecoderTyped`.
- The properties that are violated: `HandleOutlives` and `QuitFinishes` in runs of their own, and `FailedStartIsClean`
  and `GoneEndsCommands`, the third and fourth disagreements above.

`Feed` is a recursive function over the bytes, and what is proved of it for every sequence is an
induction. The library's induction rules take a predicate as a parameter, which the
provers cannot instantiate; `EveryNumber` and `EverySequence` (`MidiProofs`) take a *set* instead, the numbers or
the sequences of which the fact holds, and rest on the well-foundedness of the numbers.
`LeastIs` (`CaptureProofs`) and `Greatest` (`CommandProofs`) are the same argument for the least
and the greatest number of a set.

## What is left out

- The contents of frames: encoding, gain, clamping, the mapping of channels, and the
  carry of a partial host frame in `pw::play`.
- `hold_queue`: floating point, and a resampler that is not in this repository.
- A poisoned mutex: the critical sections do not panic.
- Bring-up of the device (`device.rs`): a straight line of control requests whose answers
  only the device knows; an error ends the command before there is a thread.
- Probing commands (`cmd_step`, `cmd_seq`, `cmd_bars`, `cmd_blocks`, …): a person sends one message at a time.
  `cmd_blocks` walks as `cmd_leds` does.
- Standard input as a source, `NS6_LED_UNSAFE`, real-time and system MIDI messages.
- What is only printed: status reports, the surface report, 14-bit pairs, debugging dumps.
- The terminal, descriptors and packaging: no shared state.

## The plan

In this order, the most important behaviour first:

1. **done** `AudioFifo`, `PlayQueue`, `Playback`, `Capture`, `FrameClock`, `Transfers`;
   proofs of `PlayQueue` and `FrameClock`.
2. **done** `Bridge` and `Midi`: `cmd_run`'s threads and shutdown with `spawn`'s retry,
   `DEVICE_GONE` and the PCM pipes; the bytes of the MIDI bridge.
3. **done** `Decoder`: `decode_i2s` over payloads that are lost or cut anywhere.
4. **done** `LedWalk`: the walk, its hazards and its file, with `cmd_leds` and its cleanup.
5. **done** `Recorder`: the naming of controls; `Surface::feed` is in `Midi`.
6. `hold_queue` in integers: bounded, slew-limited, and of the right sign.
7. **done** Proofs of `Playback`, `Capture`, `Transfers`, `LedWalk`, `Recorder`, `Midi`, what is
   safety in `Bridge`, and `KeepsPhase` of `Decoder`. Left: the bound on its buffer.
