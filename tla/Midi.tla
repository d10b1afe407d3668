-------------------------------- MODULE Midi --------------------------------
(***************************************************************************)
(* MIDI both ways as cmd_run forwards it.  In: the panel's byte stream,    *)
(* cut into packets anywhere, through on_bulk_in and MIDI_IN to Surface.   *)
(* Out: the host's events through recv_bytes and the channel to            *)
(* run_midi_out, and in packets to the device.  Both streams leave a       *)
(* status out that has not changed, so whoever reads them depends on every *)
(* byte before.                                                            *)
(* A message is its status and its place among the messages sent; a byte   *)
(* is a status or says whose data it is.  Where bytes went missing a mark  *)
(* is left that no program sees.                                           *)
(***************************************************************************)
EXTENDS Integers, Sequences, FiniteSets, SequencesExt

CONSTANTS Statuses,    \* the statuses there are: kind and channel
          OneByte,     \* those followed by one data byte, which are no control's
          PacketIn,    \* the most MIDI bytes in a packet from the device
          PacketOut,   \* MIDI_OUT_PAYLOAD
          MaxMessages, \* bound: messages of the panel and the host together
          MaxLost      \* bound: packets lost, both ways together

ASSUME MidiAssumption ==
  /\ OneByte \subseteq Statuses /\ "none" \notin Statuses
  /\ {PacketIn, PacketOut} \subseteq Nat \ {0}
  /\ {MaxMessages, MaxLost} \subseteq Nat

VARIABLES moved,     \* the statuses of what the panel has sent
          line,      \* the device's bytes that are in no packet yet
          midiIn,    \* MIDI_IN
          surface,   \* Surface: the running status, and the data bytes so far
          heard,     \* the messages it has made out
          lost,      \* packets of the device that never came
          asked,     \* the statuses of what the host has sent
          events,    \* the bytes of those that wait at the port
          feedback,  \* cmd_run's `feedback`, not yet in the channel
          channel,   \* midi_tx to midi_rx
          pending,   \* run_midi_out's `pending`
          writing,   \* it is at its write
          panel,     \* the device's own parser
          shown,     \* the messages the device has made out
          failed,    \* writes that failed
          turn       \* the part of its loop cmd_run is at
in == <<moved, line, midiIn, surface, heard, lost>>
out == <<asked, events, feedback, channel, pending, writing, panel, shown, failed>>
vars == <<in, out, turn>>

Status(s) == [is |-> "status", of |-> s]
Data(i) == [is |-> "data", of |-> i]
Gap == [is |-> "gap", of |-> 0]
Filler == [is |-> "filler", of |-> 0]
Trailer == [is |-> "data", of |-> 0]
Byte == [is : {"status"}, of : Statuses] \union [is : {"data"}, of : Nat] \union {Gap}
Message == [status : Statuses, data : Seq(Nat), sure : BOOLEAN]
Silent == [status |-> "none", data |-> <<>>, sure |-> TRUE]
Parser == [status : Statuses \union {"none"}, data : Seq(Nat), sure : BOOLEAN]

TypeOK ==
  /\ {moved, asked} \subseteq Seq(Statuses)
  /\ Len(moved) + Len(asked) <= MaxMessages
  /\ {line, midiIn, events, feedback, channel, pending} \subseteq Seq(Byte)
  /\ {surface, panel} \subseteq Parser /\ Len(surface.data) <= 1
  /\ {heard, shown} \subseteq Seq(Message)
  /\ {lost, failed} \subseteq 0..MaxLost
  /\ writing \in BOOLEAN /\ (writing => pending # <<>>)
  /\ turn \in {"surface", "feedback", "send"} /\ (turn # "send" => feedback = <<>>)

Init ==
  /\ moved = <<>> /\ line = <<>> /\ midiIn = <<>>
  /\ surface = Silent /\ heard = <<>> /\ lost = 0
  /\ asked = <<>> /\ events = <<>> /\ feedback = <<>> /\ channel = <<>>
  /\ pending = <<>> /\ writing = FALSE
  /\ panel = Silent /\ shown = <<>> /\ failed = 0
  /\ turn = "surface"

-----------------------------------------------------------------------------
(* A packet: its MIDI bytes, at least one byte of filler, and one that is no
   MIDI at all. *)
Filled(bytes, size) ==
  bytes \o [k \in 1..size + 1 - Len(bytes) |-> Filler] \o <<Trailer>>

(* strip_midi_filler: everything before the filler. *)
Stripped(packet) == SubSeq(packet, 1, SelectInSeq(packet, LAMBDA b : b = Filler) - 1)

Wanted(s) == IF s \in OneByte THEN 1 ELSE 2

(* The i-th of these messages, its status left out or not. *)
Encoded(sent, i, brief) ==
  (IF brief THEN <<>> ELSE <<Status(sent[i])>>) \o [k \in 1..Wanted(sent[i]) |-> Data(i)]
SameAsLast(sent, i) == i > 1 /\ sent[i - 1] = sent[i]

(* A status: whatever was pending is no message. *)
Begin(p, b) == [status |-> b.of, data |-> <<>>, sure |-> TRUE]

(* Surface::feed, a byte at a time: `got` is the parser and what it has made
   out.  A message read after a gap is not to be trusted before the next
   status. *)
Complete(p) == Len(p.data) + 1 = Wanted(p.status)
FeedByte(got, b) ==
  LET p == got.parser
      data == Append(p.data, b.of)
  IN  CASE b.is = "gap" -> [got EXCEPT !.parser.sure = FALSE]
        [] b.is = "status" ->
             [got EXCEPT !.parser = Begin(p, b)]
        [] b.is = "data" /\ p.status = "none" -> got
        [] b.is = "data" /\ p.status # "none" /\ ~Complete(p) ->
             [got EXCEPT !.parser.data = data]
        [] OTHER ->
             [parser |-> [p EXCEPT !.data = <<>>],
              made |-> IF p.status \in OneByte THEN got.made
                       ELSE Append(got.made, [p EXCEPT !.data = data])]

(* Everything that is there, in order. *)
Feed(got, bytes) ==
  LET after[k \in 0..Len(bytes)] ==
        IF k = 0 THEN got ELSE FeedByte(after[k - 1], bytes[k])
  IN  after[Len(bytes)]

-----------------------------------------------------------------------------
(* In: a control is moved; the device may repeat a status, and need not. *)
Moves(s) ==
  /\ Len(moved) + Len(asked) < MaxMessages
  /\ moved' = Append(moved, s)
  /\ \E brief \in {FALSE, SameAsLast(moved', Len(moved'))} :
       line' = line \o Encoded(moved', Len(moved'), brief)
  /\ UNCHANGED <<midiIn, surface, heard, lost, out, turn>>

(* A packet: on_bulk_in strips the filler and adds the rest to MIDI_IN. *)
Packet(n) ==
  /\ n <= Len(line)
  /\ midiIn' = midiIn \o Stripped(Filled(SubSeq(line, 1, n), PacketIn))
  /\ line' = SubSeq(line, n + 1, Len(line))
  /\ UNCHANGED <<moved, surface, heard, lost, out, turn>>

(* A transfer that did not complete: nothing of it arrives. *)
PacketLost(n) ==
  /\ lost + failed < MaxLost /\ n <= Len(line)
  /\ lost' = lost + 1
  /\ midiIn' = Append(midiIn, Gap)
  /\ line' = SubSeq(line, n + 1, Len(line))
  /\ UNCHANGED <<moved, surface, heard, out, turn>>

Turn(from, to) == turn = from /\ turn' = to

(* The main loop, its first part: all of MIDI_IN is fed and sent on. *)
Drain ==
  /\ Turn("surface", "feedback")
  /\ LET got == Feed([parser |-> surface, made |-> heard], midiIn)
     IN  surface' = got.parser /\ heard' = got.made
  /\ midiIn' = <<>>
  /\ UNCHANGED <<moved, line, lost, out>>

-----------------------------------------------------------------------------
(* Out: the host sends an event, which waits as the bytes ALSA's decoder makes
   of it: that leaves out a status that has not changed. *)
Asks(s) ==
  /\ Len(moved) + Len(asked) < MaxMessages
  /\ asked' = Append(asked, s)
  /\ events' = events \o Encoded(asked', Len(asked'), SameAsLast(asked', Len(asked')))
  /\ UNCHANGED <<in, feedback, channel, pending, writing, panel, shown, failed, turn>>

(* The second part: recv_bytes takes every event there is. *)
Recv ==
  /\ Turn("feedback", "send")
  /\ feedback' = events
  /\ events' = <<>>
  /\ UNCHANGED <<in, asked, channel, pending, writing, panel, shown, failed>>

(* ... and its bytes go down the channel one at a time. *)
SendByte ==
  /\ feedback # <<>> /\ Turn("send", "send")
  /\ channel' = Append(channel, Head(feedback))
  /\ feedback' = Tail(feedback)
  /\ UNCHANGED <<in, asked, events, pending, writing, panel, shown, failed>>

Again ==
  /\ feedback = <<>> /\ Turn("send", "surface")
  /\ UNCHANGED <<in, out>>

(* run_midi_out: whatever is in the channel joins what is pending. *)
Collect ==
  /\ ~writing
  /\ pending' = pending \o channel
  /\ channel' = <<>>
  /\ writing' = (pending' # <<>>)
  /\ UNCHANGED <<in, asked, events, feedback, panel, shown, failed, turn>>

Least(a, b) == IF a < b THEN a ELSE b
Taken == Least(Len(pending), PacketOut)

(* build_midi_out *)
Framed == Filled(SubSeq(pending, 1, Taken), PacketOut)

(* The device reads what came. *)
Reads(bytes) ==
  LET got == Feed([parser |-> panel, made |-> shown], bytes)
  IN  panel' = got.parser /\ shown' = got.made

(* Mistake: what a packet had no room for is dropped. *)
KeepNothing == pending' = <<>>

(* What is left is for the next packet. *)
KeepRest == pending' = SubSeq(pending, Taken + 1, Len(pending))

(* write_midi: as much as one packet holds. *)
Write ==
  /\ writing
  /\ Reads(Stripped(Framed))
  /\ KeepRest
  /\ writing' = FALSE
  /\ UNCHANGED <<in, asked, events, feedback, channel, failed, turn>>

(* Mistake: it is tried again, whether it got there or not. *)
RetryAll == UNCHANGED pending
(* "Do not wedge on a stuck pipe". *)
GiveUp == pending' = <<>>

(* A write that fails may have got there all the same; everything pending is
   thrown away. *)
WriteFails ==
  /\ writing /\ lost + failed < MaxLost
  /\ failed' = failed + 1
  /\ \E arrived \in {<<>>, Stripped(Framed)} : Reads(Append(arrived, Gap))
  /\ GiveUp
  /\ writing' = FALSE
  /\ UNCHANGED <<in, asked, events, feedback, channel, turn>>

Main == Drain \/ Recv \/ SendByte \/ Again
MidiOut == Collect \/ Write \/ WriteFails

Next ==
  \/ \E s \in Statuses : Moves(s) \/ Asks(s)
  \/ \E n \in 1..PacketIn : Packet(n) \/ PacketLost(n)
  \/ Main \/ MidiOut

Spec == Init /\ [][Next]_vars

-----------------------------------------------------------------------------
(* Of the messages made out, those nothing is missing before: each was sent, and
   none twice or late. *)
OnlyWhatWasSent(made, sent) ==
  /\ \A k \in DOMAIN made : made[k].sure =>
       \E i \in DOMAIN sent :
         made[k].status = sent[i] /\ made[k].data = [j \in 1..Wanted(sent[i]) |-> i]
  /\ \A k, l \in DOMAIN made :
       k < l /\ made[k].sure /\ made[l].sure => made[k].data[1] < made[l].data[1]

(* What Surface makes out is what the panel sent, and what the device makes out
   is what the host sent, in order and each once, however the streams were cut
   into packets, drained and collected; after a packet is lost, or a failed
   write has thrown half a message away, that is so again from the next status
   on (on_bulk_in, feed, recv_bytes, run_midi_out, write_midi). *)
AsSent ==
  /\ OnlyWhatWasSent(heard, moved)
  /\ OnlyWhatWasSent(shown, asked)

Controls(sent) == {i \in DOMAIN sent : sent[i] \notin OneByte}

(* Nothing stays behind: once a stream's buffers and channels are empty, and none
   of it was lost, whoever reads it has made out every control's message,
   wherever it was cut (on_bulk_in, cmd_run, run_midi_out). *)
NothingLeftBehind ==
  /\ line \o midiIn = <<>> /\ lost = 0 => Len(heard) = Cardinality(Controls(moved))
  /\ events \o feedback \o channel \o pending = <<>> /\ failed = 0
       => Len(shown) = Cardinality(Controls(asked))
=============================================================================
