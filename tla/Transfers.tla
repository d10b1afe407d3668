------------------------------ MODULE Transfers ------------------------------
(***************************************************************************)
(* The life of the USB transfers: started by the main thread, given back   *)
(* by libusb to a callback that submits them again, and cancelled and      *)
(* freed when their stream is dropped (iso.rs), in the orders the commands *)
(* of main.rs bring streams, event pump and device up and down.            *)
(*                                                                         *)
(* libusb runs one callback at a time, in whichever thread is handling     *)
(* events: the pump, or the main thread while it waits in a drop.          *)
(***************************************************************************)
EXTENDS Integers, SequencesExt

CONSTANTS Transfers,   \* pairs of a stream and a number, from 1
          Bulk,        \* the streams that are bulk queues
          Commands,    \* records: streams to start, ending, looksForGone, exitsWhenGone
          FailAt,      \* the numbers of the transfers start may fail on
          RoundsSuffice  \* whether libusb gives back what a drop cancelled within
                         \* the 20 rounds of events that drop waits for

(* What the main thread does, one after the other. *)
StartStep(s) == [do |-> "start", of |-> s]
DropStep(s) == [do |-> "drop", of |-> s]
Step(what) == [do |-> what, of |-> "-"]

Targets == {t[1] : t \in Transfers} \cup {"-"}
Steps == [do : {"start", "pump", "serve", "quiet", "stop", "join", "close", "drop"},
          of : Targets]

ASSUME TransferAssumption ==
  /\ IsFiniteSet(Transfers) /\ Transfers # {}
  /\ \A t \in Transfers : /\ t = <<t[1], t[2]>> /\ t[2] \in Nat \ {0}
                          /\ \A n \in 1..t[2] : <<t[1], n>> \in Transfers

ASSUME RoundsAssumption == RoundsSuffice \in BOOLEAN

(* However a command ends, it joins the pump before it drops a stream.  The
   error returns of cmd_run's debugging dumps, which do not, are no Command. *)
ASSUME CommandAssumption ==
  \A c \in Commands :
    /\ c \in [streams : Seq(Targets), ending : Seq(Steps),
              looksForGone : BOOLEAN, exitsWhenGone : BOOLEAN]
    /\ \A s \in ToSet(c.streams) : <<s, 1>> \in Transfers
    /\ \A i \in 1..Len(c.ending) :
         /\ c.ending[i].do \in {"quiet", "stop", "join", "close", "drop"}
         /\ c.ending[i].do = "drop" => \E j \in 1..i - 1 : c.ending[j].do = "join"

Given == {"completed", "gone", "cancelled"}  \* libusb has it for a callback
Flight == {"flying", "cancelling", "callback"} \cup Given
OwnedBy(s) == {t \in Transfers : t[1] = s}

VARIABLES agenda,      \* what the main thread has still to do; <<>>: it ended
          up,          \* the streams it holds, in the order it started them
          progress,    \* how far it is with the transfers of the stream in hand
          looks,       \* whether its loop looks at DEVICE_GONE
          exits,       \* whether it leaves by process::exit once the device is gone
          state,       \* of each transfer
          freed,       \* the transfers a drop has freed, and their buffers
          abandoned,   \* the transfers whose buffers went with a start that failed
          call,        \* the callback that runs: by whom, of what, how far
          pump,        \* the event pump: "unborn", "looking", "handling", "ended"
          alive,       \* alive, the pump's flag
          isoRunning,  \* ISO_RUNNING
          deviceGone,  \* DEVICE_GONE
          handle,      \* the device handle: "open", "closed"
          plugged      \* whether the device is on the bus
main == <<agenda, up, progress, exits, looks>>
usb == <<state, call>>
flags == <<alive, isoRunning, deviceGone>>
vars == <<main, usb, flags, freed, abandoned, pump, handle, plugged>>

NoCall == [by |-> "nobody", of |-> <<"-", 0>>, next |-> "-"]
Now(what) == agenda # <<>> /\ Head(agenda).do = what
Stream == Head(agenda).of

TypeOK ==
  /\ state \in [Transfers -> {"none", "idle"} \cup Flight]
  /\ freed \subseteq Transfers /\ abandoned \subseteq Transfers
  /\ call # NoCall => /\ call.by \in {"pump", "main"}
                      /\ call.next \in {"look", "submit"}
                      /\ state[call.of] = "callback"
  /\ pump \in {"unborn", "looking", "handling", "ended"}
  /\ {alive, isoRunning, deviceGone, looks, exits, plugged} \subseteq BOOLEAN
  /\ handle \in {"open", "closed"}
  /\ progress \in 0..Max({t[2] : t \in Transfers})
  /\ progress # 0 => Now("start") \/ Now("drop")

Init ==
  /\ \E c \in Commands :
       /\ agenda = [i \in 1..Len(c.streams) |-> StartStep(c.streams[i])]
                     \o <<Step("pump"), Step("serve")>> \o c.ending
       /\ looks = c.looksForGone /\ exits = c.exitsWhenGone
  /\ up = <<>> /\ progress = 0
  /\ state = [t \in Transfers |-> "none"]
  /\ freed = {} /\ abandoned = {}
  /\ call = NoCall
  /\ pump = "unborn"
  /\ alive = TRUE /\ isoRunning = TRUE /\ deviceGone = FALSE
  /\ handle = "open" /\ plugged = TRUE

-----------------------------------------------------------------------------
(* libusb and the device *)

(* A transfer ends well, or with an error that says nothing of the device. *)
Complete(t) ==
  /\ state[t] = "flying" /\ plugged
  /\ state' = [state EXCEPT ![t] = "completed"]
  /\ UNCHANGED <<main, call, flags, freed, abandoned, pump, handle, plugged>>

(* libusb gives back what it cannot keep: cancelled, or of a device that left. *)
GiveBack(t) ==
  /\ \/ /\ state[t] = "cancelling"
        /\ state' = [state EXCEPT ![t] = "cancelled"]
     \/ /\ state[t] = "flying" /\ ~plugged
        /\ state' = [state EXCEPT ![t] = "gone"]
  /\ UNCHANGED <<main, call, flags, freed, abandoned, pump, handle, plugged>>

(* After the streams are up: a device lost before is a submission that fails. *)
Unplug ==
  /\ plugged /\ ~Now("start")
  /\ plugged' = FALSE
  /\ UNCHANGED <<main, usb, flags, freed, abandoned, pump, handle>>

-----------------------------------------------------------------------------
(* The callbacks *)

Waits == Now("drop") /\ OwnedBy(Stream) \subseteq {t \in Transfers : t[2] <= progress}
Handles(by) == IF by = "pump" THEN pump = "handling" ELSE Waits

(* What the callback concludes from the status: is the transfer over for good? *)
Over(t) == state[t] = "cancelled" \/ (state[t] = "gone" /\ t[1] \in Bulk)

(* Mistake: a cancelled transfer is submitted again like any other. *)
BeginBlind(by, t) ==
  /\ call = NoCall /\ Handles(by) /\ state[t] \in Given
  /\ state' = [state EXCEPT ![t] = "callback"]
  /\ call' = [by |-> by, of |-> t, next |-> "look"]
  /\ deviceGone' = (deviceGone \/ (state[t] = "gone" /\ t[1] \in Bulk))
  /\ UNCHANGED <<main, alive, isoRunning, freed, abandoned, pump, handle, plugged>>

(* Mistake: a device that left is an error like any other. *)
BeginDeaf(by, t) ==
  /\ call = NoCall /\ Handles(by) /\ state[t] \in Given
  /\ IF state[t] = "cancelled"
       THEN state' = [state EXCEPT ![t] = "idle"] /\ UNCHANGED call
       ELSE /\ state' = [state EXCEPT ![t] = "callback"]
            /\ call' = [by |-> by, of |-> t, next |-> "look"]
  /\ UNCHANGED <<main, flags, freed, abandoned, pump, handle, plugged>>

(* on_complete, on_bulk_in as far as the statuses and the payload. *)
Begin(by, t) ==
  /\ call = NoCall /\ Handles(by) /\ state[t] \in Given
  /\ deviceGone' = (deviceGone \/ (state[t] = "gone" /\ t[1] \in Bulk))
  /\ IF Over(t)
       THEN state' = [state EXCEPT ![t] = "idle"] /\ UNCHANGED call
       ELSE /\ state' = [state EXCEPT ![t] = "callback"]
            /\ call' = [by |-> by, of |-> t, next |-> "look"]
  /\ UNCHANGED <<main, alive, isoRunning, freed, abandoned, pump, handle, plugged>>

(* The load of ISO_RUNNING. *)
Look ==
  /\ call.next = "look"
  /\ IF isoRunning
       THEN call' = [call EXCEPT !.next = "submit"] /\ UNCHANGED state
       ELSE call' = NoCall /\ state' = [state EXCEPT ![call.of] = "idle"]
  /\ UNCHANGED <<main, flags, freed, abandoned, pump, handle, plugged>>

(* libusb_submit_transfer, whose answer is not looked at. *)
Resubmit ==
  /\ call.next = "submit"
  /\ state' = [state EXCEPT
                 ![call.of] = IF plugged /\ handle = "open" THEN "flying" ELSE "idle"]
  /\ call' = NoCall
  /\ UNCHANGED <<main, flags, freed, abandoned, pump, handle, plugged>>

-----------------------------------------------------------------------------
(* The event pump *)

(* Mistake: nobody tells the pump to stop. *)
PumpLooksAway ==
  /\ pump = "looking"
  /\ pump' = "handling"
  /\ UNCHANGED <<main, usb, flags, freed, abandoned, handle, plugged>>

PumpLooks ==
  /\ pump = "looking"
  /\ pump' = IF alive THEN "handling" ELSE "ended"
  /\ UNCHANGED <<main, usb, flags, freed, abandoned, handle, plugged>>

(* pump_events comes back: something was handled, or 100 ms went by. *)
PumpReturns ==
  /\ pump = "handling" /\ call.by # "pump"
  /\ pump' = "looking"
  /\ UNCHANGED <<main, usb, flags, freed, abandoned, handle, plugged>>

-----------------------------------------------------------------------------
(* The main thread *)

Submitted(s, n) == {t \in OwnedBy(s) : t[2] <= n}

(* IsoStream::start, BulkInStream::start: the next transfer is submitted. *)
SubmitNext ==
  /\ Now("start")
  /\ LET t == <<Stream, progress + 1>>
     IN  /\ state' = [state EXCEPT ![t] = "flying"]
         /\ IF OwnedBy(Stream) = Submitted(Stream, progress + 1)
              THEN /\ agenda' = Tail(agenda) /\ progress' = 0
                   /\ up' = Append(up, Stream)
              ELSE progress' = progress + 1 /\ UNCHANGED <<agenda, up>>
  /\ UNCHANGED <<exits, looks, call, flags, freed, abandoned, pump, handle, plugged>>

(* What an error return does: the locals are dropped, the last one first. *)
Unwinding(streams) ==
  [i \in 1..Len(streams) |-> DropStep(Reverse(streams)[i])] \o <<Step("close")>>

(* The submission of the next one fails: it is freed, and the buffers of those
   before it go with the Vec that owns them, while libusb has the transfers.
   What becomes of memory that is written to then is not followed. *)
SubmitFails ==
  /\ Now("start") /\ progress + 1 \in FailAt
  /\ abandoned' = abandoned \cup Submitted(Stream, progress)
  /\ agenda' = Unwinding(up) /\ progress' = 0
  /\ UNCHANGED <<up, exits, looks, usb, flags, freed, pump, handle, plugged>>

StartPump ==
  /\ Now("pump")
  /\ pump' = "looking"
  /\ agenda' = Tail(agenda)
  /\ UNCHANGED <<up, progress, exits, looks, usb, flags, freed, abandoned, handle, plugged>>

(* The command is told to stop, or done, or a message to the device fails. *)
Finish ==
  /\ Now("serve")
  /\ agenda' = Tail(agenda)
  /\ UNCHANGED <<up, progress, exits, looks, usb, flags, freed, abandoned, pump, handle, plugged>>

(* DEVICE_GONE, where it is looked at: the loop breaks, or the process ends and
   takes all with it. *)
NoticeGone ==
  /\ Now("serve") /\ looks /\ deviceGone
  /\ IF exits
       THEN /\ agenda' = <<>> /\ up' = <<>> /\ pump' = "ended" /\ call' = NoCall
            /\ state' = [t \in Transfers |-> "none"]
       ELSE /\ agenda' = Tail(agenda) /\ UNCHANGED <<up, pump, usb>>
  /\ UNCHANGED <<progress, exits, looks, flags, freed, abandoned, handle, plugged>>

(* alive, then ISO_RUNNING, which only some commands lower. *)
LowerFlag ==
  /\ \/ Now("stop") /\ alive' = FALSE /\ UNCHANGED isoRunning
     \/ Now("quiet") /\ isoRunning' = FALSE /\ UNCHANGED alive
  /\ agenda' = Tail(agenda)
  /\ UNCHANGED <<up, progress, exits, looks, deviceGone, usb, freed, abandoned, pump,
                 handle, plugged>>

JoinPump ==
  /\ Now("join") /\ pump = "ended"
  /\ agenda' = Tail(agenda)
  /\ UNCHANGED <<up, progress, exits, looks, usb, flags, freed, abandoned, pump, handle, plugged>>

(* Ns6 is dropped. *)
Close ==
  /\ Now("close")
  /\ handle' = "closed"
  /\ agenda' = Tail(agenda)
  /\ UNCHANGED <<up, progress, exits, looks, usb, flags, freed, abandoned, pump, plugged>>

(* What libusb_cancel_transfer makes of a transfer: nothing, unless libusb has
   it and has not begun its callback. *)
Cancelled(was) ==
  CASE was = "flying" -> "cancelling" [] was = "completed" -> "cancelled" [] OTHER -> was

(* Drop of a stream, its first loop. *)
CancelNext ==
  /\ Now("drop") /\ ~Waits
  /\ progress' = progress + 1
  /\ state' = [state EXCEPT ![<<Stream, progress + 1>>] = Cancelled(@)]
  /\ UNCHANGED <<agenda, up, exits, looks, call, flags, freed, abandoned, pump, handle, plugged>>

(* The end of a drop's wait: 20 rounds, over after 20 ms or an event each.  When
   they suffice, what libusb gives back of itself has come back by then. *)
WaitIsOver ==
  RoundsSuffice => \A t \in OwnedBy(Stream) :
                     state[t] \notin {"cancelling", "cancelled", "gone"}

(* Mistake: the place among the transfers is kept for the next stream. *)
FreeAllKeepsPlace ==
  /\ Waits /\ call.by # "main" /\ WaitIsOver
  /\ freed' = freed \cup OwnedBy(Stream)
  /\ up' = SelectSeq(up, LAMBDA s : s # Stream)
  /\ agenda' = Tail(agenda)
  /\ UNCHANGED <<progress, exits, looks, usb, flags, abandoned, pump, handle, plugged>>

(* Its second and third: whatever libusb still has then, it is freed. *)
FreeAll ==
  /\ Waits /\ call.by # "main" /\ WaitIsOver
  /\ freed' = freed \cup OwnedBy(Stream)
  /\ up' = SelectSeq(up, LAMBDA s : s # Stream)
  /\ agenda' = Tail(agenda) /\ progress' = 0
  /\ UNCHANGED <<exits, looks, usb, flags, abandoned, pump, handle, plugged>>

MainNext ==
  \/ SubmitNext \/ SubmitFails \/ StartPump
  \/ Finish \/ NoticeGone
  \/ LowerFlag \/ JoinPump \/ Close
  \/ CancelNext \/ FreeAll

Next ==
  \/ \E t \in Transfers : Complete(t) \/ GiveBack(t)
  \/ \E by \in {"pump", "main"}, t \in Transfers : Begin(by, t)
  \/ Look \/ Resubmit
  \/ PumpLooks \/ PumpReturns
  \/ MainNext
  \/ Unplug

(* Threads run; what is ready is handled, whoever handles it, and the waits of a
   drop end, though other transfers keep coming. Nothing makes a transfer
   complete, a device leave or a user stop a command. *)
Fairness ==
  /\ \A t \in Transfers : /\ WF_vars(GiveBack(t))
                          /\ SF_vars(Begin("pump", t))
                          /\ SF_vars(Begin("main", t))
  /\ WF_vars(Look) /\ WF_vars(Resubmit)
  /\ WF_vars(PumpLooks) /\ SF_vars(PumpReturns)
  /\ WF_vars(SubmitNext) /\ WF_vars(StartPump) /\ WF_vars(NoticeGone)
  /\ WF_vars(LowerFlag) /\ WF_vars(JoinPump) /\ WF_vars(Close)
  /\ WF_vars(CancelNext) /\ SF_vars(FreeAll)

Spec == Init /\ [][Next]_vars /\ Fairness

-----------------------------------------------------------------------------
(* Nothing libusb has, or is about to be given back, is freed in a drop: the
   cancelling, resubmitting and freeing of Drop, on_complete and on_bulk_in never
   cross, if libusb gives back what is cancelled within the rounds Drop waits. *)
BufferOutlives == \A t \in freed : state[t] \notin Flight

(* Nothing libusb has loses its buffer with a start that fails.  This is what should
   be, a transfer coming "together with the buffer it points at" (IsoTransfer), and
   is not so: start neither cancels nor waits (IsoStream::start, BulkInStream::start). *)
FailedStartIsClean == \A t \in abandoned : state[t] \notin Flight

(* No transfer is in flight on a handle that is closed, and no stream is held:
   the device outlives the streams, on the way out and on an error. *)
HandleOutlives ==
  handle = "closed" => up = <<>> /\ \A t \in Transfers : state[t] \notin Flight

(* What must not be waited for any longer: a device that left under a posted bulk
   transfer, which tells on_bulk_in so. *)
LeftUnder == ~plugged /\ \E t \in Transfers : t[1] \in Bulk /\ state[t] = "flying"

(* A command that looks at DEVICE_GONE does not go on with a device that left:
   the flag is raised and acted on (on_bulk_in, cmd_run, cmd_audio, cmd_stream). *)
GoneIsNoticed == (Now("serve") /\ looks /\ LeftUnder) ~> ~Now("serve")

(* "Far better to exit": no command goes on with a device that left (DEVICE_GONE).
   This is what should be, and is not so of those that do not look at it. *)
GoneEndsCommands == (Now("serve") /\ LeftUnder) ~> ~Now("serve")

(* A command that has begun to end does end: the pump is joined and every drop
   returns, whatever is still coming in. *)
Ends == (Now("stop") \/ Now("drop") \/ Now("close")) ~> agenda = <<>>
=============================================================================
