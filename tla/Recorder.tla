------------------------------ MODULE Recorder ------------------------------
(***************************************************************************)
(* `ns6 map`: the panel is watched for a moment untouched, then a person   *)
(* moves one control after the other and says what each was.  The main     *)
(* loop of cmd_run hears what moved, offers the batch once it has been     *)
(* quiet for long enough, and takes the lines a second thread reads off    *)
(* the terminal; what was named is written when it ends, and carried over  *)
(* into the next session.                                                  *)
(* A control is its key on the wire; of its values only how many messages  *)
(* it has sent is kept.                                                    *)
(***************************************************************************)
EXTENDS Integers, Sequences, FiniteSets, SequencesExt

CONSTANTS Notes,             \* the controls that send notes
          Ccs,               \* and those that send control changes
          CONTINUOUS_EVENTS, \* messages before one of those is taken seriously
          Announced,         \* messages that are no more than an announcement
          MaxCount,          \* bound: the messages of one control in a session
          MaxTyped,          \* bound: lines typed and not yet read
          MaxSessions        \* bound: how often the command is run

Controls == Notes \union Ccs
BUTTON_EVENTS == 1
NOISE_FLOOR == 2

ASSUME RecorderAssumption ==
  /\ IsFiniteSet(Controls) /\ Notes \intersect Ccs = {}
  /\ {CONTINUOUS_EVENTS, Announced, MaxCount, MaxTyped, MaxSessions} \subseteq Nat \ {0}

VARIABLES count,     \* Surface: the messages each control has sent
          baseline, noisy, claimed, pending, settled, naming, entries,  \* Recorder
          shown,     \* the batch the person is being asked about
          typed,     \* the lines on their way to the main loop
          file,      \* the surface map on disk
          at,        \* where cmd_run is
          session    \* how often it has been started
vars == <<count, baseline, noisy, claimed, pending, settled, naming, entries,
          shown, typed, file, at, session>>
recorder == <<baseline, noisy, claimed, pending, settled, naming, entries, shown>>

Lines == {"name", "", "q"}
Named(es) == UNION {es[i] : i \in DOMAIN es}

(* `pending` remembers the count a control had when it was last heard. *)
Batch == DOMAIN pending
NoBatch == <<>>

TypeOK ==
  /\ {count, baseline} \subseteq [Controls -> 0..MaxCount]
  /\ {noisy, claimed, shown} \subseteq SUBSET Controls
  /\ Batch \subseteq Controls /\ \A c \in Batch : pending[c] \in 1..count[c]
  /\ settled \in {"none", "lately", "long ago"} /\ (settled = "none") = (Batch = {})
  /\ naming \in BOOLEAN
  /\ {entries, file} \subseteq Seq(SUBSET Controls)
  /\ typed \in Seq(Lines) /\ Len(typed) <= MaxTyped
  /\ at \in {"calibrate", "drain", "poll", "line", "over"}
  /\ session \in 1..MaxSessions

Nothing == [c \in Controls |-> 0]

Init ==
  /\ baseline = Nothing /\ noisy = {} /\ claimed = {} /\ entries = <<>>
  /\ pending = NoBatch /\ settled = "none" /\ naming = FALSE /\ shown = {}
  /\ count = Nothing /\ typed = <<>> /\ file = <<>>
  /\ at = "calibrate" /\ session = 1

-----------------------------------------------------------------------------
(* The panel and Surface::feed: one more message of a control. *)
Feed(c) ==
  /\ count[c] < MaxCount
  /\ count' = [count EXCEPT ![c] = @ + 1]

(* "Calibrating - don't touch anything for a moment". *)
Announce(c) ==
  /\ at = "calibrate"
  /\ Feed(c)
  /\ UNCHANGED <<recorder, typed, file, at, session>>

(* Mistake: a session starts from an empty surface. *)
LoadNothing == claimed' = {} /\ entries' = <<>>

(* Recorder::load: everything in the file is claimed. *)
Load == claimed' = Named(file) /\ entries' = file

(* Recorder::new, then load. *)
Ready ==
  /\ at = "calibrate"
  /\ baseline' = count
  /\ noisy' = {c \in Controls : count[c] > Announced}
  /\ Load
  /\ at' = "drain"
  /\ UNCHANGED <<count, pending, settled, naming, shown, typed, file, session>>

-----------------------------------------------------------------------------
Moved(c, n) == n - (IF baseline[c] < n THEN baseline[c] ELSE n)
Needed(c) == IF c \in Notes THEN BUTTON_EVENTS ELSE CONTINUOUS_EVENTS

(* Mistake: what moves while a name is typed joins the batch. *)
ListensAlways(c) == c \notin claimed
(* Mistake: a control that has its name is asked about again. *)
ListensToAll(c) == ~naming

Listens(c) == ~naming /\ c \notin claimed

Joins(c) ==
  /\ pending' = [d \in Batch \union {c} |-> IF d = c THEN count'[c] ELSE pending[d]]
  /\ settled' = "lately"

(* The loop's first part: MIDI_IN is drained, any number of messages at a
   time, and each is fed and observed. *)
Observe(c) ==
  /\ at = "drain"
  /\ Feed(c)
  /\ IF Listens(c) /\ Moved(c, count'[c]) >= Needed(c)
       THEN Joins(c)
       ELSE UNCHANGED <<pending, settled>>
  /\ UNCHANGED <<baseline, noisy, claimed, naming, entries, shown, typed, file,
                 at, session>>

Drained ==
  /\ at = "drain"
  /\ at' = "poll"
  /\ UNCHANGED <<count, recorder, typed, file, session>>

(* drop_chatter: a noisy control stays if it did at least its share of the
   messages of the busiest. *)
Stays(c) ==
  c \in noisy =>
    \A d \in Batch : Moved(c, pending[c]) * NOISE_FLOOR >= Moved(d, pending[d])
WithoutChatter == {c \in Batch : Stays(c)}

(* The second part: a batch that has been quiet long enough is offered.  One
   control is always the busiest, so something is left of it. *)
Offer ==
  /\ ~naming /\ Batch # {} /\ settled = "long ago"
  /\ pending' = [c \in WithoutChatter |-> pending[c]]
  /\ shown' = WithoutChatter
  /\ naming' = TRUE

Poll ==
  /\ at = "poll"
  /\ at' = "line"
  /\ \/ Offer
     \/ /\ naming \/ Batch = {} \/ settled # "long ago"
        /\ UNCHANGED <<pending, shown, naming>>
  /\ UNCHANGED <<count, baseline, noisy, claimed, settled, entries, typed, file, session>>

(* SETTLE, 600 ms, goes by. *)
Quiet ==
  /\ settled = "lately"
  /\ settled' = "long ago"
  /\ UNCHANGED <<count, baseline, noisy, claimed, pending, naming, entries,
                 shown, typed, file, at, session>>

-----------------------------------------------------------------------------
(* The thread on the terminal: a line can be typed at any time. *)
Type(line) ==
  /\ at \in {"drain", "poll", "line"}
  /\ Len(typed) < MaxTyped
  /\ typed' = Append(typed, line)
  /\ UNCHANGED <<count, recorder, file, at, session>>

Settled == pending' = NoBatch /\ settled' = "none" /\ naming' = FALSE /\ shown' = {}

Name ==
  /\ entries' = Append(entries, Batch)
  /\ claimed' = claimed \union Batch
  /\ Settled

Discard == Settled /\ UNCHANGED <<entries, claimed>>

(* A line before there is anything to name changes nothing. *)
Ignore == UNCHANGED <<claimed, pending, settled, naming, entries, shown>>

(* The third part: at most one line. *)
Line ==
  /\ at = "line"
  /\ \/ typed = <<>> /\ Ignore /\ UNCHANGED typed /\ at' = "drain"
     \/ /\ typed # <<>>
        /\ typed' = Tail(typed)
        /\ \/ Head(typed) = "q" /\ Ignore /\ at' = "over"
           \/ Head(typed) # "q" /\ ~naming /\ Ignore /\ at' = "drain"
           \/ Head(typed) = "" /\ naming /\ Discard /\ at' = "drain"
           \/ Head(typed) = "name" /\ naming /\ Name /\ at' = "drain"
  /\ UNCHANGED <<count, baseline, noisy, session>>
  /\ file' = IF at' = "over" THEN entries' ELSE file

(* A signal, or a device that left the bus. *)
Stop ==
  /\ at = "drain"
  /\ at' = "over"
  /\ file' = entries
  /\ UNCHANGED <<count, recorder, typed, session>>

(* The next session. *)
Again ==
  /\ at = "over" /\ session < MaxSessions
  /\ session' = session + 1
  /\ count' = Nothing /\ baseline' = Nothing /\ noisy' = {}
  /\ claimed' = {} /\ entries' = <<>> /\ typed' = <<>>
  /\ Settled
  /\ at' = "calibrate"
  /\ UNCHANGED file

Loop == Drained \/ Poll \/ Line

Next ==
  \/ Ready \/ Loop \/ Quiet \/ Stop \/ Again
  \/ \E c \in Controls : Announce(c) \/ Observe(c)
  \/ \E line \in Lines : Type(line)

Spec == Init /\ [][Next]_vars

-----------------------------------------------------------------------------
(* Every control has at most one name, over all sessions, and is not offered
   once it has it: "those controls are not offered a second time" (observe,
   name, load). *)
NamedOnce ==
  /\ \A i, j \in DOMAIN entries : i # j => entries[i] \intersect entries[j] = {}
  /\ Batch \intersect Named(entries) = {}

(* What is recorded is what the person was shown, whatever moved while the
   name was typed and whenever the line arrived (poll, observe, name). *)
NamesWhatWasShown ==
  [][entries' # entries /\ at \notin {"calibrate", "over"} =>
       entries' = Append(entries, shown)]_vars

(* "So a second session adds to it instead of starting over": no session ever
   costs the file an entry, not one that is broken off at once either (load,
   cmd_run). *)
FileGrows == [][IsPrefix(file, file')]_vars
=============================================================================
