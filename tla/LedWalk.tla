------------------------------- MODULE LedWalk -------------------------------
(***************************************************************************)
(* `ns6 leds`: a person steps through everything that can be sent to the   *)
(* panel, one message lit at a time, and describes what lights up.  Some   *)
(* messages take the device off the bus; the walk ends, the device is      *)
(* power-cycled, and the next run picks up from the map the last one left. *)
(* A candidate is its position in the walk: numbers within channels.  What *)
(* is a hazard is a number, whatever its channel.  A description is left   *)
(* out, only that there is one is kept.  NS6_LED_UNSAFE is not set.        *)
(***************************************************************************)
EXTENDS Integers, FiniteSets

CONSTANTS Channels,  \* how many channels the walk goes through
          Numbers,   \* and how many numbers on each
          HAZARDS,   \* the numbers known to drop the device from the start
          Deadly,    \* those that do, known or not
          MaxRuns,   \* bound: how often the command is run
          MaxPast,   \* bound: steps past the end of the list
          MaxFound,  \* bound: candidates that are described
          MaxTears   \* bound: writes of the map that do not come to their end

ASSUME LedWalkAssumption ==
  /\ {Channels, Numbers, MaxRuns} \subseteq Nat \ {0}
  /\ {MaxPast, MaxFound, MaxTears} \subseteq Nat
  /\ HAZARDS \cup Deadly \subseteq 0..Numbers - 1

Total == Channels * Numbers
Candidates == 0..Total - 1
Number(c) == c % Numbers
None == -1

VARIABLES index, started, found, learned,  \* LedWalk
          lit,      \* cmd_leds's `lit`
          file,     \* the map on disk: what is described, what is a hazard
          torn,     \* whether the last write of it failed or was cut short
          tears,    \* how often that has happened
          at,       \* where cmd_leds is
          runs,     \* how often it has been started
          up,       \* the device is on the bus
          doomed,   \* it has been sent what drops it
          panel,    \* what is lit on it
          wire,     \* what the last step sent, and whether on or off
          blamed    \* the numbers a walk has recorded as destructive, but those
                    \* a run could not load because their write was torn
vars == <<index, started, found, learned, lit, file, torn, tears, at, runs, up, doomed,
          panel, wire, blamed>>
walk == <<index, started, found, learned>>
device == <<up, doomed, panel>>
disk == <<file, torn, tears>>

TypeOK ==
  /\ index \in 0..Total + MaxPast
  /\ {started, torn, up, doomed} \subseteq BOOLEAN
  /\ {found, learned, panel} \subseteq SUBSET Candidates
  /\ lit \in Candidates \union {None}
  /\ file \in [found : SUBSET Candidates, learned : SUBSET Candidates]
  /\ at \in {"walking", "cleanup", "over"}
  /\ runs \in 0..MaxRuns /\ tears \in 0..MaxTears
  /\ wire \subseteq Candidates \X BOOLEAN
  /\ blamed \subseteq 0..Numbers - 1

Init ==
  /\ index = 0 /\ started = FALSE /\ found = {} /\ learned = {}
  /\ lit = None
  /\ file = [found |-> {}, learned |-> {}] /\ torn = FALSE /\ tears = 0
  /\ at = "walking" /\ runs = 1
  /\ up = TRUE /\ doomed = FALSE /\ panel = {}
  /\ wire = {} /\ blamed = {}

-----------------------------------------------------------------------------
(* Mistake: a hazard only on the channel it was found on. *)
IsHazardThere(c) == (Number(c) \in HAZARDS) \/ (c \in learned)

(* is_hazard *)
IsHazard(c) == Number(c) \in HAZARDS \union {Number(d) : d \in learned}

Current == IF index < Total THEN index ELSE None

(* Whether HAZARDS has it already does depend on the channel: it names the one
   a hazard was found on, the first, where a candidate is its number. *)
MarkHazard(c) ==
  IF c \in HAZARDS THEN learned ELSE learned \union {c}

(* Where the walk goes: the index may run past the end, and not below zero. *)
Advance == IF started THEN index + 1 ELSE index

(* Mistake: a step back that does not stop at the first. *)
BackAlways == index - 1

Back == IF index = 0 THEN 0 ELSE index - 1

(* seek, to the n-th; without one the walk is where `new` has left it. *)
Seek(n) ==
  /\ index' = (CASE n = 0 -> 0 [] n > Total -> Total - 1 [] OTHER -> n - 1)
  /\ started' = (n > 0)

(* record: a second description takes the place of the first. *)
Record == found \union {Current}

-----------------------------------------------------------------------------
(* The device: what drops it may be acknowledged first, and the next few
   messages too. *)
Dies == up' = FALSE /\ doomed' = FALSE /\ panel' = {}
Kills(c) == Number(c) \in Deadly

(* Mistake: what was lit is left on when the walk moves. *)
DarkenNothing == panel

(* What is lit once the light shown has been sent its off. *)
Darken == panel \ {lit}
OffSent == {<<c, FALSE>> : c \in {lit} \ {None}}

(* What the first digits of a candidate's number may read as. *)
Shortened(c) == {d \in Candidates : d < c /\ d \div Numbers = c \div Numbers}

(* The first of some entries, the number of the last perhaps cut short. *)
SomeOf(S) ==
  (SUBSET S) \union {T \union {d} : T \in SUBSET S, d \in UNION {Shortened(c) : c \in S}}

(* What a write of the map leaves that does not come to its end: the map there
   was, or the beginning of the new one, the hazards before the descriptions. *)
BrokenOff(f, l) ==
  {file} \union [found : {{}}, learned : SomeOf(l)] \union [found : SomeOf(f), learned : {l}]

Whole(f, l) ==
  /\ file' = [found |-> f, learned |-> l] /\ torn' = FALSE
  /\ UNCHANGED tears
Torn(f, l) ==
  /\ tears < MaxTears /\ tears' = tears + 1
  /\ file' \in BrokenOff(f, l) /\ torn' = TRUE

(* Mistake: the map is only written when the command ends. *)
SaveLater(f, l) == UNCHANGED disk

(* fs::write(LED_MAP, walk.to_toml()), in place: whether it failed makes no
   difference to what the command does next.  A kill in its midst is a write that
   is broken off, and then Killed. *)
Save(f, l) == Whole(f, l) \/ Torn(f, l)

(* The off of the last light fails: out by the question mark. *)
OffFails ==
  /\ lit # None /\ (~up \/ doomed)
  /\ Dies
  /\ wire' = OffSent
  /\ at' = "over"
  /\ UNCHANGED <<walk, lit, disk, blamed>>

MovesTo(i) ==
  /\ i <= Total + MaxPast
  /\ (lit # None => up)
  /\ index' = i /\ started' = TRUE

(* Past the end of the list, or at what is known to drop the device: nothing
   is sent. *)
ShowNothing(i) ==
  /\ MovesTo(i)
  /\ i < Total => IsHazard(i)
  /\ lit' = None
  /\ panel' = Darken /\ wire' = OffSent
  /\ UNCHANGED <<found, learned, disk, at, up, doomed, blamed>>

Show(i) ==
  /\ MovesTo(i)
  /\ i < Total /\ ~IsHazard(i)
  /\ up
  /\ lit' = i
  /\ panel' = Darken \union {i}
  /\ doomed' = (doomed \/ Kills(i))
  /\ wire' = OffSent \union {<<i, TRUE>>}
  /\ UNCHANGED <<found, learned, disk, at, up, blamed>>

(* The candidate that could not be sent is the one that is blamed. *)
ShowFails(i) ==
  /\ MovesTo(i)
  /\ i < Total /\ ~IsHazard(i)
  /\ ~up \/ doomed \/ Kills(i)
  /\ Dies
  /\ wire' = OffSent \union {<<i, TRUE>>}
  /\ learned' = MarkHazard(i)
  /\ Save(found, MarkHazard(i))
  /\ blamed' = blamed \union {Number(i)}
  /\ at' = "cleanup"
  /\ UNCHANGED <<found, lit>>

Arrow ==
  /\ at = "walking"
  /\ \/ OffFails
     \/ \E i \in {Advance, Back} : ShowNothing(i) \/ Show(i) \/ ShowFails(i)
  /\ UNCHANGED runs

(* Enter, and a line that is not empty: whatever the walk is at, lit or not. *)
Describe ==
  /\ at = "walking"
  /\ Current # None
  /\ found' = Record /\ Cardinality(Record) <= MaxFound
  /\ Save(found', learned)
  /\ wire' = {}
  /\ UNCHANGED <<index, started, learned, lit, at, runs, device, blamed>>

(* The command is killed, or its terminal closed. *)
Killed ==
  /\ at \in {"walking", "cleanup"}
  /\ at' = "over"
  /\ wire' = {}
  /\ UNCHANGED <<walk, lit, disk, runs, device, blamed>>

(* q, or a signal. *)
Quit ==
  /\ at = "walking"
  /\ at' = "cleanup"
  /\ wire' = {}
  /\ UNCHANGED <<walk, lit, disk, runs, device, blamed>>

(* "Leave nothing lit": everything there is is sent its off, and whether it
   arrives nobody looks.  Then the map is written. *)
Cleanup ==
  /\ at = "cleanup"
  /\ wire' = Candidates \X {FALSE}
  /\ panel' = {}
  /\ doomed' \in {doomed, up}
  /\ Save(found, learned)
  /\ at' = "over"
  /\ UNCHANGED <<walk, lit, runs, up, blamed>>

(* The device leaves the bus, a moment after it was told to. *)
Drop ==
  /\ up /\ doomed
  /\ Dies
  /\ wire' = {}
  /\ UNCHANGED <<walk, lit, disk, at, runs, blamed>>

-----------------------------------------------------------------------------
(* LedWalk::load, then NS6_LED_SKIP. *)
Load(skip) ==
  /\ found' = file.found
  /\ learned' = file.learned \union (skip \ HAZARDS)

(* Run again on a device that was power-cycled, from the start or from the
   n-th candidate (NS6_LED_START), with perhaps one of NS6_LED_SKIP. *)
Start(n, skip) ==
  /\ at = "over" /\ runs < MaxRuns
  /\ runs' = runs + 1
  /\ Seek(n)
  /\ Load(skip)
  /\ lit' = None /\ at' = "walking"
  /\ up' = TRUE /\ doomed' = FALSE /\ panel' = {}
  /\ wire' = {}
  /\ blamed' = IF torn THEN blamed \intersect {Number(d) : d \in file.learned} ELSE blamed
  /\ torn' = FALSE
  /\ UNCHANGED <<file, tears>>

Next ==
  \/ Arrow \/ Describe \/ Quit \/ Killed \/ Cleanup \/ Drop
  \/ \E n \in 0..Total + 1, skip \in {{}} \union {{c} : c \in Candidates} : Start(n, skip)

Spec == Init /\ [][Next]_vars

-----------------------------------------------------------------------------
(* "It sends one note at a time and leaves it lit until the next": nothing is
   lit but what is shown, through skips, the ends of the list and steps back. *)
OneLit == panel \subseteq {lit}

(* What was described once is in every later run, whatever took the device or
   the command down in between, unless the last write of the map was torn: an
   earlier one that failed is made good by the next (record, to_toml, load,
   cmd_leds). *)
NeverForgets ==
  [][found \subseteq found' \/ (at = "over" /\ torn)]_vars

(* A number a walk has blamed, or knew from the start, is never lit again, on
   any channel, in this run or a later one, wherever that one starts, as long as
   the map that names it was written (mark_hazard, is_hazard, load). *)
StepsOver ==
  [][\A c \in Candidates : <<c, TRUE>> \in wire' => Number(c) \notin HAZARDS \union blamed]_vars
=============================================================================
