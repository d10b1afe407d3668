---------------------------- MODULE LedWalkProofs ----------------------------
(***************************************************************************)
(* LedWalk for any number of channels, numbers and runs, and whatever      *)
(* messages the device dies of: one light at a time, and, but for a map    *)
(* whose last write was torn, nothing described is lost, and what was      *)
(* blamed once is never lit again.                                         *)
(***************************************************************************)
EXTENDS LedWalk, TLAPS

LEMMA SomeCandidates == Total \in Nat /\ Total > 0
<1>1. Channels \in Nat /\ Numbers \in Nat /\ Channels > 0 /\ Numbers > 0
  BY LedWalkAssumption
<1>2. \A a, b \in Nat : a > 0 /\ b > 0 => a * b \in Nat /\ a * b > 0
  BY SMT
<1>3. QED BY <1>1, <1>2 DEF Total

(* A number is one of those on a channel; on the first a candidate is its own. *)
LEMMA NumberInRange ==
  ASSUME NEW c \in Candidates
  PROVE  /\ Number(c) \in 0..Numbers - 1
         /\ c < Numbers => Number(c) = c
<1>1. Numbers \in Nat /\ Numbers > 0 /\ c \in Nat
  BY LedWalkAssumption, SomeCandidates DEF Candidates
<1>2. QED BY <1>1, SMT DEF Number

-----------------------------------------------------------------------------
(* Where an arrow can go, and what going there keeps of the types. *)
LEMMA PlacesAreNumbers ==
  ASSUME TypeOK, NEW i \in {Advance, Back}
  PROVE  i \in Nat
  BY SomeCandidates, LedWalkAssumption DEF TypeOK, Advance, Back

LEMMA MarkHazardMarks ==
  ASSUME TypeOK, NEW c \in Candidates
  PROVE  MarkHazard(c) \in SUBSET Candidates /\ learned \subseteq MarkHazard(c)
  BY DEF MarkHazard, TypeOK

(* What is on the wire: a candidate, on or off. *)
LEMMA OnOrOff ==
  ASSUME NEW c \in Candidates
  PROVE  <<c, TRUE>> \in Candidates \X BOOLEAN /\ <<c, FALSE>> \in Candidates \X BOOLEAN
<1>1. TRUE \in BOOLEAN /\ FALSE \in BOOLEAN
  OBVIOUS
<1>2. QED BY <1>1

LEMMA OffsAreSent ==
  ASSUME TypeOK
  PROVE  OffSent \subseteq Candidates \X BOOLEAN
<1>1. \A c \in {lit} \ {None} : c \in Candidates
  BY DEF TypeOK
<1>2. QED BY <1>1, OnOrOff, Zenon DEF OffSent

LEMMA DarkenDarkens == Darken \subseteq panel
  BY DEF Darken

LEMMA BrokenOffIsAMap ==
  ASSUME TypeOK, NEW f \in SUBSET Candidates, NEW l \in SUBSET Candidates
  PROVE  BrokenOff(f, l) \subseteq [found : SUBSET Candidates, learned : SUBSET Candidates]
<1>1. \A c \in Candidates : Shortened(c) \subseteq Candidates
  BY DEF Shortened
<1>2. \A S \in SUBSET Candidates : SomeOf(S) \subseteq SUBSET Candidates
  <2> TAKE S \in SUBSET Candidates
  <2>1. \A d \in UNION {Shortened(c) : c \in S} : d \in Candidates
    BY <1>1
  <2>2. ASSUME NEW T \in SUBSET S, NEW d \in UNION {Shortened(c) : c \in S}
        PROVE  T \union {d} \subseteq Candidates
    BY <2>1
  <2>3. QED BY <2>2 DEF SomeOf
<1>3. SomeOf(f) \subseteq SUBSET Candidates /\ SomeOf(l) \subseteq SUBSET Candidates
  BY <1>2
<1>4. QED BY <1>3 DEF BrokenOff, TypeOK

(* A write of the map, whether or not it comes to its end. *)
LEMMA SaveType ==
  ASSUME TypeOK, NEW f \in SUBSET Candidates, NEW l \in SUBSET Candidates, Save(f, l)
  PROVE  /\ file' \in [found : SUBSET Candidates, learned : SUBSET Candidates]
         /\ torn' \in BOOLEAN /\ tears' \in 0..MaxTears
<1>1. CASE Whole(f, l)
  BY <1>1 DEF Whole, TypeOK
<1>2. CASE Torn(f, l)
  <2>1. tears' \in 0..MaxTears
    BY <1>2, LedWalkAssumption DEF Torn, TypeOK
  <2>2. QED BY <1>2, <2>1, BrokenOffIsAMap DEF Torn
<1>3. QED BY <1>1, <1>2 DEF Save

LEMMA ArrowType == TypeOK /\ Arrow => TypeOK'
<1> SUFFICES ASSUME TypeOK, Arrow PROVE TypeOK'
  OBVIOUS
<1>o. OffSent \subseteq Candidates \X BOOLEAN
  BY OffsAreSent
<1> USE LedWalkAssumption DEF TypeOK
<1>1. CASE OffFails
  BY <1>o, <1>1 DEF Arrow, OffFails, Dies, walk, disk
<1>2. ASSUME NEW i \in {Advance, Back}, ShowNothing(i) PROVE TypeOK'
  <2>1. i \in 0..Total + MaxPast
    BY <1>2, SomeCandidates, PlacesAreNumbers DEF ShowNothing, MovesTo
  <2>2. QED BY <1>o, <1>2, <2>1, DarkenDarkens DEF Arrow, ShowNothing, MovesTo, disk
<1>3. ASSUME NEW i \in {Advance, Back}, Show(i) PROVE TypeOK'
  <2>1. i \in 0..Total + MaxPast /\ i \in Candidates
    BY <1>3, SomeCandidates, PlacesAreNumbers DEF Show, MovesTo, Candidates
  <2>2. OffSent \union {<<i, TRUE>>} \subseteq Candidates \X BOOLEAN
    BY <1>o, <2>1, OnOrOff
  <2>3. doomed' \in BOOLEAN
    BY <1>3 DEF Show, Kills
  <2>4. Darken \union {i} \subseteq Candidates
    BY <2>1, DarkenDarkens
  <2>5. QED BY <1>3, <2>1, <2>2, <2>3, <2>4 DEF Arrow, Show, MovesTo, disk
<1>4. ASSUME NEW i \in {Advance, Back}, ShowFails(i) PROVE TypeOK'
  <2>1. i \in 0..Total + MaxPast /\ i \in Candidates
    BY <1>4, SomeCandidates, PlacesAreNumbers DEF ShowFails, MovesTo, Candidates
  <2>2. OffSent \union {<<i, TRUE>>} \subseteq Candidates \X BOOLEAN
    BY <1>o, <2>1, OnOrOff
  <2>3. Number(i) \in 0..Numbers - 1
    BY <2>1, NumberInRange
  <2>4. MarkHazard(i) \in SUBSET Candidates
    BY <2>1, MarkHazardMarks
  <2>5. /\ file' \in [found : SUBSET Candidates, learned : SUBSET Candidates]
        /\ torn' \in BOOLEAN /\ tears' \in 0..MaxTears
    BY <1>4, <2>4, SaveType DEF ShowFails
  <2>6. blamed' \subseteq 0..Numbers - 1
    BY <1>4, <2>3 DEF ShowFails
  <2>7. QED BY <1>4, <2>1, <2>2, <2>4, <2>5, <2>6 DEF Arrow, ShowFails, MovesTo, Dies
<1>5. QED BY <1>1, <1>2, <1>3, <1>4 DEF Arrow

LEMMA StartType ==
  ASSUME TypeOK, NEW n \in 0..Total + 1, NEW skip \in {{}} \union {{c} : c \in Candidates},
         Start(n, skip)
  PROVE  TypeOK'
<1>1. index' \in 0..Total + MaxPast /\ started' \in BOOLEAN
  BY SomeCandidates, LedWalkAssumption DEF Start, Seek
<1>2. skip \subseteq Candidates
  OBVIOUS
<1>3. found' \subseteq Candidates /\ learned' \subseteq Candidates
  BY <1>2 DEF Start, Load, TypeOK
<1>4. runs' \in 0..MaxRuns
  BY LedWalkAssumption DEF Start, TypeOK
<1>5. blamed' \subseteq 0..Numbers - 1
  BY DEF Start, TypeOK
<1>6. QED BY <1>1, <1>3, <1>4, <1>5 DEF Start, TypeOK

LEMMA TypeStep == TypeOK /\ [Next]_vars => TypeOK'
<1> SUFFICES ASSUME TypeOK, [Next]_vars PROVE TypeOK'
  OBVIOUS
<1>1. CASE Arrow
  BY <1>1, ArrowType
<1>2. CASE Describe
  <2>1. Current \in Candidates \/ Current = None
    <3>1. index \in Nat /\ Total \in Nat
      BY SomeCandidates, LedWalkAssumption DEF TypeOK
    <3>2. \A i, n \in Nat : i < n => i \in 0..n - 1
      OBVIOUS
    <3>3. QED BY <3>1, <3>2 DEF Current, Candidates
  <2>2. found' \subseteq Candidates
    BY <1>2, <2>1 DEF Describe, Record, TypeOK
  <2>3. /\ file' \in [found : SUBSET Candidates, learned : SUBSET Candidates]
        /\ torn' \in BOOLEAN /\ tears' \in 0..MaxTears
    BY <1>2, <2>2, SaveType DEF Describe, TypeOK
  <2>4. QED BY <1>2, <2>2, <2>3 DEF Describe, device, TypeOK
<1>3. CASE Quit
  BY <1>3 DEF Quit, walk, device, disk, TypeOK
<1>4. CASE Killed
  BY <1>4 DEF Killed, walk, device, disk, TypeOK
<1>5. CASE Cleanup
  <2>1. wire' \subseteq Candidates \X BOOLEAN
    BY <1>5 DEF Cleanup
  <2>2. doomed' \in BOOLEAN
    BY <1>5 DEF Cleanup, TypeOK
  <2>3. /\ file' \in [found : SUBSET Candidates, learned : SUBSET Candidates]
        /\ torn' \in BOOLEAN /\ tears' \in 0..MaxTears
    BY <1>5, SaveType DEF Cleanup, TypeOK
  <2>4. QED BY <1>5, <2>1, <2>2, <2>3 DEF Cleanup, walk, TypeOK
<1>6. CASE Drop
  BY <1>6 DEF Drop, Dies, walk, disk, TypeOK
<1>7. ASSUME NEW n \in 0..Total + 1, NEW skip \in {{}} \union {{c} : c \in Candidates},
             Start(n, skip)
      PROVE TypeOK'
  BY <1>7, StartType
<1>8. CASE UNCHANGED vars
  BY <1>8 DEF vars, TypeOK
<1>9. QED BY <1>1, <1>2, <1>3, <1>4, <1>5, <1>6, <1>7, <1>8 DEF Next

(* The walk, its map and the device are what TypeOK says, however long a person
   steps: the position is on the list or just past it. *)
THEOREM TypeCorrect == Spec => []TypeOK
<1>1. ASSUME Init PROVE TypeOK
  <2>1. /\ index \in 0..Total + MaxPast /\ runs \in 0..MaxRuns
        /\ tears \in 0..MaxTears
    BY <1>1, SomeCandidates, LedWalkAssumption DEF Init
  <2>2. {started, torn, up, doomed} \subseteq BOOLEAN
    BY <1>1 DEF Init
  <2>3. {found, learned, panel} \subseteq SUBSET Candidates
    BY <1>1 DEF Init
  <2>4. file \in [found : SUBSET Candidates, learned : SUBSET Candidates]
    BY <1>1 DEF Init
  <2>5. QED BY <1>1, <2>1, <2>2, <2>3, <2>4 DEF Init, TypeOK
<1>2. QED BY <1>1, TypeStep, PTL DEF Spec

-----------------------------------------------------------------------------
(* The steps of a walk, and what each does to the panel. *)
LEMMA OneLitStep == OneLit /\ [Next]_vars => OneLit'
<1> SUFFICES ASSUME OneLit, [Next]_vars PROVE OneLit'
  OBVIOUS
<1> USE DEF OneLit, Dies, walk, device
<1>d. Darken = {}
  BY DEF Darken
<1>1. CASE Arrow
  <2>1. CASE OffFails
    BY <2>1 DEF OffFails
  <2>2. ASSUME NEW i \in {Advance, Back}, ShowNothing(i) PROVE OneLit'
    BY <1>d, <2>2 DEF ShowNothing
  <2>3. ASSUME NEW i \in {Advance, Back}, Show(i) PROVE OneLit'
    BY <1>d, <2>3 DEF Show
  <2>4. ASSUME NEW i \in {Advance, Back}, ShowFails(i) PROVE OneLit'
    BY <2>4 DEF ShowFails
  <2>5. QED BY <1>1, <2>1, <2>2, <2>3, <2>4 DEF Arrow
<1>2. CASE Describe
  BY <1>2 DEF Describe
<1>3. CASE Quit
  BY <1>3 DEF Quit
<1>4. CASE Killed
  BY <1>4 DEF Killed
<1>5. CASE Cleanup
  BY <1>5 DEF Cleanup
<1>6. CASE Drop
  BY <1>6 DEF Drop
<1>7. ASSUME NEW n \in 0..Total + 1, NEW skip \in {{}} \union {{c} : c \in Candidates},
             Start(n, skip)
      PROVE OneLit'
  BY <1>7 DEF Start
<1>8. CASE UNCHANGED vars
  BY <1>8 DEF vars
<1>9. QED BY <1>1, <1>2, <1>3, <1>4, <1>5, <1>6, <1>7, <1>8 DEF Next

(* Nothing is ever lit on the panel but what the walk is showing. *)
THEOREM OneAtATime == Spec => []OneLit
<1>1. Init => OneLit
  BY DEF Init, OneLit
<1>2. QED BY <1>1, OneLitStep, PTL DEF Spec

-----------------------------------------------------------------------------
(* After a whole write the file has every description the walk has, and between
   them nothing that was blamed is forgotten: what a hazard's number is survives
   being written, being read back, and being on the list from the start. *)
Hazards(marked) == HAZARDS \union {Number(d) : d \in marked}

Kept ==
  /\ blamed \subseteq Hazards(learned)
  /\ ~torn => found = file.found /\ blamed \subseteq Hazards(file.learned)

LEMMA MarkedIsHazard ==
  ASSUME TypeOK, NEW c \in Candidates
  PROVE  Hazards(learned) \union {Number(c)} \subseteq Hazards(MarkHazard(c))
<1>1. CASE c \in HAZARDS
  <2>1. c < Numbers
    BY <1>1, LedWalkAssumption
  <2>2. Number(c) \in HAZARDS
    BY <1>1, <2>1, NumberInRange
  <2>3. QED BY <1>1, <2>2 DEF MarkHazard, Hazards
<1>2. CASE c \notin HAZARDS
  BY <1>2 DEF MarkHazard, Hazards
<1>3. QED BY <1>1, <1>2

(* A write that comes to its end puts all there is in the file. *)
LEMMA SaveKeeps ==
  ASSUME NEW f, NEW l, Save(f, l), found' = f, learned' = l, blamed' \subseteq Hazards(l)
  PROVE  Kept'
<1>1. Hazards(learned)' = Hazards(l)
  BY DEF Hazards
<1>2. ~torn' => file'.found = f /\ file'.learned = l
  BY DEF Save, Whole, Torn
<1>3. ~torn' => Hazards(file.learned)' = Hazards(l)
  BY <1>2 DEF Hazards
<1>4. QED BY <1>1, <1>2, <1>3 DEF Kept

LEMMA KeptStep == TypeOK /\ Kept /\ [Next]_vars => Kept'
<1> SUFFICES ASSUME TypeOK, Kept, [Next]_vars PROVE Kept'
  OBVIOUS
<1>u. ASSUME UNCHANGED <<found, learned, file, torn, blamed>> PROVE Kept'
  BY <1>u DEF Kept, Hazards
<1> USE DEF walk, disk
<1>1. CASE Arrow
  <2>1. CASE OffFails
    BY <1>u, <2>1 DEF OffFails
  <2>2. ASSUME NEW i \in {Advance, Back}, ShowNothing(i) PROVE Kept'
    BY <1>u, <2>2 DEF ShowNothing
  <2>3. ASSUME NEW i \in {Advance, Back}, Show(i) PROVE Kept'
    BY <1>u, <2>3 DEF Show
  <2>4. ASSUME NEW i \in {Advance, Back}, ShowFails(i) PROVE Kept'
    <3>1. i \in Candidates
      BY <2>4, SomeCandidates, PlacesAreNumbers DEF ShowFails, Candidates
    <3>2. /\ found' = found /\ learned' = MarkHazard(i)
          /\ Save(found, MarkHazard(i))
          /\ blamed' = blamed \union {Number(i)}
      BY <2>4 DEF ShowFails
    <3>3. blamed' \subseteq Hazards(MarkHazard(i))
      BY <3>1, <3>2, MarkedIsHazard DEF Kept
    <3>4. QED BY <3>2, <3>3, SaveKeeps
  <2>5. QED BY <1>1, <2>1, <2>2, <2>3, <2>4 DEF Arrow
<1>2. CASE Describe
  <2>1. Save(found', learned) /\ learned' = learned /\ blamed' = blamed
    BY <1>2 DEF Describe
  <2>2. QED BY <2>1, SaveKeeps DEF Kept
<1>3. CASE Quit
  BY <1>u, <1>3 DEF Quit
<1>4. CASE Killed
  BY <1>u, <1>4 DEF Killed
<1>5. CASE Cleanup
  <2>1. Save(found, learned) /\ found' = found /\ learned' = learned /\ blamed' = blamed
    BY <1>5 DEF Cleanup
  <2>2. QED BY <2>1, SaveKeeps DEF Kept
<1>6. CASE Drop
  BY <1>u, <1>6 DEF Drop
<1>7. ASSUME NEW n \in 0..Total + 1, NEW skip \in {{}} \union {{c} : c \in Candidates},
             Start(n, skip)
      PROVE Kept'
  <2>1. /\ found' = file.found /\ file' = file
        /\ file.learned \subseteq learned'
    BY <1>7 DEF Start, Load
  <2>2. blamed' \subseteq Hazards(file.learned)
    BY <1>7 DEF Start, Kept, Hazards
  <2>3. Hazards(file.learned) \subseteq Hazards(learned)'
    BY <2>1 DEF Hazards
  <2>4. QED BY <2>1, <2>2, <2>3 DEF Kept, Hazards
<1>8. CASE UNCHANGED vars
  BY <1>u, <1>8 DEF vars
<1>9. QED BY <1>1, <1>2, <1>3, <1>4, <1>5, <1>6, <1>7, <1>8 DEF Next

LEMMA AlwaysKept == Spec => []Kept
<1>1. Init => Kept
  BY DEF Init, Kept
<1>2. QED BY <1>1, TypeCorrect, KeptStep, PTL DEF Spec

(* What was described once is in every later run, however the device or the
   command went down, unless the last write of the map was torn: every step keeps
   it, a new run because the file has it. *)
THEOREM NothingIsForgotten == Spec => NeverForgets
<1>1. ASSUME Kept, [Next]_vars
      PROVE  [found \subseteq found' \/ (at = "over" /\ torn)]_vars
  <2>1. ASSUME NEW n \in 0..Total + 1, NEW skip \in {{}} \union {{c} : c \in Candidates},
               Start(n, skip)
        PROVE found \subseteq found' \/ (at = "over" /\ torn)
    BY <1>1, <2>1 DEF Start, Load, Kept
  <2>2. CASE Describe
    BY <2>2 DEF Describe, Record
  <2>3. CASE Arrow
    BY <2>3 DEF Arrow, OffFails, ShowNothing, Show, ShowFails, walk
  <2>4. CASE Quit \/ Killed \/ Cleanup \/ Drop
    BY <2>4 DEF Quit, Killed, Cleanup, Drop, walk
  <2>5. QED BY <1>1, <2>1, <2>2, <2>3, <2>4 DEF Next
<1>2. QED BY <1>1, AlwaysKept, PTL DEF Spec, NeverForgets

(* No step lights a number that a walk has blamed and a whole write has put in the
   map, or that was listed from the start, on whatever channel it comes along.  Of
   what took the device down unblamed it says nothing. *)
THEOREM HazardsStayDark == Spec => StepsOver
<1> DEFINE Dark == \A c \in Candidates :
                     <<c, TRUE>> \in wire' => Number(c) \notin HAZARDS \union blamed
<1>o. \A c : <<c, TRUE>> \notin OffSent
  BY DEF OffSent
<1>1. ASSUME Kept, [Next]_vars PROVE [Dark]_vars
  <2>1. ASSUME NEW i, ~IsHazard(i), wire' = OffSent \union {<<i, TRUE>>} PROVE Dark
    <3>1. Number(i) \notin HAZARDS \union blamed
      BY <1>1, <2>1 DEF IsHazard, Kept, Hazards
    <3>2. QED BY <1>o, <2>1, <3>1
  <2>2. CASE Arrow
    <3>1. CASE OffFails
      BY <1>o, <3>1 DEF OffFails
    <3>2. ASSUME NEW i \in {Advance, Back}, ShowNothing(i) PROVE Dark
      BY <1>o, <3>2 DEF ShowNothing
    <3>3. ASSUME NEW i \in {Advance, Back}, Show(i) PROVE Dark
      BY <2>1, <3>3 DEF Show
    <3>4. ASSUME NEW i \in {Advance, Back}, ShowFails(i) PROVE Dark
      BY <2>1, <3>4 DEF ShowFails
    <3>5. QED BY <2>2, <3>1, <3>2, <3>3, <3>4 DEF Arrow
  <2>3. CASE Describe \/ Quit \/ Killed \/ Drop
    BY <2>3 DEF Describe, Quit, Killed, Drop
  <2>6. CASE Cleanup
    BY <2>6 DEF Cleanup
  <2>4. ASSUME NEW n \in 0..Total + 1, NEW skip \in {{}} \union {{c} : c \in Candidates},
               Start(n, skip)
        PROVE Dark
    BY <2>4 DEF Start
  <2>5. QED BY <1>1, <2>2, <2>3, <2>4, <2>6 DEF Next
<1>2. QED BY <1>1, AlwaysKept, PTL DEF Spec, StepsOver
=============================================================================
