--------------------------- MODULE CommandProofs ---------------------------
(***************************************************************************)
(* The commands.  Recorder, `ns6 map` and learn, for any controls, any     *)
(* noise and any number of messages, lines and sessions: what is recorded  *)
(* is what was shown, every control once, and no session costs the file an *)
(* entry.  Bridge for every set of commands and every length of file: `ns6 *)
(* play` ends by itself only when its file is read to the end, or a read   *)
(* fails, and all that was read has been taken from the queue, with        *)
(* nothing dropped.                                                        *)
(***************************************************************************)
EXTENDS Recorder, Bridge, SequenceTheorems, WellFoundedInduction, TLAPS

(* A set of numbers that has a bound has a greatest one. *)
LEMMA Greatest ==
  ASSUME NEW N \in Nat, NEW S \in SUBSET (0..N), S # {}
  PROVE  \E m \in S : \A n \in S : n <= m
<1> DEFINE T == {N - n : n \in S}
<1>3. T \subseteq Nat /\ T # {}
  <2>1. \A n \in S : N - n \in Nat /\ N - n \in T
    OBVIOUS
  <2>2. QED BY <2>1
<1> DEFINE R == OpToRel(<, Nat)
<1>1. \A i, j \in Nat : <<i, j>> \in R <=> i < j
  BY DEF OpToRel
<1>2. IsWellFoundedOn(R, Nat)
  BY NatLessThanWellFounded
<1> HIDE DEF R
<1>4. PICK x \in T : \A y \in T : ~(<<y, x>> \in R)
  BY <1>2, <1>3, WFMin
<1>5. PICK m \in S : x = N - m
  BY <1>4
<1>6. \A n \in S : ~(N - n < N - m)
  BY <1>1, <1>3, <1>4, <1>5
<1>7. QED BY <1>6

LEMMA NamesAreControls ==
  ASSUME NEW es \in Seq(SUBSET Controls)
  PROVE  Named(es) \subseteq Controls
<1>1. \A i \in DOMAIN es : es[i] \in SUBSET Controls
  OBVIOUS
<1>2. QED BY <1>1 DEF Named

LEMMA AppendNames ==
  ASSUME NEW es \in Seq(SUBSET Controls), NEW e \in SUBSET Controls
  PROVE  Named(Append(es, e)) = Named(es) \union e
<1> DEFINE new == Append(es, e)
<1>1. /\ DOMAIN new = 1..Len(es) + 1 /\ Len(es) \in Nat
      /\ \A i \in 1..Len(es) : new[i] = es[i]
      /\ new[Len(es) + 1] = e
      /\ DOMAIN es = 1..Len(es)
  OBVIOUS
<1> HIDE DEF new
<1>2. DOMAIN new = DOMAIN es \union {Len(es) + 1}
  BY <1>1
<1>3. QED BY <1>1, <1>2 DEF Named, new
-----------------------------------------------------------------------------
(* The types *)

LEMMA MovedIsANumber ==
  ASSUME TypeOK, NEW c \in Batch
  PROVE  Moved(c, pending[c]) \in 0..MaxCount
<1>1. c \in Controls /\ pending[c] \in 1..count[c]
  BY DEF TypeOK
<1>2. count[c] \in 0..MaxCount /\ baseline[c] \in 0..MaxCount /\ MaxCount \in Nat
  BY <1>1, RecorderAssumption DEF TypeOK
<1>3. pending[c] \in 0..MaxCount
  BY <1>1, <1>2
<1>4. QED BY <1>2, <1>3 DEF Moved

(* One control of a batch is always the busiest. *)
LEMMA SomethingIsOffered ==
  ASSUME TypeOK, Batch # {}
  PROVE  WithoutChatter # {}
<1> DEFINE moved == {Moved(c, pending[c]) : c \in Batch}
<1>1. moved \subseteq 0..MaxCount /\ moved # {} /\ MaxCount \in Nat
  BY MovedIsANumber, RecorderAssumption
<1>2. PICK m \in moved : \A n \in moved : n <= m
  BY <1>1, Greatest
<1>3. PICK c \in Batch : m = Moved(c, pending[c])
  BY <1>2
<1>4. \A d \in Batch : Moved(d, pending[d]) \in Nat /\ Moved(d, pending[d]) <= m
  BY <1>1, <1>2
<1>5. \A n \in Nat : n <= m => m * 2 >= n
  BY <1>1, <1>2
<1>6. Stays(c)
  BY <1>3, <1>4, <1>5 DEF Stays, NOISE_FLOOR
<1>7. QED BY <1>6 DEF WithoutChatter

LEMMA Fed ==
  ASSUME TypeOK, NEW c \in Controls, Feed(c)
  PROVE  /\ count' \in [Controls -> 0..MaxCount]
         /\ \A d \in Controls : count[d] \in Nat /\ count'[d] \in Nat /\ count[d] <= count'[d]
         /\ count'[c] >= 1
<1>1. count \in [Controls -> 0..MaxCount] /\ MaxCount \in Nat
  BY RecorderAssumption DEF TypeOK
<1>2. count[c] \in Nat /\ count[c] < MaxCount /\ count' = [count EXCEPT ![c] = @ + 1]
  BY <1>1 DEF Feed
<1>3. count[c] + 1 \in 0..MaxCount
  BY <1>1, <1>2
<1>4. QED BY <1>1, <1>2, <1>3

(* What is pending was heard of: that stays true when more is heard. *)
LEMMA StillHeardOf ==
  ASSUME TypeOK, NEW c \in Controls, Feed(c)
  PROVE  \A d \in Batch : pending[d] \in 1..count'[d]
<1>1. \A d \in Batch : d \in Controls /\ pending[d] \in 1..count[d]
  BY DEF TypeOK
<1>2. QED BY <1>1, Fed

LEMMA ObserveType ==
  ASSUME TypeOK, NEW c \in Controls, Observe(c)
  PROVE  TypeOK'
<1>1. Feed(c)
  BY DEF Observe
<1>2. CASE UNCHANGED <<pending, settled>>
  BY <1>1, <1>2, Fed, StillHeardOf DEF Observe, TypeOK, Batch
<1>3. CASE Joins(c)
  <2>1. Batch' = Batch \union {c} /\ Batch \subseteq Controls
    BY <1>3 DEF Joins, Batch, TypeOK
  <2>2. \A d \in Batch' : pending'[d] \in 1..count'[d]
    <3>1. \A d \in Batch' : pending'[d] = IF d = c THEN count'[c] ELSE pending[d]
      BY <1>3 DEF Joins, Batch
    <3>2. count'[c] \in 1..count'[c]
      BY <1>1, Fed
    <3>3. QED BY <1>1, <2>1, <3>1, <3>2, StillHeardOf
  <2>3. settled' = "lately" /\ Batch' # {}
    BY <1>3, <2>1 DEF Joins
  <2>4. QED BY <1>1, <2>1, <2>2, <2>3, Fed DEF Observe, TypeOK
<1>4. QED BY <1>2, <1>3 DEF Observe

LEMMA PollType ==
  ASSUME TypeOK, Poll
  PROVE  TypeOK'
<1>1. CASE Offer
  <2>1. Batch' = WithoutChatter /\ WithoutChatter \subseteq Batch /\ Batch # {}
    BY <1>1 DEF Offer, Batch, WithoutChatter
  <2>2. \A c \in Batch' : pending'[c] = pending[c]
    BY <1>1, <2>1 DEF Offer
  <2>3. Batch' # {}
    BY <2>1, SomethingIsOffered
  <2>4. QED BY <1>1, <2>1, <2>2, <2>3 DEF Poll, Offer, TypeOK
<1>2. CASE UNCHANGED <<pending, shown, naming>>
  BY <1>2 DEF Poll, TypeOK, Batch
<1>3. QED BY <1>1, <1>2 DEF Poll

LEMMA SettledType ==
  ASSUME Settled
  PROVE  /\ Batch' = {} /\ settled' = "none" /\ naming' = FALSE /\ shown' = {}
BY DEF Settled, NoBatch, Batch

LEMMA LineType ==
  ASSUME TypeOK, Line
  PROVE  TypeOK'
<1>1. /\ count' = count /\ baseline' = baseline /\ noisy' = noisy /\ session' = session
      /\ at' \in {"drain", "over"}
      /\ file' \in {entries', file}
  BY DEF Line
<1>2. typed' \in Seq(Lines) /\ Len(typed') <= MaxTyped
  <2>1. typed' \in {typed, Tail(typed)} /\ (typed' # typed => typed # <<>>)
    BY DEF Line
  <2>2. typed \in Seq(Lines) /\ Len(typed) <= MaxTyped /\ MaxTyped \in Nat
    BY RecorderAssumption DEF TypeOK
  <2>3. QED BY <2>1, <2>2
<1>3. CASE Ignore
  BY <1>1, <1>2, <1>3 DEF Ignore, TypeOK, Batch
<1>4. CASE Discard
  BY <1>1, <1>2, <1>4, SettledType DEF Discard, TypeOK
<1>5. CASE Name
  <2>1. entries' \in Seq(SUBSET Controls) /\ claimed' \subseteq Controls
    <3>1. entries \in Seq(SUBSET Controls) /\ Batch \in SUBSET Controls /\ claimed \subseteq Controls
      BY DEF TypeOK
    <3>2. entries' = Append(entries, Batch) /\ claimed' = claimed \union Batch
      BY <1>5 DEF Name
    <3>3. QED BY <3>1, <3>2, AppendProperties
  <2>2. Settled
    BY <1>5 DEF Name
  <2>3. QED BY <1>1, <1>2, <2>1, <2>2, SettledType DEF TypeOK
<1>6. QED BY <1>3, <1>4, <1>5 DEF Line

LEMMA NothingIsCounted == Nothing \in [Controls -> 0..MaxCount]
BY RecorderAssumption DEF Nothing

LEMMA TypeStep == TypeOK /\ [Next]_vars => TypeOK'
<1> SUFFICES ASSUME TypeOK, [Next]_vars PROVE TypeOK'
  OBVIOUS
<1>1. CASE Ready
  <2>1. Named(file) \subseteq Controls
    BY NamesAreControls DEF TypeOK
  <2>2. noisy' \subseteq Controls
    BY <1>1 DEF Ready
  <2>3. QED BY <1>1, <2>1, <2>2 DEF Ready, Load, TypeOK, Batch
<1>2. CASE Drained
  BY <1>2 DEF Drained, recorder, TypeOK, Batch
<1>3. CASE Poll
  BY <1>3, PollType
<1>4. CASE Line
  BY <1>4, LineType
<1>5. CASE Quiet
  BY <1>5 DEF Quiet, TypeOK, Batch
<1>6. CASE Stop
  BY <1>6 DEF Stop, recorder, TypeOK, Batch
<1>7. CASE Again
  <2>1. session' \in 1..MaxSessions
    <3>1. session \in 1..MaxSessions /\ MaxSessions \in Nat
      BY RecorderAssumption DEF TypeOK
    <3>2. session < MaxSessions /\ session' = session + 1
      BY <1>7 DEF Again
    <3>3. QED BY <3>1, <3>2
  <2>2. typed' \in Seq(Lines) /\ Len(typed') <= MaxTyped /\ entries' \in Seq(SUBSET Controls)
    BY <1>7, RecorderAssumption DEF Again
  <2>3. QED BY <1>7, <2>1, <2>2, SettledType, NothingIsCounted DEF Again, TypeOK
<1>8. ASSUME NEW c \in Controls, Announce(c) PROVE TypeOK'
  BY <1>8, Fed, StillHeardOf DEF Announce, recorder, TypeOK, Batch
<1>9. ASSUME NEW c \in Controls, Observe(c) PROVE TypeOK'
  BY <1>9, ObserveType
<1>10. ASSUME NEW line \in Lines, Type(line) PROVE TypeOK'
  <2>1. typed' \in Seq(Lines) /\ Len(typed') <= MaxTyped
    <3>1. typed \in Seq(Lines) /\ MaxTyped \in Nat
      BY RecorderAssumption DEF TypeOK
    <3>2. typed' = Append(typed, line) /\ Len(typed) < MaxTyped
      BY <1>10 DEF Type
    <3>3. typed' \in Seq(Lines) /\ Len(typed') = Len(typed) + 1
      BY <3>1, <3>2, AppendProperties
    <3>4. QED BY <3>1, <3>2, <3>3
  <2>2. QED BY <1>10, <2>1 DEF Type, recorder, TypeOK, Batch
<1>11. CASE UNCHANGED vars
  BY <1>11 DEF vars, TypeOK, Batch
<1>12. QED
  BY <1>1, <1>2, <1>3, <1>4, <1>5, <1>6, <1>7, <1>8, <1>9, <1>10, <1>11 DEF Next, Loop

(* The recorder is what TypeOK says: what is pending was heard of, and a batch
   that is settled is never empty, whatever of it is left out as chatter. *)
THEOREM TypeCorrect == Spec => []TypeOK
<1>1. ASSUME Init PROVE TypeOK
  <2>1. session \in 1..MaxSessions /\ Len(typed) <= MaxTyped
    BY <1>1, RecorderAssumption DEF Init
  <2>2. /\ typed \in Seq(Lines)
        /\ entries \in Seq(SUBSET Controls) /\ file \in Seq(SUBSET Controls)
    BY <1>1 DEF Init
  <2>3. Batch = {} /\ settled = "none" /\ naming = FALSE
    BY <1>1 DEF Init, NoBatch, Batch
  <2>4. QED BY <1>1, <2>1, <2>2, <2>3, NothingIsCounted DEF Init, TypeOK
<1>2. QED BY <1>1, TypeStep, PTL DEF Spec

-----------------------------------------------------------------------------
(* Why nothing is named twice: all that has a name is claimed, and nothing that
   is claimed joins a batch; the file holds the beginning of what there is. *)
Apart(es) == \A i, j \in DOMAIN es : i # j => es[i] \intersect es[j] = {}

AllClaimed == claimed = Named(entries)
NotTwice == Apart(entries) /\ Apart(file)
NotAgain == Batch \intersect claimed = {}
AsShown == naming => shown = Batch
FromNothing == at = "calibrate" => Batch = {}
Onwards == at # "calibrate" => IsPrefix(file, entries)

Recorded == AllClaimed /\ NotTwice /\ NotAgain /\ AsShown /\ FromNothing /\ Onwards

LEMMA AppendApart ==
  ASSUME NEW es \in Seq(SUBSET Controls), NEW e \in SUBSET Controls,
         Apart(es), e \intersect Named(es) = {}
  PROVE  Apart(Append(es, e))
<1> DEFINE new == Append(es, e)
<1>1. /\ DOMAIN new = 1..Len(es) + 1 /\ Len(es) \in Nat
      /\ \A i \in 1..Len(es) : new[i] = es[i]
      /\ new[Len(es) + 1] = e
      /\ DOMAIN es = 1..Len(es)
  OBVIOUS
<1> HIDE DEF new
<1>2. DOMAIN new = DOMAIN es \union {Len(es) + 1}
  BY <1>1
<1>3. \A i \in DOMAIN es : es[i] \intersect e = {}
  BY DEF Named
<1>4. QED BY <1>1, <1>2, <1>3 DEF Apart, new

LEMMA PrefixOfItself ==
  ASSUME NEW S, NEW s \in Seq(S)
  PROVE  IsPrefix(s, s)
BY DEF IsPrefix

LEMMA PrefixOfMore ==
  ASSUME NEW S, NEW s \in Seq(S), NEW t \in Seq(S), NEW e \in S, IsPrefix(s, t)
  PROVE  IsPrefix(s, Append(t, e))
<1>1. /\ Len(s) <= Len(t) /\ Len(s) \in Nat /\ Len(t) \in Nat
      /\ SubSeq(s, 1, Len(s)) = SubSeq(t, 1, Len(s))
  BY DEF IsPrefix
<1>2. Append(t, e) \in Seq(S) /\ Len(Append(t, e)) = Len(t) + 1
      /\ \A i \in 1..Len(t) : Append(t, e)[i] = t[i]
  BY AppendProperties
<1>3. SubSeq(t, 1, Len(s)) = SubSeq(Append(t, e), 1, Len(s))
  BY <1>1, <1>2
<1>4. QED BY <1>1, <1>2, <1>3 DEF IsPrefix

(* A step that touches neither the file nor what the recorder knows. *)
LEMMA NothingRecorded ==
  ASSUME Recorded, UNCHANGED <<claimed, entries, file, pending, naming, shown>>,
         at' = "calibrate" => at = "calibrate", at # "calibrate" \/ at' = "calibrate"
  PROVE  Recorded'
BY DEF Recorded, AllClaimed, NotTwice, NotAgain, AsShown, FromNothing, Onwards,
       Apart, Named, Batch

LEMMA ReadyRecords ==
  ASSUME TypeOK, Recorded, Ready
  PROVE  Recorded'
<1>1. claimed' = Named(file) /\ entries' = file /\ file' = file /\ at' = "drain"
  BY DEF Ready, Load
<1>2. Batch' = {}
  BY DEF Ready, Recorded, FromNothing, Batch
<1>3. naming' = naming /\ shown' = shown /\ Batch' = Batch
  BY DEF Ready, Batch
<1>4. IsPrefix(file, file)
  BY PrefixOfItself DEF TypeOK
<1>5. QED BY <1>1, <1>2, <1>3, <1>4 DEF Recorded, AllClaimed, NotTwice, NotAgain, AsShown,
                                       FromNothing, Onwards, Apart, Named

LEMMA ObserveRecords ==
  ASSUME TypeOK, Recorded, NEW c \in Controls, Observe(c)
  PROVE  Recorded'
<1>1. UNCHANGED <<claimed, entries, file, naming, shown, at>> /\ at = "drain"
  BY DEF Observe
<1>2. CASE UNCHANGED pending
  BY <1>1, <1>2, NothingRecorded
<1>3. CASE Joins(c) /\ Listens(c)
  <2>1. Batch' = Batch \union {c} /\ ~naming /\ c \notin claimed
    BY <1>3 DEF Joins, Listens, Batch
  <2>2. QED BY <1>1, <2>1 DEF Recorded, AllClaimed, NotTwice, NotAgain, AsShown,
                              FromNothing, Onwards, Apart, Named
<1>4. QED BY <1>2, <1>3 DEF Observe

LEMMA PollRecords ==
  ASSUME Recorded, Poll
  PROVE  Recorded'
<1>1. UNCHANGED <<claimed, entries, file>> /\ at = "poll" /\ at' = "line"
  BY DEF Poll
<1>2. CASE Offer
  <2>1. Batch' = WithoutChatter /\ WithoutChatter \subseteq Batch /\ shown' = WithoutChatter
    BY <1>2 DEF Offer, Batch, WithoutChatter
  <2>2. QED BY <1>1, <2>1 DEF Recorded, AllClaimed, NotTwice, NotAgain, AsShown,
                              FromNothing, Onwards, Apart, Named
<1>3. CASE UNCHANGED <<pending, shown, naming>>
  BY <1>1, <1>3, NothingRecorded
<1>4. QED BY <1>2, <1>3 DEF Poll

LEMMA LineRecords ==
  ASSUME TypeOK, Recorded, Line
  PROVE  Recorded'
<1>1. at = "line" /\ at' \in {"drain", "over"}
      /\ file' = (IF at' = "over" THEN entries' ELSE file)
  BY DEF Line
<1>2. /\ entries \in Seq(SUBSET Controls) /\ Batch \in SUBSET Controls
      /\ file \in Seq(SUBSET Controls) /\ IsPrefix(file, entries)
  BY <1>1 DEF TypeOK, Recorded, Onwards
<1>3. CASE Ignore
  <2>1. UNCHANGED <<claimed, entries, pending, naming, shown>> /\ file' \in {entries, file}
    BY <1>1, <1>3 DEF Ignore
  <2>2. IsPrefix(entries, entries)
    BY <1>2, PrefixOfItself
  <2>3. QED BY <1>1, <1>2, <2>1, <2>2 DEF Recorded, AllClaimed, NotTwice, NotAgain, AsShown,
                                          FromNothing, Onwards, Apart, Named, Batch
<1>4. CASE Discard /\ at' = "drain"
  <2>1. UNCHANGED <<claimed, entries, file>> /\ Batch' = {} /\ naming' = FALSE
    BY <1>1, <1>4, SettledType DEF Discard
  <2>2. QED BY <1>1, <1>2, <1>4, <2>1 DEF Recorded, AllClaimed, NotTwice, NotAgain, AsShown,
                                          FromNothing, Onwards, Apart, Named
<1>5. CASE Name /\ at' = "drain"
  <2>1. /\ entries' = Append(entries, Batch) /\ claimed' = claimed \union Batch
        /\ file' = file /\ Batch' = {} /\ naming' = FALSE
    BY <1>1, <1>5, SettledType DEF Name
  <2>2. claimed = Named(entries) /\ Apart(entries) /\ Apart(file) /\ Batch \intersect claimed = {}
    BY DEF Recorded, AllClaimed, NotTwice, NotAgain
  <2>3. Named(entries') = claimed' /\ Apart(entries')
    BY <1>2, <2>1, <2>2, AppendNames, AppendApart
  <2>4. IsPrefix(file, entries')
    BY <1>2, <2>1, PrefixOfMore
  <2>5. AllClaimed' /\ NotTwice'
    BY <2>1, <2>2, <2>3 DEF AllClaimed, NotTwice, Named, Apart
  <2>6. QED BY <1>5, <2>1, <2>4, <2>5 DEF Recorded, NotAgain, AsShown, FromNothing, Onwards
<1>6. QED BY <1>3, <1>4, <1>5 DEF Line

LEMMA StopRecords ==
  ASSUME TypeOK, Recorded, Stop
  PROVE  Recorded'
<1>1. UNCHANGED <<claimed, entries, pending, naming, shown>> /\ file' = entries /\ at' = "over"
  BY DEF Stop, recorder
<1>2. IsPrefix(entries, entries)
  BY PrefixOfItself DEF TypeOK
<1>3. QED BY <1>1, <1>2 DEF Recorded, AllClaimed, NotTwice, NotAgain, AsShown, FromNothing,
                            Onwards, Apart, Named, Batch

LEMMA AgainRecords ==
  ASSUME Recorded, Again
  PROVE  Recorded'
<1>1. /\ claimed' = {} /\ entries' = <<>> /\ at' = "calibrate" /\ file' = file
      /\ Batch' = {} /\ naming' = FALSE
  BY SettledType DEF Again
<1>2. Named(<<>>) = {} /\ Apart(<<>>)
  BY DEF Named, Apart
<1>3. QED BY <1>1, <1>2 DEF Recorded, AllClaimed, NotTwice, NotAgain, AsShown, FromNothing,
                            Onwards, Apart, Named

LEMMA RecordedStep == TypeOK /\ Recorded /\ [Next]_vars => Recorded'
<1> SUFFICES ASSUME TypeOK, Recorded, [Next]_vars PROVE Recorded'
  OBVIOUS
<1>1. CASE Ready
  BY <1>1, ReadyRecords
<1>2. CASE Drained
  BY <1>2, NothingRecorded DEF Drained, recorder
<1>3. CASE Poll
  BY <1>3, PollRecords
<1>4. CASE Line
  BY <1>4, LineRecords
<1>5. CASE Quiet
  BY <1>5, NothingRecorded DEF Quiet
<1>6. CASE Stop
  BY <1>6, StopRecords
<1>7. CASE Again
  BY <1>7, AgainRecords
<1>8. ASSUME NEW c \in Controls, Announce(c) PROVE Recorded'
  BY <1>8, NothingRecorded DEF Announce, recorder
<1>9. ASSUME NEW c \in Controls, Observe(c) PROVE Recorded'
  BY <1>9, ObserveRecords
<1>10. ASSUME NEW line \in Lines, Type(line) PROVE Recorded'
  BY <1>10, NothingRecorded DEF Type, recorder
<1>11. CASE UNCHANGED vars
  BY <1>11, NothingRecorded DEF vars
<1>12. QED
  BY <1>1, <1>2, <1>3, <1>4, <1>5, <1>6, <1>7, <1>8, <1>9, <1>10, <1>11 DEF Next, Loop

LEMMA AlwaysRecorded == Spec => [](TypeOK /\ Recorded)
<1>1. ASSUME Init PROVE Recorded
  <2>1. Batch = {} /\ claimed = {} /\ entries = <<>> /\ file = <<>> /\ naming = FALSE
        /\ at = "calibrate"
    BY <1>1 DEF Init, NoBatch, Batch
  <2>2. Named(<<>>) = {} /\ Apart(<<>>)
    BY DEF Named, Apart
  <2>3. QED BY <2>1, <2>2 DEF Recorded, AllClaimed, NotTwice, NotAgain, AsShown, FromNothing,
                              Onwards
<1>2. QED BY <1>1, RecordedStep, TypeCorrect, PTL DEF Spec

-----------------------------------------------------------------------------
(* No control is ever recorded under two names, nor asked about once it has
   one, in whatever session it was named (observe, name, load). *)
THEOREM NamedOnlyOnce == Spec => []NamedOnce
<1>1. Recorded => NamedOnce
  BY DEF Recorded, AllClaimed, NotTwice, NotAgain, Apart, NamedOnce
<1>2. QED BY <1>1, AlwaysRecorded, PTL

(* What is recorded is the batch that was shown: from the offer to the line
   that names it nothing joins and nothing leaves it (poll, observe, name). *)
THEOREM WhatWasShownIsNamed == Spec => NamesWhatWasShown
<1>1. Recorded /\ [Next]_vars =>
        [entries' # entries /\ at \notin {"calibrate", "over"}
           => entries' = Append(entries, shown)]_vars
  <2> SUFFICES ASSUME Recorded, Next, entries' # entries, at \notin {"calibrate", "over"}
               PROVE  entries' = Append(entries, shown)
    BY DEF vars
  <2>1. Line
    BY DEF Next, Ready, Loop, Drained, Poll, Quiet, Stop, Again, Announce, Observe, Type,
           recorder
  <2>2. Name /\ naming
    BY <2>1 DEF Line, Ignore, Discard
  <2>3. QED BY <2>2 DEF Name, Recorded, AsShown
<1>2. QED BY <1>1, AlwaysRecorded, PTL DEF Spec, NamesWhatWasShown

(* Whatever a session is ended by, and wherever in it, the file afterwards
   begins with what it held before (load, cmd_run). *)
THEOREM NoSessionCostsAnEntry == Spec => FileGrows
<1>1. TypeOK /\ Recorded /\ [Next]_vars => [IsPrefix(file, file')]_vars
  <2> SUFFICES ASSUME TypeOK, Recorded, Next PROVE IsPrefix(file, file')
    OBVIOUS
  <2>1. CASE file' = file
    BY <2>1, PrefixOfItself DEF TypeOK
  <2>2. CASE Line \/ Stop
    <3>1. at # "calibrate" /\ (file' = file \/ file' = entries)
      BY <2>2 DEF Line, Stop, Ignore
    <3>2. QED BY <3>1, <2>1 DEF Recorded, Onwards
  <2>3. QED BY <2>1, <2>2 DEF Next, Ready, Loop, Drained, Poll, Quiet, Again, Announce,
                              Observe, Type
<1>2. QED BY <1>1, AlwaysRecorded, PTL DEF Spec, FileGrows

-----------------------------------------------------------------------------
(* cmd_run and cmd_stream. *)
LEMMA BridgeTypedAtFirst == BridgeInit => BridgeTypeOK
<1> SUFFICES ASSUME BridgeInit PROVE BridgeTypeOK
  OBVIOUS
<1> USE BridgeAssumption DEF BridgeInit
<1>1. {running, gone, alive, daemon, orphaned, eof, failed, dropped, reader, recOn, captured}
        \subseteq BOOLEAN
  <2>1. reader \in BOOLEAN
    OBVIOUS
  <2>2. daemon \in BOOLEAN
    OBVIOUS
  <2>3. {running, gone, alive, orphaned, eof, failed, dropped, recOn, captured} \subseteq BOOLEAN
    OBVIOUS
  <2>4. QED BY <2>1, <2>2, <2>3, Zenon
<1>2. /\ pump \in {"none", "on", "over"} /\ midiOut \in {"none", "on", "over"}
      /\ pw \in {"none", "look", "connect", "run", "settle", "retry", "over"}
      /\ play \in {"none", "open", "read", "push", "end", "over"}
      /\ rec \in {"none", "closed", "open", "write", "end", "over"}
  OBVIOUS
<1>3. left \in 0..Length /\ queued \in 0..PlayLimit
  OBVIOUS
<1>4. setup \in Setups /\ main \in {"loop", "stop", "pump", "threads", "lower", "over", "restart"}
  OBVIOUS
<1>5. QED BY <1>1, <1>2, <1>3, <1>4 DEF BridgeTypeOK

LEMMA BridgeTypeStep == BridgeTypeOK /\ [BridgeNext]_bridgeVars => BridgeTypeOK'
<1> SUFFICES ASSUME BridgeTypeOK, [BridgeNext]_bridgeVars PROVE BridgeTypeOK'
  OBVIOUS
<1> USE BridgeAssumption DEF BridgeTypeOK, flags, world, playing, recording
<1>1. CASE Main
  <2> USE DEF OnlyMain, MainTo
  <2>1. CASE Leave
    BY <2>1 DEF Leave
  <2>2. CASE Tell
    BY <2>2 DEF Tell
  <2>3. CASE JoinPump
    BY <2>3 DEF JoinPump
  <2>4. CASE JoinThreads
    BY <2>4 DEF JoinThreads
  <2>5. CASE LeaveStream
    BY <2>5 DEF LeaveStream
  <2>6. CASE Lower
    BY <2>6 DEF Lower
  <2>7. QED BY <1>1, <2>1, <2>2, <2>3, <2>4, <2>5, <2>6 DEF Main
<1>2. CASE Quit
  BY <1>2 DEF Quit, OnlyMain, MainTo
<1>3. CASE PumpEnds
  BY <1>3 DEF PumpEnds
<1>4. CASE MidiOutEnds
  BY <1>4 DEF MidiOutEnds
<1>5. CASE Pw
  BY <1>5 DEF Pw, PwLooks, PwConnects, PwRuns, PwSettles, PwRetries, PwTo
<1>6. CASE Play
  <2> USE DEF PlayTo
  <2>1. CASE PlayOpens
    BY <2>1 DEF PlayOpens
  <2>2. CASE PlayReads
    BY <2>2 DEF PlayReads
  <2>3. CASE PlayStops
    BY <2>3 DEF PlayStops
  <2>4. CASE PlayPushes
    <3>1. queued' \in 0..PlayLimit
      BY <2>4 DEF PlayPushes
    <3>2. dropped' \in BOOLEAN
      BY <2>4 DEF PlayPushes
    <3>3. QED BY <2>4, <3>1, <3>2 DEF PlayPushes
  <2>5. CASE PlayEnds
    BY <2>5 DEF PlayEnds
  <2>6. CASE PlayFails
    BY <2>6 DEF PlayFails
  <2>7. QED BY <1>6, <2>1, <2>2, <2>3, <2>4, <2>5, <2>6 DEF Play
<1>7. CASE OutComplete
  BY <1>7 DEF OutComplete
<1>8. CASE Rec
  <2> USE DEF RecTo
  <2>1. CASE RecCloses
    BY <2>1 DEF RecCloses
  <2>2. CASE RecOpens
    BY <2>2 DEF RecOpens
  <2>3. CASE RecWrites
    BY <2>3 DEF RecWrites, AfterError
  <2>4. CASE RecStops
    BY <2>4 DEF RecStops
  <2>5. CASE RecEnds
    BY <2>5 DEF RecEnds
  <2>6. QED BY <1>8, <2>1, <2>2, <2>3, <2>4, <2>5 DEF Rec
<1>9. CASE BulkIn
  BY <1>9 DEF BulkIn
<1>10. CASE Around
  <2>1. {running', gone', daemon', orphaned', reader'} \subseteq BOOLEAN
    BY <1>10 DEF Around
  <2>2. QED BY <1>10, <2>1 DEF Around
<1>11. CASE UNCHANGED bridgeVars
  BY <1>11 DEF bridgeVars
<1>12. QED
  BY <1>1, <1>2, <1>3, <1>4, <1>5, <1>6, <1>7, <1>8, <1>9, <1>10, <1>11 DEF BridgeNext

(* Every thread is in one of the places of its code, whatever came in between,
   and PLAY never outgrows PLAY_LIMIT. *)
THEOREM BridgeTypeCorrect == BridgeSpec => []BridgeTypeOK
BY BridgeTypedAtFirst, BridgeTypeStep, PTL DEF BridgeSpec

-----------------------------------------------------------------------------
(* The way through spawn_play, in the terms PlaysItAll is about. *)

(* PLAY_EOF is the last thing it does. *)
EndsLast == eof => play = "over"

(* As long as nobody interrupts, only the end of a file ends the reading, or a
   read that fails. *)
ReadsToTheEnd ==
  running /\ (play = "end" \/ eof) => failed \/ (setup.source = "file" /\ left = 0)

(* What is read has room: the depth was looked at before, and since then the
   device has only made more. *)
HasRoom == play = "push" => queued <= Throttle

Played == EndsLast /\ ReadsToTheEnd /\ HasRoom /\ ~dropped

(* Whoever is neither spawn_play nor the device leaves all of it alone, but for
   the signal, which ends the promise. *)
LEMMA OthersLeaveIt ==
  ASSUME Played,
         UNCHANGED <<setup, playing>>,
         running' => running
  PROVE  Played'
BY DEF Played, EndsLast, ReadsToTheEnd, HasRoom, playing

LEMMA PlayedStep ==
  ASSUME Throttle < PlayLimit, BridgeTypeOK, Played, [BridgeNext]_bridgeVars
  PROVE  Played'
<1>1. ASSUME UNCHANGED <<setup, playing>>, running' => running PROVE Played'
  BY <1>1, OthersLeaveIt
<1>2. CASE Main \/ Quit
  BY <1>1, <1>2
     DEF Main, Quit, Leave, Tell, JoinPump, JoinThreads, LeaveStream, Lower, OnlyMain
<1>3. CASE PumpEnds \/ MidiOutEnds
  BY <1>1, <1>3 DEF PumpEnds, MidiOutEnds, flags
<1>4. CASE Pw
  BY <1>1, <1>4
     DEF Pw, PwLooks, PwConnects, PwRuns, PwSettles, PwRetries, PwTo, flags
<1>5. CASE Play
  <2> USE DEF Played, EndsLast, ReadsToTheEnd, HasRoom, PlayTo, flags
  <2>1. CASE PlayOpens
    BY <2>1 DEF PlayOpens
  <2>2. CASE PlayReads
    <3>1. queued <= Throttle
      BY <2>2, BridgeAssumption DEF PlayReads, Full, BridgeTypeOK
    <3>2. QED BY <2>2, <3>1 DEF PlayReads
  <2>3. CASE PlayStops
    BY <2>3 DEF PlayStops
  <2>4. CASE PlayPushes
    <3>1. ~dropped'
      BY <2>4, BridgeAssumption DEF PlayPushes, BridgeTypeOK
    <3>2. QED BY <2>4, <3>1 DEF PlayPushes
  <2>5. CASE PlayEnds
    BY <2>5 DEF PlayEnds
  <2>6. CASE PlayFails
    BY <2>6 DEF PlayFails
  <2>7. QED BY <1>5, <2>1, <2>2, <2>3, <2>4, <2>5, <2>6 DEF Play
<1>6. CASE OutComplete
  <2>1. queued' <= queued
    BY <1>6, BridgeAssumption DEF OutComplete, BridgeTypeOK
  <2>2. HasRoom'
    BY <1>6, <2>1, BridgeAssumption DEF OutComplete, BridgeTypeOK, Played, HasRoom
  <2>3. QED
    BY <1>6, <2>2 DEF OutComplete, Played, EndsLast, ReadsToTheEnd, flags
<1>7. CASE Rec
  BY <1>1, <1>7
     DEF Rec, RecCloses, RecOpens, RecWrites, RecStops, RecEnds, RecTo, flags
<1>8. CASE BulkIn
  BY <1>1, <1>8 DEF BulkIn, flags
<1>9. CASE Around
  BY <1>1, <1>9 DEF Around
<1>10. CASE UNCHANGED bridgeVars
  BY <1>1, <1>10 DEF bridgeVars, playing
<1>11. QED
  BY <1>2, <1>3, <1>4, <1>5, <1>6, <1>7, <1>8, <1>9, <1>10 DEF BridgeNext

(* `ns6 play` ends by itself only with its file read to the end, or on a read
   that fails, with all that was read taken from the queue and none of it dropped,
   as long as spawn_play looks for less than PLAY holds: of a queue_limit of
   PLAY_LIMIT or more, which NS6_PLAY_MS can ask for, push_play drops. *)
THEOREM PlaysItAllAlways == Throttle < PlayLimit => (BridgeSpec => PlaysItAll)
<1> SUFFICES ASSUME Throttle < PlayLimit PROVE BridgeSpec => PlaysItAll
  OBVIOUS
<1>1. BridgeInit => BridgeTypeOK /\ Played
  BY BridgeTypedAtFirst DEF BridgeInit, Played, EndsLast, ReadsToTheEnd, HasRoom
<1>2. BridgeTypeOK /\ Played /\ [BridgeNext]_bridgeVars => (BridgeTypeOK /\ Played)'
  BY BridgeTypeStep, PlayedStep
<1>3. ASSUME BridgeTypeOK, Played, [BridgeNext]_bridgeVars
      PROVE  [running /\ ~gone /\ main = "loop" /\ main' = "lower"
                => /\ failed \/ (setup.source = "file" /\ left = 0)
                   /\ queued = 0 /\ ~dropped]_bridgeVars
  <2> SUFFICES ASSUME BridgeNext, running, ~gone, main = "loop", main' = "lower"
               PROVE  /\ failed \/ (setup.source = "file" /\ left = 0)
                      /\ queued = 0 /\ ~dropped
    BY <1>3
  <2>1. LeaveStream
    <3>1. ~(Quit \/ PumpEnds \/ MidiOutEnds \/ OutComplete \/ BulkIn \/ Around)
      BY DEF Quit, MainTo, PumpEnds, MidiOutEnds, OutComplete, BulkIn, Around
    <3>2. ~(Pw \/ Play \/ Rec)
      BY DEF Pw, PwLooks, PwConnects, PwRuns, PwSettles, PwRetries, PwTo,
             Play, PlayOpens, PlayReads, PlayFails, PlayStops, PlayPushes, PlayEnds, PlayTo,
             Rec, RecCloses, RecOpens, RecWrites, RecStops, RecEnds, RecTo
    <3>3. Main
      BY <3>1, <3>2 DEF BridgeNext
    <3>4. QED
      BY <3>3 DEF Main, Leave, Tell, JoinPump, JoinThreads, Lower, MainTo
  <2>2. eof /\ queued = 0
    BY <2>1 DEF LeaveStream, AllTaken
  <2>3. QED BY <1>3, <2>2 DEF Played, ReadsToTheEnd
<1>4. QED BY <1>1, <1>2, <1>3, PTL DEF BridgeSpec, PlaysItAll
=============================================================================
