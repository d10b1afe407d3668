--------------------------- MODULE TransfersProofs ---------------------------
(***************************************************************************)
(* Transfers for any transfers and any commands that join the pump before  *)
(* they drop a stream: what libusb has keeps its buffer.                   *)
(***************************************************************************)
EXTENDS Transfers, FiniteSetTheorems, SequenceTheorems, TLAPS

(* A finite set of numbers has a greatest one. *)
LEMMA Largest ==
  ASSUME NEW S \in SUBSET Nat, IsFiniteSet(S), S # {}
  PROVE  \E m \in S : \A n \in S : m >= n
<1> DEFINE Above(m) == {n \in S : n > m}
           Sizes == {Cardinality(Above(m)) : m \in S}
<1>1. \A m \in S : IsFiniteSet(Above(m)) /\ Cardinality(Above(m)) \in Nat
  BY FS_Subset, FS_CardinalityType
<1>2. Sizes \subseteq Nat /\ Sizes # {}
  BY <1>1
<1> DEFINE R == OpToRel(<, Nat)
<1>3. \A i, j \in Nat : <<i, j>> \in R <=> i < j
  BY DEF OpToRel
<1>4. IsWellFoundedOn(R, Nat)
  BY NatLessThanWellFounded
<1> HIDE DEF R, Above
<1>5. PICK x \in Sizes : \A y \in Sizes : ~(<<y, x>> \in R)
  BY <1>2, <1>4, WFMin
<1>6. PICK m \in S : x = Cardinality(Above(m))
  BY <1>5
<1>7. \A n \in S : ~(Cardinality(Above(n)) < Cardinality(Above(m)))
  BY <1>1, <1>3, <1>5, <1>6
<1>8. \A n \in S : n > m => Cardinality(Above(n)) < Cardinality(Above(m))
  <2> SUFFICES ASSUME NEW n \in S, n > m
               PROVE  Cardinality(Above(n)) < Cardinality(Above(m))
    OBVIOUS
  <2>1. Above(n) \subseteq Above(m) /\ n \in Above(m) /\ n \notin Above(n)
    <3>1. \A i, j, k \in Nat : (i > j /\ j > k => i > k) /\ ~(i > i)
      OBVIOUS
    <3>2. m \in Nat /\ n \in Nat /\ \A k \in S : k \in Nat
      OBVIOUS
    <3>3. QED BY <3>1, <3>2 DEF Above
  <2>2. /\ Cardinality(Above(n)) <= Cardinality(Above(m))
        /\ Cardinality(Above(n)) # Cardinality(Above(m))
    <3>1. Above(n) \in SUBSET Above(m) /\ Above(n) # Above(m) /\ IsFiniteSet(Above(m))
      BY <1>1, <2>1
    <3>2. QED BY <3>1, FS_Subset, Zenon
  <2>3. QED BY <1>1, <2>2
<1>9. QED BY <1>7, <1>8

MaxNumber == Max({t[2] : t \in Transfers})

LEMMA NumbersAreBounded ==
  /\ MaxNumber \in Nat
  /\ \A t \in Transfers : t[2] \in Nat \ {0} /\ t[2] <= MaxNumber
<1> DEFINE S == {t[2] : t \in Transfers}
<1>1. S \subseteq Nat /\ S # {}
  BY TransferAssumption
<1>2. IsFiniteSet(S)
  <2> DEFINE f == [t \in Transfers |-> t[2]]
  <2>1. f \in Surjection(Transfers, S)
    BY DEF Surjection
  <2>2. QED BY <2>1, FS_Surjection, TransferAssumption
<1> HIDE DEF S
<1>3. \E m \in S : \A n \in S : m >= n
  BY <1>1, <1>2, Largest
<1>4. Max(S) \in S /\ \A n \in S : Max(S) >= n
  BY <1>3 DEF Max
<1>5. MaxNumber = Max(S)
  BY DEF MaxNumber, S
<1>6. \A t \in Transfers : t[2] \in S /\ t[2] \in Nat \ {0}
  BY TransferAssumption DEF S
<1>7. QED BY <1>1, <1>4, <1>5, <1>6
-----------------------------------------------------------------------------
(* The order of things: streams are started, then the pump, and whoever has a
   pump running has it joined before anything is dropped. *)
Ahead(what) == \E i \in DOMAIN agenda : agenda[i].do = what
PumpAhead == pump \in {"looking", "handling"} \/ Ahead("pump")

AgendaFits == agenda \in Seq(Steps) /\ (Ahead("start") => up \in Seq(Targets))
InOrder ==
  \A i, j \in DOMAIN agenda :
    i < j /\ agenda[j].do \in {"start", "pump"} => agenda[i].do = "start"
NotYetBorn == Ahead("start") \/ Ahead("pump") => pump = "unborn"
JoinedBefore ==
  PumpAhead => \A j \in DOMAIN agenda : agenda[j].do = "drop" =>
                 \E i \in DOMAIN agenda : i < j /\ agenda[i].do = "join"

Orderly == AgendaFits /\ InOrder /\ NotYetBorn /\ JoinedBefore

LEMMA NowIsFirst ==
  ASSUME AgendaFits, agenda # <<>>
  PROVE  /\ 1 \in DOMAIN agenda /\ agenda[1] = Head(agenda) /\ Head(agenda) \in Steps
         /\ \A i \in DOMAIN agenda : i \in Nat \ {0}
         /\ Len(agenda) \in Nat \ {0} /\ DOMAIN agenda = 1..Len(agenda)
BY DEF AgendaFits

LEMMA TailIsRest ==
  ASSUME AgendaFits, agenda # <<>>, agenda' = Tail(agenda)
  PROVE  /\ agenda' \in Seq(Steps)
         /\ \A i \in DOMAIN agenda' : /\ i \in Nat \ {0} /\ i + 1 \in DOMAIN agenda
                                      /\ agenda'[i] = agenda[i + 1]
         /\ \A i \in DOMAIN agenda : i # 1 => i - 1 \in DOMAIN agenda'
<1>1. agenda \in Seq(Steps) /\ agenda # <<>>
  BY DEF AgendaFits
<1>2. /\ Tail(agenda) \in Seq(Steps)
      /\ Len(Tail(agenda)) = Len(agenda) - 1
      /\ \A i \in 1..Len(Tail(agenda)) : Tail(agenda)[i] = agenda[i + 1]
  BY <1>1
<1>3. Len(agenda) \in Nat \ {0} /\ DOMAIN agenda = 1..Len(agenda)
  BY <1>1
<1>4. DOMAIN agenda' = 1..Len(agenda) - 1
  BY <1>2
<1>5. QED BY <1>2, <1>3, <1>4

(* A step that is done leaves the rest in order: joining has to find the pump
   at its end, and nothing but starting it brings a pump about. *)
LEMMA DoneStaysOrderly ==
  ASSUME Orderly, agenda # <<>>, agenda' = Tail(agenda),
         Now("join") => pump' = "ended",
         pump' = pump \/ (Now("pump") /\ pump' = "looking"),
         Ahead("start")' => up' \in Seq(Targets)
  PROVE  Orderly'
<1> USE DEF Orderly
<1>1. 1 \in DOMAIN agenda /\ agenda[1] = Head(agenda)
  BY NowIsFirst
<1>2. /\ \A i \in DOMAIN agenda' : /\ i \in Nat \ {0} /\ i + 1 \in DOMAIN agenda
                                   /\ agenda'[i] = agenda[i + 1]
      /\ \A i \in DOMAIN agenda : i # 1 => i - 1 \in DOMAIN agenda'
      /\ agenda' \in Seq(Steps)
      /\ \A i \in DOMAIN agenda : i \in Nat \ {0}
  BY TailIsRest, NowIsFirst
<1>3. AgendaFits'
  BY <1>2 DEF AgendaFits
<1>4. InOrder'
  <2> SUFFICES ASSUME NEW i \in DOMAIN agenda', NEW j \in DOMAIN agenda', i < j,
                      agenda'[j].do \in {"start", "pump"}
               PROVE  agenda'[i].do = "start"
    BY DEF InOrder
  <2>1. i + 1 \in DOMAIN agenda /\ j + 1 \in DOMAIN agenda /\ i + 1 < j + 1
    BY <1>2
  <2>2. agenda'[i] = agenda[i + 1] /\ agenda'[j] = agenda[j + 1]
    BY <1>2
  <2>3. QED BY <2>1, <2>2 DEF InOrder
<1>5. \A what : Ahead(what)' => Ahead(what)
  BY <1>2 DEF Ahead
<1>6. Ahead("start")' \/ Ahead("pump")' => Now("start")
  <2> SUFFICES ASSUME NEW j \in DOMAIN agenda', agenda'[j].do \in {"start", "pump"}
               PROVE  agenda[1].do = "start"
    BY <1>1 DEF Ahead, Now
  <2>1. j + 1 \in DOMAIN agenda /\ 1 < j + 1 /\ agenda[j + 1].do \in {"start", "pump"}
    BY <1>2
  <2>2. QED BY <1>1, <2>1 DEF InOrder
<1>7. NotYetBorn'
  BY <1>5, <1>6 DEF NotYetBorn, Now
<1>8. JoinedBefore'
  <2> SUFFICES ASSUME PumpAhead', NEW j \in DOMAIN agenda', agenda'[j].do = "drop"
               PROVE  \E i \in DOMAIN agenda' : i < j /\ agenda'[i].do = "join"
    BY DEF JoinedBefore
  <2>1. PumpAhead
    BY <1>1, <1>5 DEF PumpAhead, Now, Ahead
  <2>2. j + 1 \in DOMAIN agenda /\ agenda[j + 1].do = "drop" /\ j \in Nat
    BY <1>2
  <2>3. PICK i \in DOMAIN agenda : i < j + 1 /\ agenda[i].do = "join"
    BY <2>1, <2>2 DEF JoinedBefore
  <2>4. i # 1
    BY <1>1, <1>6, <2>3 DEF PumpAhead, Now
  <2>5. i - 1 \in DOMAIN agenda' /\ i - 1 < j /\ agenda'[i - 1] = agenda[i]
    BY <1>2, <2>2, <2>3, <2>4
  <2>6. QED BY <2>3, <2>5
<1>9. QED BY <1>3, <1>4, <1>7, <1>8

LEMMA SameStaysOrderly ==
  ASSUME Orderly, agenda' = agenda, up' = up,
         pump' = pump \/ (pump \in {"looking", "handling"} /\ pump' # "unborn")
  PROVE  Orderly'
BY DEF Orderly, AgendaFits, InOrder, NotYetBorn, JoinedBefore, PumpAhead, Ahead

LEMMA AfterEachOther ==
  ASSUME NEW s \in Seq(Steps), NEW t \in Seq(Steps)
  PROVE  /\ s \o t \in Seq(Steps)
         /\ Len(s \o t) = Len(s) + Len(t) /\ DOMAIN (s \o t) = 1..Len(s) + Len(t)
         /\ \A i \in 1..Len(s) : (s \o t)[i] = s[i]
         /\ \A k \in 1..Len(t) : (s \o t)[Len(s) + k] = t[k]
OBVIOUS

LEMMA StepsAreSteps ==
  /\ \A s \in Targets : StartStep(s) \in Steps /\ DropStep(s) \in Steps
  /\ \A what \in {"pump", "serve", "close"} : Step(what) \in Steps
BY DEF StartStep, DropStep, Step, Steps, Targets

(* On an error in start there is no pump yet, and only dropping left to do. *)
LEMMA UnwindingIsOrderly ==
  ASSUME Orderly, SubmitFails
  PROVE  Orderly'
<1>1. Ahead("start") /\ up \in Seq(Targets)
  <2>1. 1 \in DOMAIN agenda /\ agenda[1] = Head(agenda)
    BY NowIsFirst DEF Orderly, SubmitFails, Now
  <2>2. Ahead("start")
    BY <2>1 DEF SubmitFails, Now, Ahead
  <2>3. QED BY <2>2 DEF Orderly, AgendaFits
<1> DEFINE drops == [i \in 1..Len(up) |-> DropStep(Reverse(up)[i])]
<1>2. \A i \in 1..Len(up) : DropStep(Reverse(up)[i]) \in Steps
  <2> SUFFICES ASSUME NEW i \in 1..Len(up) PROVE DropStep(Reverse(up)[i]) \in Steps
    OBVIOUS
  <2>1. Reverse(up)[i] = up[Len(up) - i + 1] /\ Len(up) - i + 1 \in 1..Len(up)
    BY <1>1 DEF Reverse
  <2>2. Reverse(up)[i] \in Targets
    BY <1>1, <2>1
  <2>3. QED BY <2>2, StepsAreSteps
<1>3. drops \in Seq(Steps) /\ Len(drops) = Len(up) /\ \A i \in 1..Len(up) : drops[i].do = "drop"
  BY <1>1, <1>2 DEF DropStep
<1>4. agenda' = drops \o <<Step("close")>>
  BY DEF SubmitFails, Unwinding
<1> HIDE DEF drops
<1>5. agenda' \in Seq(Steps) /\ \A i \in DOMAIN agenda' : agenda'[i].do \in {"drop", "close"}
  <2>1. Step("close") \in Steps /\ Step("close").do = "close" /\ Len(drops) \in Nat
    BY <1>1, <1>3, StepsAreSteps DEF Step
  <2>2. <<Step("close")>> \in Seq(Steps)
    BY <2>1
  <2>3. /\ agenda' \in Seq(Steps) /\ DOMAIN agenda' = 1..Len(drops) + 1
        /\ \A i \in 1..Len(drops) : agenda'[i] = drops[i]
        /\ agenda'[Len(drops) + 1] = Step("close")
    <3>1. Len(<<Step("close")>>) = 1 /\ 1 \in 1..1 /\ <<Step("close")>>[1] = Step("close")
      OBVIOUS
    <3>2. QED BY <1>3, <1>4, <2>2, <3>1, AfterEachOther
  <2>4. \A i \in DOMAIN agenda' : i \in 1..Len(drops) \/ i = Len(drops) + 1
    BY <2>1, <2>3
  <2>5. QED BY <1>3, <2>1, <2>3, <2>4
<1>6. ~Ahead("start")' /\ ~Ahead("pump")'
  BY <1>5 DEF Ahead
<1>7. pump' = "unborn"
  BY <1>1 DEF Orderly, NotYetBorn, SubmitFails
<1>8. QED BY <1>5, <1>6, <1>7 DEF Orderly, AgendaFits, InOrder, NotYetBorn, JoinedBefore,
                                 PumpAhead, Ahead

LEMMA FourParts ==
  ASSUME NEW n \in Nat, NEW m \in Nat, NEW i \in 1..(n + 2) + m
  PROVE  i \in 1..n \/ i = n + 1 \/ i = n + 2 \/ \E k \in 1..m : i = (n + 2) + k
<1>1. CASE i <= n + 2
  BY <1>1
<1>2. CASE i > n + 2
  <2>1. i - (n + 2) \in 1..m /\ i = (n + 2) + (i - (n + 2))
    BY <1>2
  <2>2. QED BY <2>1
<1>3. QED BY <1>1, <1>2

(* What a command does: it starts its streams, then the pump, then it ends. *)
Starts(starts) ==
  starts \in Seq(Steps) /\ \A i \in 1..Len(starts) : starts[i].do = "start"
Serves(middle) ==
  middle \in Seq(Steps) /\ Len(middle) = 2 /\ middle[1].do = "pump" /\ middle[2].do = "serve"
EndsWell(ending) ==
  /\ ending \in Seq(Steps)
  /\ \A i \in 1..Len(ending) :
       /\ ending[i].do \in {"quiet", "stop", "join", "close", "drop"}
       /\ ending[i].do = "drop" => \E j \in 1..i - 1 : ending[j].do = "join"

LEMMA PartsAreOrderly ==
  ASSUME NEW starts, Starts(starts), NEW middle, Serves(middle),
         NEW ending, EndsWell(ending),
         agenda = starts \o middle \o ending, up = <<>>, pump = "unborn"
  PROVE  Orderly
<1> DEFINE n == Len(starts)
           m == Len(ending)
           front == starts \o middle
<1>0. /\ starts \in Seq(Steps) /\ middle \in Seq(Steps) /\ ending \in Seq(Steps)
      /\ n \in Nat /\ m \in Nat /\ Len(middle) = 2
  BY DEF Starts, Serves, EndsWell
<1>1. /\ front \in Seq(Steps) /\ Len(front) = n + 2
      /\ \A i \in 1..n : front[i] = starts[i]
      /\ \A i \in 1..2 : front[n + i] = middle[i]
  <2>1. front \in Seq(Steps) /\ Len(front) = n + 2
    <3>1. front \in Seq(Steps)
      BY <1>0, AfterEachOther
    <3>2. Len(front) = Len(starts) + Len(middle)
      BY <1>0, AfterEachOther
    <3>3. QED BY <1>0, <3>1, <3>2
  <2>2. \A i \in 1..n : front[i] = starts[i]
    BY <1>0, AfterEachOther
  <2>3. \A i \in 1..Len(middle) : front[n + i] = middle[i]
    BY <1>0, AfterEachOther
  <2>4. QED BY <1>0, <2>1, <2>2, <2>3
<1>2. agenda = front \o ending
  OBVIOUS
<1> HIDE DEF front
<1>3. agenda \in Seq(Steps) /\ Len(agenda) = (n + 2) + m
  <2>1. agenda \in Seq(Steps)
    BY <1>0, <1>1, <1>2, AfterEachOther
  <2>2. Len(front \o ending) = Len(front) + Len(ending)
    BY <1>0, <1>1, AfterEachOther
  <2>3. QED BY <1>1, <1>2, <2>1, <2>2
<1>4. \A i \in 1..n + 2 : agenda[i] = front[i]
  BY <1>0, <1>1, <1>2, AfterEachOther
<1>5. \A k \in 1..m : agenda[(n + 2) + k] = ending[k]
  BY <1>0, <1>1, <1>2, AfterEachOther
<1>6. /\ \A i \in 1..n : starts[i].do = "start"
      /\ middle[1].do = "pump" /\ middle[2].do = "serve"
      /\ \A i \in 1..m :
           /\ ending[i].do \in {"quiet", "stop", "join", "close", "drop"}
           /\ ending[i].do = "drop" => \E j \in 1..i - 1 : ending[j].do = "join"
  BY DEF Starts, Serves, EndsWell
<1> HIDE DEF n, m
<1>7. DOMAIN agenda = 1..(n + 2) + m
  <2>1. DOMAIN agenda = 1..Len(agenda)
    BY <1>3
  <2>2. QED BY <1>3, <2>1
<1>8. /\ \A i \in 1..n : i \in 1..n + 2
      /\ n + 1 \in 1..n + 2 /\ n + 2 \in 1..n + 2 /\ 1 \in 1..2 /\ 2 \in 1..2
  BY <1>0
<1>9. \A i \in 1..n : agenda[i].do = "start"
  <2>1. \A i \in 1..n : agenda[i] = starts[i]
    BY <1>1, <1>4, <1>8
  <2>2. ASSUME NEW i \in 1..n PROVE agenda[i].do = "start"
    <3>1. starts[i].do = "start"
      BY <1>6
    <3>2. agenda[i] = starts[i]
      BY <2>1
    <3>3. QED BY <3>1, <3>2, Zenon
  <2>3. QED BY <2>2
<1>10. agenda[n + 1].do = "pump" /\ agenda[n + 2].do = "serve"
  <2>1. agenda[n + 1] = middle[1] /\ agenda[n + 2] = middle[2]
    BY <1>1, <1>4, <1>8
  <2>2. QED BY <1>6, <2>1
<1>11. \A i \in DOMAIN agenda :
         i \in 1..n \/ i = n + 1 \/ i = n + 2 \/ \E k \in 1..m : i = (n + 2) + k
  <2> SUFFICES ASSUME NEW i \in 1..(n + 2) + m
               PROVE  i \in 1..n \/ i = n + 1 \/ i = n + 2 \/ \E k \in 1..m : i = (n + 2) + k
    BY <1>7
  <2>1. QED BY <1>0, FourParts
<1>12. AgendaFits
  BY <1>3 DEF AgendaFits
<1>13. InOrder
  <2> SUFFICES ASSUME NEW i \in DOMAIN agenda, NEW j \in DOMAIN agenda, i < j,
                      agenda[j].do \in {"start", "pump"}
               PROVE  agenda[i].do = "start"
    BY DEF InOrder
  <2>1. ASSUME NEW k \in 1..m, j = (n + 2) + k PROVE FALSE
    <3>1. agenda[j].do \in {"quiet", "stop", "join", "close", "drop"}
      BY <1>5, <1>6, <2>1
    <3>2. QED BY <3>1
  <2>2. j \in 1..n \/ j = n + 1
    BY <1>10, <1>11, <2>1
  <2>3. i \in 1..n
    BY <1>0, <1>7, <2>2
  <2>4. QED BY <1>9, <2>3
<1>14. JoinedBefore
  <2> SUFFICES ASSUME NEW j \in DOMAIN agenda, agenda[j].do = "drop"
               PROVE  \E i \in DOMAIN agenda : i < j /\ agenda[i].do = "join"
    BY DEF JoinedBefore
  <2>1. PICK k \in 1..m : j = (n + 2) + k
    BY <1>9, <1>10, <1>11
  <2>2. ending[k].do = "drop"
    BY <1>5, <2>1
  <2>3. PICK i \in 1..k - 1 : ending[i].do = "join"
    BY <1>6, <2>2
  <2>4. i \in 1..m /\ (n + 2) + i < j /\ (n + 2) + i \in 1..(n + 2) + m
    BY <1>0, <2>1
  <2>5. agenda[(n + 2) + i].do = "join"
    BY <1>5, <2>3, <2>4
  <2>6. (n + 2) + i \in DOMAIN agenda
    BY <1>7, <2>4
  <2>7. QED BY <2>4, <2>5, <2>6
<1>15. NotYetBorn
  BY DEF NotYetBorn
<1>16. QED BY <1>12, <1>13, <1>14, <1>15 DEF Orderly

LEMMA CommandsAreOrderly ==
  ASSUME Init
  PROVE  Orderly
<1>1. PICK c \in Commands :
        agenda = [i \in 1..Len(c.streams) |-> StartStep(c.streams[i])]
                   \o <<Step("pump"), Step("serve")>> \o c.ending
  BY DEF Init
<1> DEFINE starts == [i \in 1..Len(c.streams) |-> StartStep(c.streams[i])]
           middle == <<Step("pump"), Step("serve")>>
<1>2. EndsWell(c.ending)
  BY CommandAssumption DEF EndsWell
<1>3. Starts(starts)
  <2>1. c.streams \in Seq(Targets) /\ Len(c.streams) \in Nat
    BY CommandAssumption
  <2>2. \A i \in 1..Len(c.streams) : /\ StartStep(c.streams[i]) \in Steps
                                     /\ StartStep(c.streams[i]).do = "start"
    BY <2>1, StepsAreSteps DEF StartStep
  <2>3. QED BY <2>1, <2>2 DEF Starts
<1>4. Serves(middle)
  <2>1. Step("pump") \in Steps /\ Step("serve") \in Steps
    BY StepsAreSteps
  <2>2. QED BY <2>1 DEF Step, Serves
<1>5. agenda = starts \o middle \o c.ending
  BY <1>1
<1>6. up = <<>> /\ pump = "unborn"
  BY DEF Init
<1> HIDE DEF starts, middle
<1>7. QED BY <1>2, <1>3, <1>4, <1>5, <1>6, PartsAreOrderly

-----------------------------------------------------------------------------
(* One callback at a time, and by somebody who is handling events. *)
States == {"none", "idle"} \cup Flight
Calls == [by : {"pump", "main"}, of : Transfers, next : {"look", "submit"}]

CallFits == call = NoCall \/ call \in Calls
InCallback == call # NoCall => state[call.of] = "callback"
OneCall == \A t \in Transfers : state[t] = "callback" => call.of = t
Whose == (call.by = "pump" => pump = "handling") /\ (call.by = "main" => Waits)

CallOK == CallFits /\ InCallback /\ OneCall
RestFits ==
  /\ freed \subseteq Transfers /\ abandoned \subseteq Transfers
  /\ pump \in {"unborn", "looking", "handling", "ended"}
  /\ alive \in BOOLEAN /\ isoRunning \in BOOLEAN /\ deviceGone \in BOOLEAN
  /\ looks \in BOOLEAN /\ exits \in BOOLEAN /\ plugged \in BOOLEAN
  /\ handle \in {"open", "closed"}
PlaceFits ==
  /\ progress \in 0..MaxNumber
  /\ progress # 0 => Now("start") \/ Now("drop")
StateFits == state \in [Transfers -> States]

Shape == StateFits /\ CallOK /\ Whose /\ RestFits /\ PlaceFits /\ Orderly

LEMMA Callers ==
  ASSUME CallFits
  PROVE  \/ /\ call = NoCall /\ call.by = "nobody" /\ call.next = "-"
            /\ call.of \notin Transfers
         \/ /\ call # NoCall /\ call \in Calls /\ call.by \in {"pump", "main"}
            /\ call.of \in Transfers /\ call.next \in {"look", "submit"}
<1>1. CASE call = NoCall
  <2>1. <<"-", 0>> \notin Transfers
    <3> SUFFICES ASSUME <<"-", 0>> \in Transfers PROVE FALSE
      OBVIOUS
    <3>1. <<"-", 0>>[2] \in Nat \ {0}
      BY TransferAssumption
    <3>2. QED BY <3>1
  <2>2. QED BY <1>1, <2>1 DEF NoCall
<1>2. CASE call \in Calls
  <2>1. call.by \in {"pump", "main"} /\ call.of \in Transfers /\ call.next \in {"look", "submit"}
    BY <1>2 DEF Calls
  <2>2. call.by # "nobody"
    BY <2>1
  <2>3. QED BY <1>2, <2>1, <2>2 DEF NoCall
<1>3. QED BY <1>1, <1>2 DEF CallFits

LEMMA ShapeIsTyped == Shape => TypeOK
<1> SUFFICES ASSUME Shape PROVE TypeOK
  OBVIOUS
<1>1. state \in [Transfers -> {"none", "idle"} \cup Flight]
  BY DEF Shape, StateFits, States
<1>2. call # NoCall => /\ call.by \in {"pump", "main"}
                       /\ call.next \in {"look", "submit"}
                       /\ state[call.of] = "callback"
  BY Callers DEF Shape, CallOK, InCallback
<1>3. {alive, isoRunning, deviceGone, looks, exits, plugged} \subseteq BOOLEAN
  BY DEF Shape, RestFits
<1>4. /\ progress \in 0..Max({t[2] : t \in Transfers})
      /\ progress # 0 => Now("start") \/ Now("drop")
  BY DEF Shape, PlaceFits, MaxNumber
<1>5. QED BY <1>1, <1>2, <1>3, <1>4 DEF Shape, RestFits, TypeOK

(* Nothing is dropped while the pump runs, nor started. *)
LEMMA DropsInPeace ==
  ASSUME Orderly, Now("drop")
  PROVE  pump \notin {"looking", "handling"}
<1>1. 1 \in DOMAIN agenda /\ agenda[1].do = "drop" /\ \A i \in DOMAIN agenda : i \in Nat \ {0}
  BY NowIsFirst DEF Orderly, Now
<1>2. ~\E i \in DOMAIN agenda : i < 1
  BY <1>1
<1>3. ~PumpAhead
  BY <1>1, <1>2 DEF Orderly, JoinedBefore
<1>4. QED BY <1>3 DEF PumpAhead

LEMMA StartsInPeace ==
  ASSUME Shape, Now("start")
  PROVE  pump = "unborn" /\ call = NoCall
<1>1. 1 \in DOMAIN agenda /\ agenda[1].do = "start"
  BY NowIsFirst DEF Shape, Orderly, Now
<1>2. pump = "unborn"
  BY <1>1 DEF Shape, Orderly, NotYetBorn, Ahead
<1>3. ~Waits
  BY DEF Waits, Now
<1>4. call.by \notin {"pump", "main"}
  BY <1>2, <1>3 DEF Shape, Whose
<1>5. QED BY <1>2, <1>4, Callers DEF Shape, CallOK

(* Who has no callback can be left alone, and whoever has one keeps it. *)
LEMMA CallKept ==
  ASSUME CallOK, call' = call,
         \A t \in Transfers : state'[t] = "callback" <=> state[t] = "callback"
  PROVE  CallOK'
<1>1. CallFits'
  BY DEF CallOK, CallFits
<1>2. InCallback'
  BY Callers DEF CallOK, InCallback
<1>3. OneCall'
  BY DEF CallOK, OneCall
<1>4. QED BY <1>1, <1>2, <1>3 DEF CallOK

LEMMA WhoseKept ==
  ASSUME Whose, call' = call, pump' = pump, ~Waits \/ UNCHANGED <<agenda, progress>>
  PROVE  Whose'
BY DEF Whose, Waits, Now, OwnedBy, Stream

(* libusb and the pump: neither touches what the main thread does. *)
LEMMA CompleteShape ==
  ASSUME Shape, NEW t \in Transfers, Complete(t) \/ GiveBack(t)
  PROVE  Shape'
<1>1. PICK s \in {"completed", "cancelled", "gone"} :
        /\ state[t] \in {"flying", "cancelling"}
        /\ state' = [state EXCEPT ![t] = s]
        /\ UNCHANGED <<main, call, flags, freed, abandoned, pump, handle, plugged>>
  BY DEF Complete, GiveBack
<1>2. state' \in [Transfers -> States] /\ state[t] # "callback"
  BY <1>1 DEF Shape, StateFits, States, Flight, Given
<1>3. \A u \in Transfers : state'[u] = "callback" <=> state[u] = "callback"
  BY <1>1, <1>2 DEF Shape, StateFits
<1>4. CallOK' /\ Whose'
  BY <1>1, <1>3, CallKept, WhoseKept DEF Shape, main
<1>5. Orderly'
  BY <1>1, SameStaysOrderly DEF Shape, main
<1>6. QED BY <1>1, <1>2, <1>4, <1>5 DEF Shape, StateFits, RestFits, PlaceFits, main, flags, Now

LEMMA BeginShape ==
  ASSUME Shape, NEW by \in {"pump", "main"}, NEW t \in Transfers, Begin(by, t)
  PROVE  Shape'
<1>1. /\ call = NoCall /\ Handles(by) /\ state[t] \in Given
      /\ deviceGone' \in BOOLEAN
      /\ UNCHANGED <<main, alive, isoRunning, freed, abandoned, pump, handle, plugged>>
  BY DEF Begin
<1>2. \A u \in Transfers : state[u] # "callback"
  BY <1>1, Callers DEF Shape, CallOK, OneCall
<1>3. CASE state' = [state EXCEPT ![t] = "idle"] /\ UNCHANGED call
  <2>1. state' \in [Transfers -> States]
    BY <1>3 DEF Shape, StateFits, States
  <2>2. \A u \in Transfers : state'[u] = "callback" <=> state[u] = "callback"
    BY <1>2, <1>3 DEF Shape, StateFits
  <2>3. CallOK' /\ Whose'
    BY <1>1, <1>3, <2>2, CallKept, WhoseKept DEF Shape, main
  <2>4. QED BY <1>1, <2>1, <2>3, SameStaysOrderly
            DEF Shape, StateFits, RestFits, PlaceFits, main, Now
<1>4. CASE /\ state' = [state EXCEPT ![t] = "callback"]
           /\ call' = [by |-> by, of |-> t, next |-> "look"]
  <2>1. state' \in [Transfers -> States]
    BY <1>4 DEF Shape, StateFits, States, Flight
  <2>2. call' \in Calls /\ call'.of = t /\ call'.by = by
    BY <1>4 DEF Calls
  <2>3. CallOK'
    <3>1. \A u \in Transfers : state'[u] = "callback" => u = t
      BY <1>2, <1>4 DEF Shape, StateFits
    <3>2. state'[t] = "callback"
      BY <1>4 DEF Shape, StateFits
    <3>3. QED BY <2>2, <3>1, <3>2 DEF CallOK, CallFits, InCallback, OneCall
  <2>4. Whose'
    <3>1. by = "pump" => pump = "handling"
      BY <1>1 DEF Handles
    <3>2. by = "main" => Waits
      BY <1>1 DEF Handles
    <3>3. QED BY <1>1, <2>2, <3>1, <3>2 DEF Whose, Waits, Now, OwnedBy, Stream, main
  <2>5. QED BY <1>1, <2>1, <2>3, <2>4, SameStaysOrderly
            DEF Shape, StateFits, RestFits, PlaceFits, main, Now
<1>5. QED BY <1>3, <1>4 DEF Begin

(* A callback that ends leaves nobody in one. *)
LEMMA CallbackEnds ==
  ASSUME Shape, call.next \in {"look", "submit"}, NEW s \in {"idle", "flying"},
         state' = [state EXCEPT ![call.of] = s], call' = NoCall,
         UNCHANGED <<main, flags, freed, abandoned, pump, handle, plugged>>
  PROVE  Shape'
<1>1. call.of \in Transfers
  BY Callers DEF Shape, CallOK
<1>2. state' \in [Transfers -> States]
  BY <1>1 DEF Shape, StateFits, States, Flight
<1>3. \A u \in Transfers : state'[u] # "callback"
  BY <1>1 DEF Shape, StateFits, CallOK, OneCall
<1>4. CallOK' /\ Whose'
  <2>1. call'.by = "nobody"
    BY DEF NoCall
  <2>2. QED BY <1>3, <2>1 DEF CallOK, CallFits, InCallback, OneCall, Whose
<1>5. QED BY <1>2, <1>4, SameStaysOrderly
          DEF Shape, StateFits, RestFits, PlaceFits, main, flags, Now

LEMMA LookShape ==
  ASSUME Shape, Look
  PROVE  Shape'
<1>1. CASE isoRunning
  <2>1. call' = [call EXCEPT !.next = "submit"] /\ state' = state
    BY <1>1 DEF Look
  <2>2. call \in Calls
    BY Callers DEF Shape, CallOK, Look
  <2>3. call' \in Calls /\ call'.of = call.of /\ call'.by = call.by
    BY <2>1, <2>2 DEF Calls
  <2>4. CallOK'
    <3>1. call # NoCall
      BY Callers DEF Shape, CallOK, Look
    <3>2. QED BY <2>1, <2>3, <3>1 DEF Shape, CallOK, CallFits, InCallback, OneCall
  <2>5. Whose'
    BY <2>3 DEF Shape, Whose, Look, main, Waits, Now, OwnedBy, Stream
  <2>6. QED BY <2>1, <2>4, <2>5, SameStaysOrderly
            DEF Shape, Look, StateFits, RestFits, PlaceFits, main, flags, Now
<1>2. CASE ~isoRunning
  BY <1>2, CallbackEnds DEF Look
<1>3. QED BY <1>1, <1>2

LEMMA ResubmitShape ==
  ASSUME Shape, Resubmit
  PROVE  Shape'
BY CallbackEnds DEF Resubmit

LEMMA PumpShape ==
  ASSUME Shape, PumpLooks \/ PumpReturns
  PROVE  Shape'
<1>1. /\ UNCHANGED <<main, usb, flags, freed, abandoned, handle, plugged>>
      /\ pump \in {"looking", "handling"} /\ pump' \in {"looking", "handling", "ended"}
      /\ call.by # "pump"
  BY DEF PumpLooks, PumpReturns, Shape, Whose
<1>2. CallOK'
  BY <1>1, CallKept DEF Shape, usb
<1>3. Whose'
  BY <1>1 DEF Shape, Whose, usb, main, Waits, Now, OwnedBy, Stream
<1>4. Orderly'
  BY <1>1, SameStaysOrderly DEF Shape, main
<1>5. QED BY <1>1, <1>2, <1>3, <1>4
          DEF Shape, StateFits, RestFits, PlaceFits, main, usb, flags, Now

(* The main thread: a step of its agenda that is done. *)
LEMMA DoneShape ==
  ASSUME Shape, agenda # <<>>, agenda' = Tail(agenda), progress' = 0,
         call' = call, call.by # "main", state' \in [Transfers -> States],
         \A t \in Transfers : state'[t] = "callback" <=> state[t] = "callback",
         Now("join") => pump' = "ended",
         pump' = pump \/ (Now("pump") /\ pump' = "looking"),
         Ahead("start")' => up' \in Seq(Targets),
         RestFits'
  PROVE  Shape'
<1>1. Orderly'
  BY DoneStaysOrderly DEF Shape
<1>2. CallOK'
  BY CallKept DEF Shape
<1>3. Now("pump") => pump # "handling"
  <2>1. 1 \in DOMAIN agenda /\ agenda[1] = Head(agenda)
    BY NowIsFirst DEF Shape, Orderly
  <2>2. QED BY <2>1 DEF Shape, Orderly, NotYetBorn, Ahead, Now
<1>4. Whose'
  BY <1>3 DEF Shape, Whose
<1>5. PlaceFits'
  BY NumbersAreBounded DEF PlaceFits
<1>6. QED BY <1>1, <1>2, <1>4, <1>5 DEF Shape, StateFits

LEMMA ElsewhereNobodyWaits ==
  ASSUME Shape, NEW what \in {"start", "pump", "serve", "quiet", "stop", "join", "close"},
         Now(what)
  PROVE  /\ ~Waits /\ call.by # "main" /\ agenda # <<>>
         /\ what # "start" => progress = 0
<1>1. agenda # <<>> /\ Head(agenda).do = what
  BY DEF Now
<1>2. ~Now("drop") /\ (what # "start" => ~Now("start"))
  BY <1>1 DEF Now
<1>3. QED BY <1>1, <1>2 DEF Waits, Shape, Whose, PlaceFits

(* What is ahead of the next step is ahead now. *)
LEMMA AheadOfTail ==
  ASSUME AgendaFits, agenda # <<>>, agenda' = Tail(agenda), Ahead("start")'
  PROVE  Ahead("start")
BY TailIsRest DEF Ahead

(* A step that is about nothing but flags, the pump or the handle. *)
LEMMA SimpleShape ==
  ASSUME Shape, NEW what \in {"pump", "serve", "quiet", "stop", "join", "close"}, Now(what),
         agenda' = Tail(agenda), UNCHANGED <<up, progress, usb>>,
         Now("join") => pump' = "ended",
         pump' = pump \/ (Now("pump") /\ pump' = "looking"),
         RestFits'
  PROVE  Shape'
<1>1. call.by # "main" /\ agenda # <<>> /\ progress = 0
  BY ElsewhereNobodyWaits
<1>2. Ahead("start")' => up' \in Seq(Targets)
  BY <1>1, AheadOfTail DEF Shape, Orderly, AgendaFits
<1>3. state' \in [Transfers -> States] /\ state' = state /\ call' = call /\ progress' = 0
  BY <1>1 DEF Shape, StateFits, usb
<1>4. QED BY <1>1, <1>2, <1>3, DoneShape

LEMMA SubmitNextShape ==
  ASSUME Shape, SubmitNext
  PROVE  Shape'
<1> DEFINE t == <<Stream, progress + 1>>
<1>1. /\ Now("start") /\ agenda # <<>> /\ call.by # "main"
      /\ pump = "unborn" /\ call = NoCall
  BY StartsInPeace, ElsewhereNobodyWaits DEF SubmitNext
<1>2. /\ state' = [state EXCEPT ![t] = "flying"]
      /\ UNCHANGED <<exits, looks, call, flags, freed, abandoned, pump, handle, plugged>>
  BY DEF SubmitNext
<1>3. /\ state' \in [Transfers -> States]
      /\ \A u \in Transfers : state'[u] = "callback" <=> state[u] = "callback"
  <2>1. \A u \in Transfers : state[u] # "callback"
    BY <1>1, Callers DEF Shape, CallOK, OneCall
  <2>2. QED BY <1>2, <2>1 DEF Shape, StateFits, States, Flight
<1>4. RestFits'
  BY <1>2 DEF Shape, RestFits, flags
<1>5. CASE agenda' = Tail(agenda) /\ progress' = 0 /\ up' = Append(up, Stream)
  <2>1. Ahead("start")' => up' \in Seq(Targets)
    <3>1. Stream \in Targets
      BY <1>1, NowIsFirst DEF Shape, Orderly, Stream, Steps
    <3>2. Ahead("start")' => up \in Seq(Targets)
      BY <1>1, <1>5, AheadOfTail DEF Shape, Orderly, AgendaFits
    <3>3. QED BY <1>5, <3>1, <3>2
  <2>2. ~Now("join")
    BY <1>1 DEF Now
  <2>3. QED BY <1>1, <1>2, <1>3, <1>4, <1>5, <2>1, <2>2, DoneShape
<1>6. CASE /\ OwnedBy(Stream) # Submitted(Stream, progress + 1)
           /\ progress' = progress + 1 /\ UNCHANGED <<agenda, up>>
  <2>1. PICK u \in Transfers : ~(u[2] <= progress + 1)
    BY <1>6 DEF OwnedBy, Submitted
  <2>2. progress + 1 \in 0..MaxNumber
    BY <2>1, NumbersAreBounded DEF Shape, PlaceFits
  <2>3. PlaceFits'
    BY <1>1, <1>6, <2>2 DEF PlaceFits, Now
  <2>4. CallOK' /\ Orderly'
    BY <1>2, <1>3, <1>6, CallKept, SameStaysOrderly DEF Shape
  <2>5. Whose'
    BY <1>1, <1>2, ElsewhereNobodyWaits, WhoseKept DEF Shape
  <2>6. QED BY <1>3, <1>4, <2>3, <2>4, <2>5 DEF Shape, StateFits
<1>7. QED BY <1>5, <1>6 DEF SubmitNext

LEMMA SubmitFailsShape ==
  ASSUME Shape, SubmitFails
  PROVE  Shape'
<1>1. call = NoCall /\ Now("start")
  BY StartsInPeace DEF SubmitFails
<1>2. /\ progress' = 0 /\ abandoned' = abandoned \cup Submitted(Stream, progress)
      /\ UNCHANGED <<up, exits, looks, usb, flags, freed, pump, handle, plugged>>
  BY DEF SubmitFails
<1>3. Orderly'
  BY UnwindingIsOrderly DEF Shape
<1>4. RestFits'
  <2>1. Submitted(Stream, progress) \subseteq Transfers
    BY DEF Submitted, OwnedBy
  <2>2. QED BY <1>2, <2>1 DEF Shape, RestFits, flags
<1>5. PlaceFits'
  BY <1>2, NumbersAreBounded DEF PlaceFits
<1>6. Whose'
  BY <1>1, <1>2 DEF Whose, NoCall, usb
<1>7. CallOK' /\ StateFits'
  BY <1>2, CallKept DEF Shape, StateFits, usb
<1>8. QED BY <1>3, <1>4, <1>5, <1>6, <1>7 DEF Shape

LEMMA NoticeGoneShape ==
  ASSUME Shape, NoticeGone
  PROVE  Shape'
<1>1. Now("serve") /\ UNCHANGED <<progress, exits, looks, flags, freed, abandoned, handle, plugged>>
  BY DEF NoticeGone
<1>2. CASE exits
  <2>1. /\ agenda' = <<>> /\ up' = <<>> /\ pump' = "ended" /\ call' = NoCall
        /\ state' = [t \in Transfers |-> "none"]
    BY <1>2 DEF NoticeGone
  <2>2. progress' = 0
    BY <1>1, ElsewhereNobodyWaits
  <2>3. Orderly'
    BY <2>1 DEF Orderly, AgendaFits, InOrder, NotYetBorn, JoinedBefore, PumpAhead, Ahead
  <2>4. StateFits' /\ CallOK' /\ Whose'
    BY <2>1 DEF StateFits, States, CallOK, CallFits, InCallback, OneCall, Whose, NoCall
  <2>5. RestFits' /\ PlaceFits'
    BY <1>1, <2>1, <2>2, NumbersAreBounded DEF Shape, RestFits, PlaceFits, flags
  <2>6. QED BY <2>3, <2>4, <2>5 DEF Shape
<1>3. CASE ~exits
  <2>1. agenda' = Tail(agenda) /\ UNCHANGED <<up, pump, usb>>
    BY <1>3 DEF NoticeGone
  <2>2. ~Now("join") /\ RestFits'
    BY <1>1, <2>1 DEF Now, Shape, RestFits, flags
  <2>3. QED BY <1>1, <2>1, <2>2, SimpleShape
<1>4. QED BY <1>2, <1>3

LEMMA CancelledIsAState ==
  ASSUME NEW was \in States
  PROVE  /\ Cancelled(was) \in States
         /\ Cancelled(was) \in Flight <=> was \in Flight
         /\ Cancelled(was) = "callback" <=> was = "callback"
         /\ Cancelled(was) = "gone" <=> was = "gone"
         /\ Cancelled(was) \notin {"flying", "completed"}
BY DEF Cancelled, States, Flight, Given

LEMMA CancelNextShape ==
  ASSUME Shape, CancelNext
  PROVE  Shape'
<1> DEFINE t == <<Stream, progress + 1>>
<1>1. /\ Now("drop") /\ ~Waits /\ progress' = progress + 1
      /\ UNCHANGED <<agenda, up, exits, looks, call, flags, freed, abandoned, pump, handle, plugged>>
  BY DEF CancelNext
<1>2. state' = [state EXCEPT ![t] = Cancelled(state[t])]
  BY DEF CancelNext
<1>3. \A u \in Transfers : state'[u] = state[u] \/ state'[u] = Cancelled(state[u])
  BY <1>2 DEF Shape, StateFits
<1>4. \A u \in Transfers : state[u] \in States
  BY DEF Shape, StateFits
<1>5. state' \in [Transfers -> States]
  BY <1>2, <1>3, <1>4, CancelledIsAState DEF Shape, StateFits
<1>6. \A u \in Transfers : state'[u] = "callback" <=> state[u] = "callback"
  BY <1>3, <1>4, CancelledIsAState
<1>7. CallOK' /\ Whose' /\ Orderly'
  BY <1>1, <1>6, CallKept, WhoseKept, SameStaysOrderly DEF Shape
<1>8. PlaceFits'
  <2>1. PICK u \in Transfers : ~(u[2] <= progress)
    BY <1>1 DEF Waits, OwnedBy
  <2>2. progress + 1 \in 0..MaxNumber
    BY <2>1, NumbersAreBounded DEF Shape, PlaceFits
  <2>3. QED BY <1>1, <2>2 DEF PlaceFits, Now
<1>9. RestFits'
  BY <1>1 DEF Shape, RestFits, flags
<1>10. QED BY <1>5, <1>7, <1>8, <1>9 DEF Shape, StateFits

LEMMA FreeAllShape ==
  ASSUME Shape, FreeAll
  PROVE  Shape'
<1>1. /\ Waits /\ Now("drop") /\ agenda # <<>> /\ call.by # "main"
      /\ agenda' = Tail(agenda) /\ progress' = 0
      /\ UNCHANGED <<exits, looks, usb, flags, abandoned, pump, handle, plugged>>
  BY DEF FreeAll, Waits, Now
<1>2. RestFits'
  <2>1. OwnedBy(Stream) \subseteq Transfers
    BY DEF OwnedBy
  <2>2. freed' = freed \cup OwnedBy(Stream)
    BY DEF FreeAll
  <2>3. QED BY <1>1, <2>1, <2>2 DEF Shape, RestFits, flags
<1>3. ~Ahead("start")'
  <2> SUFFICES ASSUME NEW i \in DOMAIN agenda', agenda'[i].do = "start" PROVE FALSE
    BY DEF Ahead
  <2>1. i \in Nat \ {0} /\ i + 1 \in DOMAIN agenda /\ agenda[i + 1].do = "start"
    BY <1>1, TailIsRest DEF Shape, Orderly
  <2>2. 1 \in DOMAIN agenda /\ agenda[1].do = "drop" /\ 1 < i + 1
    BY <1>1, <2>1, NowIsFirst DEF Shape, Orderly, Now
  <2>3. QED BY <2>1, <2>2 DEF Shape, Orderly, InOrder
<1>4. ~Now("join")
  BY <1>1 DEF Now
<1>5. state' = state /\ call' = call /\ state' \in [Transfers -> States]
  BY <1>1 DEF Shape, StateFits, usb
<1>6. QED BY <1>1, <1>2, <1>3, <1>4, <1>5, DoneShape

LEMMA ShapeStep == Shape /\ [Next]_vars => Shape'
<1> SUFFICES ASSUME Shape, [Next]_vars PROVE Shape'
  OBVIOUS
<1>1. ASSUME NEW t \in Transfers, Complete(t) \/ GiveBack(t) PROVE Shape'
  BY <1>1, CompleteShape
<1>2. ASSUME NEW by \in {"pump", "main"}, NEW t \in Transfers, Begin(by, t) PROVE Shape'
  BY <1>2, BeginShape
<1>3. CASE Look
  BY <1>3, LookShape
<1>4. CASE Resubmit
  BY <1>4, ResubmitShape
<1>5. CASE PumpLooks \/ PumpReturns
  BY <1>5, PumpShape
<1>6. CASE SubmitNext
  BY <1>6, SubmitNextShape
<1>7. CASE SubmitFails
  BY <1>7, SubmitFailsShape
<1>8. CASE StartPump
  <2>1. Now("pump") /\ pump' = "looking" /\ agenda' = Tail(agenda) /\ ~Now("join")
    BY <1>8 DEF StartPump, Now
  <2>2. UNCHANGED <<up, progress, usb>> /\ RestFits'
    BY <1>8 DEF StartPump, Shape, RestFits, flags
  <2>3. QED BY <2>1, <2>2, SimpleShape
<1>9. CASE Finish
  <2>1. Now("serve") /\ pump' = pump /\ agenda' = Tail(agenda) /\ ~Now("join")
    BY <1>9 DEF Finish, Now
  <2>2. UNCHANGED <<up, progress, usb>> /\ RestFits'
    BY <1>9 DEF Finish, Shape, RestFits, flags
  <2>3. QED BY <2>1, <2>2, SimpleShape
<1>10. CASE NoticeGone
  BY <1>10, NoticeGoneShape
<1>11. CASE LowerFlag
  <2>1. PICK what \in {"stop", "quiet"} : Now(what)
    BY <1>11 DEF LowerFlag
  <2>2. pump' = pump /\ agenda' = Tail(agenda) /\ ~Now("join")
    BY <1>11, <2>1 DEF LowerFlag, Now
  <2>3. UNCHANGED <<up, progress, usb>> /\ RestFits'
    BY <1>11 DEF LowerFlag, Shape, RestFits
  <2>4. QED BY <2>1, <2>2, <2>3, SimpleShape
<1>12. CASE JoinPump
  <2>1. Now("join") /\ pump' = pump /\ pump' = "ended" /\ agenda' = Tail(agenda)
    BY <1>12 DEF JoinPump
  <2>2. UNCHANGED <<up, progress, usb>> /\ RestFits'
    BY <1>12 DEF JoinPump, Shape, RestFits, flags
  <2>3. QED BY <2>1, <2>2, SimpleShape
<1>13. CASE Close
  <2>1. Now("close") /\ pump' = pump /\ agenda' = Tail(agenda) /\ ~Now("join")
    BY <1>13 DEF Close, Now
  <2>2. UNCHANGED <<up, progress, usb>> /\ RestFits'
    BY <1>13 DEF Close, Shape, RestFits, flags
  <2>3. QED BY <2>1, <2>2, SimpleShape
<1>14. CASE CancelNext
  BY <1>14, CancelNextShape
<1>15. CASE FreeAll
  BY <1>15, FreeAllShape
<1>16. CASE UNCHANGED <<main, usb, flags, freed, abandoned, pump, handle>> /\ plugged' \in BOOLEAN
  <2>1. CallOK' /\ Whose' /\ Orderly'
    BY <1>16, CallKept, WhoseKept, SameStaysOrderly DEF Shape, main, usb
  <2>2. QED BY <1>16, <2>1 DEF Shape, StateFits, RestFits, PlaceFits, main, usb, flags, Now
<1>17. CASE Unplug
  BY <1>16, <1>17 DEF Unplug
<1>18. CASE UNCHANGED vars
  BY <1>16, <1>18 DEF vars, Shape, RestFits
<1>19. QED
  BY <1>1, <1>2, <1>3, <1>4, <1>5, <1>6, <1>7, <1>8, <1>9, <1>10, <1>11, <1>12, <1>13,
     <1>14, <1>15, <1>17, <1>18 DEF Next, MainNext

LEMMA InitShape == Init => Shape
<1> SUFFICES ASSUME Init PROVE Shape
  OBVIOUS
<1>1. Orderly
  BY CommandsAreOrderly
<1>2. exits \in BOOLEAN /\ looks \in BOOLEAN
  BY CommandAssumption DEF Init
<1>3. RestFits /\ PlaceFits
  <2>1. RestFits
    BY <1>2 DEF Init, RestFits
  <2>2. progress = 0 /\ 0 \in 0..MaxNumber
    BY NumbersAreBounded DEF Init
  <2>3. QED BY <2>1, <2>2 DEF PlaceFits
<1>4. StateFits /\ CallOK /\ Whose
  BY DEF Init, StateFits, States, CallOK, CallFits, InCallback, OneCall, Whose, NoCall
<1>5. QED BY <1>1, <1>3, <1>4 DEF Shape

LEMMA AlwaysShape == Spec => []Shape
BY InitShape, ShapeStep, PTL DEF Spec

(* Threads, transfers and flags are what TypeOK says: one callback runs at a
   time, of a transfer libusb has given back (IsoStream, BulkInStream). *)
THEOREM TypeCorrect == Spec => []TypeOK
BY AlwaysShape, ShapeIsTyped, PTL

-----------------------------------------------------------------------------
(* Why a buffer can be freed.  A transfer that was cancelled by the drop in
   hand is not flying and does not fly again: the only one that gets as far as
   a submission is of a device that left. *)
LeftTheBus == \A t \in Transfers : state[t] = "gone" => ~plugged
Calmed ==
  Now("drop") => \A t \in OwnedBy(Stream) : t[2] <= progress =>
    /\ state[t] \notin {"flying", "completed"}
    /\ state[t] = "callback" => ~plugged
NothingFreedYet == Ahead("start") => freed = {}

Buffers == LeftTheBus /\ Calmed /\ NothingFreedYet /\ BufferOutlives

LEMMA SameAgenda ==
  ASSUME UNCHANGED main
  PROVE  /\ \A what : Now(what)' <=> Now(what)
         /\ \A what : Ahead(what)' <=> Ahead(what)
         /\ OwnedBy(Stream)' = OwnedBy(Stream) /\ progress' = progress
BY DEF main, Now, Ahead, Stream, OwnedBy

(* One transfer changes its state, and nothing but that: what must hold of it. *)
LEMMA OneTransfer ==
  ASSUME Shape, Buffers, UNCHANGED <<main, freed, plugged>>,
         NEW t \in Transfers, NEW s \in States, state' = [state EXCEPT ![t] = s],
         s = "gone" => ~plugged,
         s \in Flight => state[t] \in Flight,
         s \in {"flying", "completed"} => plugged /\ state[t] \in {"flying", "completed", "callback"},
         s = "callback" => ~plugged \/ state[t] \in {"flying", "completed"}
  PROVE  Buffers'
<1>1. \A u \in Transfers : state'[u] = IF u = t THEN s ELSE state[u]
  BY DEF Shape, StateFits
<1>2. LeftTheBus'
  BY <1>1 DEF Buffers, LeftTheBus
<1>3. Calmed'
  <2> SUFFICES ASSUME Now("drop"), NEW u \in OwnedBy(Stream), u[2] <= progress
               PROVE  /\ state'[u] \notin {"flying", "completed"}
                      /\ state'[u] = "callback" => ~plugged
    BY SameAgenda DEF Calmed
  <2>1. /\ state[u] \notin {"flying", "completed"} /\ (state[u] = "callback" => ~plugged)
        /\ u \in Transfers
    BY DEF Buffers, Calmed, OwnedBy
  <2>2. QED BY <1>1, <2>1
<1>4. NothingFreedYet'
  BY SameAgenda DEF Buffers, NothingFreedYet
<1>5. BufferOutlives'
  BY <1>1 DEF Buffers, BufferOutlives, Shape, RestFits, Flight, Given
<1>6. QED BY <1>2, <1>3, <1>4, <1>5 DEF Buffers

(* A step of the agenda is done that touches no transfer. *)
LEMMA DoneBuffers ==
  ASSUME Shape, Buffers, agenda # <<>>, agenda' = Tail(agenda), progress' = 0,
         UNCHANGED <<state, freed, plugged>>
  PROVE  Buffers'
<1>1. LeftTheBus' /\ BufferOutlives'
  BY DEF Buffers, LeftTheBus, BufferOutlives
<1>2. Calmed'
  BY NumbersAreBounded DEF Calmed, OwnedBy
<1>3. NothingFreedYet'
  BY AheadOfTail DEF Buffers, NothingFreedYet, Shape, Orderly
<1>4. QED BY <1>1, <1>2, <1>3 DEF Buffers

LEMMA UsbBuffers ==
  ASSUME Shape, Buffers, NEW t \in Transfers,
         \/ Complete(t) \/ GiveBack(t) \/ \E by \in {"pump", "main"} : Begin(by, t)
  PROVE  Buffers'
<1>1. {"completed", "cancelled", "gone", "idle", "callback"} \subseteq States
  BY DEF States, Flight, Given
<1>2. CASE Complete(t)
  <2>1. /\ state[t] = "flying" /\ plugged /\ state' = [state EXCEPT ![t] = "completed"]
        /\ UNCHANGED <<main, freed, plugged>>
    BY <1>2 DEF Complete
  <2>2. state[t] \in Flight
    BY <2>1 DEF Flight
  <2>3. QED BY <1>1, <2>1, <2>2, OneTransfer
<1>3. CASE GiveBack(t)
  <2>1. /\ UNCHANGED <<main, freed, plugged>>
        /\ \/ state[t] = "cancelling" /\ state' = [state EXCEPT ![t] = "cancelled"]
           \/ state[t] = "flying" /\ ~plugged /\ state' = [state EXCEPT ![t] = "gone"]
    BY <1>3 DEF GiveBack
  <2>2. state[t] \in Flight
    BY <2>1 DEF Flight
  <2>3. QED BY <1>1, <2>1, <2>2, OneTransfer
<1>4. ASSUME NEW by \in {"pump", "main"}, Begin(by, t) PROVE Buffers'
  <2>1. /\ state[t] \in Given /\ state[t] \in Flight /\ UNCHANGED <<main, freed, plugged>>
        /\ \/ state' = [state EXCEPT ![t] = "idle"]
           \/ state' = [state EXCEPT ![t] = "callback"] /\ state[t] # "cancelled"
    BY <1>4 DEF Begin, Over, Flight
  <2>2. state[t] # "cancelled" => ~plugged \/ state[t] \in {"flying", "completed"}
    BY <2>1 DEF Buffers, LeftTheBus, Given
  <2>3. CASE state' = [state EXCEPT ![t] = "idle"]
    <3>1. "idle" \notin Flight
      BY DEF Flight, Given
    <3>2. QED BY <1>1, <2>1, <2>3, <3>1, OneTransfer
  <2>4. CASE state' = [state EXCEPT ![t] = "callback"] /\ state[t] # "cancelled"
    BY <1>1, <2>1, <2>2, <2>4, OneTransfer
  <2>5. QED BY <2>1, <2>3, <2>4
<1>5. QED BY <1>2, <1>3, <1>4

(* Nothing but the pump, a flag, or where a callback is. *)
LEMMA UnmovedBuffers ==
  ASSUME Buffers, UNCHANGED <<main, state, freed>>, plugged' => plugged
  PROVE  Buffers'
<1>1. LeftTheBus' /\ BufferOutlives'
  BY DEF Buffers, LeftTheBus, BufferOutlives
<1>2. Calmed'
  <2> SUFFICES ASSUME Now("drop"), NEW t \in OwnedBy(Stream), t[2] <= progress
               PROVE  /\ state[t] \notin {"flying", "completed"}
                      /\ state[t] = "callback" => ~plugged
    BY SameAgenda DEF Calmed
  <2>1. QED BY DEF Buffers, Calmed
<1>3. NothingFreedYet'
  BY SameAgenda DEF Buffers, NothingFreedYet
<1>4. QED BY <1>1, <1>2, <1>3 DEF Buffers

LEMMA CallbackBuffers ==
  ASSUME Shape, Buffers, Look \/ Resubmit
  PROVE  Buffers'
<1>1. call.of \in Transfers /\ state[call.of] = "callback" /\ "callback" \in Flight
  BY Callers DEF Look, Resubmit, Shape, CallOK, InCallback, Flight
<1>2. /\ {"idle", "flying"} \subseteq States /\ "idle" \notin Flight
      /\ UNCHANGED <<main, freed, plugged>>
  BY DEF States, Flight, Given, Look, Resubmit
<1>3. CASE state' = state
  BY <1>2, <1>3, UnmovedBuffers
<1>4. CASE state' = [state EXCEPT ![call.of] = "idle"]
  BY <1>1, <1>2, <1>4, OneTransfer
<1>5. CASE plugged /\ state' = [state EXCEPT ![call.of] = "flying"]
  BY <1>1, <1>2, <1>5, OneTransfer
<1>6. QED BY <1>3, <1>4, <1>5 DEF Look, Resubmit

LEMMA SubmitBuffers ==
  ASSUME Shape, Buffers, SubmitNext
  PROVE  Buffers'
<1>1. Now("start") /\ agenda # <<>> /\ Ahead("start")
  <2>1. Now("start") /\ agenda # <<>>
    BY DEF SubmitNext, Now
  <2>2. 1 \in DOMAIN agenda /\ agenda[1] = Head(agenda)
    BY <2>1, NowIsFirst DEF Shape, Orderly
  <2>3. QED BY <2>1, <2>2 DEF Ahead, Now
<1>2. freed = {} /\ freed' = {} /\ plugged' = plugged
  BY <1>1 DEF Buffers, NothingFreedYet, SubmitNext
<1>3. LeftTheBus'
  <2>1. \A t \in Transfers : state'[t] \in {state[t], "flying"}
    BY DEF SubmitNext, Shape, StateFits
  <2>2. QED BY <1>2, <2>1 DEF Buffers, LeftTheBus
<1>4. Calmed'
  <2>1. CASE progress' = 0
    BY <2>1, NumbersAreBounded DEF Calmed, OwnedBy
  <2>2. CASE agenda' = agenda
    BY <1>1, <2>2 DEF Calmed, Now
  <2>3. QED BY <2>1, <2>2 DEF SubmitNext
<1>5. QED BY <1>2, <1>3, <1>4 DEF Buffers, NothingFreedYet, BufferOutlives

(* An error in start frees nothing that was freed by a drop before. *)
LEMMA FailureBuffers ==
  ASSUME Shape, Buffers, SubmitFails
  PROVE  Buffers'
<1>1. progress' = 0 /\ state' = state /\ plugged' = plugged /\ freed' = freed
  BY DEF SubmitFails, usb
<1>2. freed = {}
  <2>1. Now("start") /\ agenda # <<>>
    BY DEF SubmitFails, Now
  <2>2. 1 \in DOMAIN agenda /\ agenda[1] = Head(agenda)
    BY <2>1, NowIsFirst DEF Shape, Orderly
  <2>3. Ahead("start")
    BY <2>1, <2>2 DEF Ahead, Now
  <2>4. QED BY <2>3 DEF Buffers, NothingFreedYet
<1>3. Calmed'
  BY <1>1, NumbersAreBounded DEF Calmed, OwnedBy
<1>4. QED BY <1>1, <1>2, <1>3 DEF Buffers, LeftTheBus, NothingFreedYet, BufferOutlives

LEMMA CancelBuffers ==
  ASSUME Shape, Buffers, CancelNext
  PROVE  Buffers'
<1> DEFINE t == <<Stream, progress + 1>>
<1>1. /\ Now("drop") /\ ~Waits /\ progress' = progress + 1
      /\ state' = [state EXCEPT ![t] = Cancelled(state[t])]
      /\ UNCHANGED <<agenda, freed, plugged>>
  BY DEF CancelNext
<1>2. \A u \in Transfers : state[u] # "callback"
  <2>1. call.by \notin {"pump", "main"}
    BY <1>1, DropsInPeace DEF Shape, Whose
  <2>2. QED BY <2>1, Callers DEF Shape, CallOK, OneCall
<1>3. \A u \in Transfers : /\ state[u] \in States
                           /\ state'[u] = IF u = t THEN Cancelled(state[u]) ELSE state[u]
  BY <1>1 DEF Shape, StateFits
<1>4. LeftTheBus'
  BY <1>1, <1>3, CancelledIsAState DEF Buffers, LeftTheBus
<1>5. BufferOutlives'
  BY <1>1, <1>3, CancelledIsAState DEF Buffers, BufferOutlives, Shape, RestFits
<1>6. NothingFreedYet'
  BY <1>1 DEF Buffers, NothingFreedYet, Ahead
<1>7. Calmed'
  <2> SUFFICES ASSUME NEW u \in Transfers, u[1] = Stream, u[2] <= progress + 1
               PROVE  state'[u] \notin {"flying", "completed", "callback"}
    BY <1>1 DEF Calmed, OwnedBy, Stream
  <2>1. u = <<u[1], u[2]>> /\ u[2] \in Nat /\ progress \in Nat
    BY TransferAssumption, NumbersAreBounded DEF Shape, PlaceFits
  <2>2. CASE u = t
    BY <1>2, <1>3, <2>2, CancelledIsAState
  <2>3. CASE u # t
    <3>1. u[2] # progress + 1
      BY <2>1, <2>3
    <3>2. u[2] <= progress
      BY <2>1, <3>1
    <3>3. state[u] \notin {"flying", "completed"}
      BY <1>1, <3>2 DEF Buffers, Calmed, OwnedBy
    <3>4. QED BY <1>2, <1>3, <2>3, <3>3
  <2>4. QED BY <2>2, <2>3
<1>8. QED BY <1>4, <1>5, <1>6, <1>7 DEF Buffers

LEMMA FreeAllBuffers ==
  ASSUME RoundsSuffice, Shape, Buffers, FreeAll
  PROVE  Buffers'
<1>1. /\ Waits /\ Now("drop") /\ agenda # <<>> /\ call.by # "main"
      /\ agenda' = Tail(agenda) /\ progress' = 0
      /\ UNCHANGED <<state, plugged>> /\ freed' = freed \cup OwnedBy(Stream)
      /\ \A t \in OwnedBy(Stream) : state[t] \notin {"cancelling", "cancelled", "gone"}
  BY DEF FreeAll, WaitIsOver, Waits, Now, usb
<1>2. \A t \in OwnedBy(Stream) : t \in Transfers /\ t[2] <= progress
  BY <1>1 DEF Waits, OwnedBy
<1>3. \A t \in Transfers : state[t] # "callback"
  <2>1. call.by \notin {"pump", "main"}
    BY <1>1, DropsInPeace DEF Shape, Whose
  <2>2. QED BY <2>1, Callers DEF Shape, CallOK, OneCall
<1>4. \A t \in OwnedBy(Stream) : state[t] \notin {"flying", "completed"}
  BY <1>1, <1>2 DEF Buffers, Calmed
<1>5. BufferOutlives'
  BY <1>1, <1>2, <1>3, <1>4 DEF Buffers, BufferOutlives, Flight, Given
<1>6. LeftTheBus'
  BY <1>1 DEF Buffers, LeftTheBus
<1>7. Calmed'
  BY <1>1, NumbersAreBounded DEF Calmed, OwnedBy
<1>8. ~Ahead("start")'
  <2> SUFFICES ASSUME NEW i \in DOMAIN agenda', agenda'[i].do = "start" PROVE FALSE
    BY DEF Ahead
  <2>1. i \in Nat \ {0} /\ i + 1 \in DOMAIN agenda /\ agenda[i + 1].do = "start"
    BY <1>1, TailIsRest DEF Shape, Orderly
  <2>2. 1 \in DOMAIN agenda /\ agenda[1].do = "drop" /\ 1 < i + 1
    BY <1>1, <2>1, NowIsFirst DEF Shape, Orderly, Now
  <2>3. QED BY <2>1, <2>2 DEF Shape, Orderly, InOrder
<1>9. QED BY <1>5, <1>6, <1>7, <1>8 DEF Buffers, NothingFreedYet

LEMMA BuffersStep == RoundsSuffice /\ Shape /\ Buffers /\ [Next]_vars => Buffers'
<1> SUFFICES ASSUME RoundsSuffice, Shape, Buffers, [Next]_vars PROVE Buffers'
  OBVIOUS
<1>1. ASSUME NEW t \in Transfers,
             Complete(t) \/ GiveBack(t) \/ \E by \in {"pump", "main"} : Begin(by, t)
      PROVE  Buffers'
  BY <1>1, UsbBuffers
<1>2. CASE Look \/ Resubmit
  BY <1>2, CallbackBuffers
<1>3. CASE PumpLooks \/ PumpReturns
  BY <1>3, UnmovedBuffers DEF PumpLooks, PumpReturns, usb
<1>4. CASE SubmitNext
  BY <1>4, SubmitBuffers
<1>5. CASE SubmitFails
  BY <1>5, FailureBuffers
<1>6. CASE StartPump \/ Finish \/ LowerFlag \/ JoinPump \/ Close
  <2>1. PICK what \in {"pump", "serve", "quiet", "stop", "join", "close"} : Now(what)
    BY <1>6 DEF StartPump, Finish, LowerFlag, JoinPump, Close
  <2>2. agenda # <<>> /\ progress = 0
    BY <2>1, ElsewhereNobodyWaits
  <2>3. agenda' = Tail(agenda) /\ progress' = progress /\ UNCHANGED <<state, freed, plugged>>
    BY <1>6 DEF StartPump, Finish, LowerFlag, JoinPump, Close, usb
  <2>4. QED BY <2>2, <2>3, DoneBuffers
<1>7. CASE NoticeGone
  <2>1. Now("serve") /\ UNCHANGED <<progress, freed, plugged>>
    BY <1>7 DEF NoticeGone
  <2>2. agenda # <<>> /\ progress' = 0
    BY <2>1, ElsewhereNobodyWaits
  <2>3. CASE exits
    <3>1. agenda' = <<>> /\ state' = [t \in Transfers |-> "none"]
      BY <1>7, <2>3 DEF NoticeGone
    <3>2. QED BY <2>1, <3>1 DEF Buffers, LeftTheBus, Calmed, NothingFreedYet, BufferOutlives,
                               Shape, RestFits, Ahead, Now, Flight, Given
  <2>4. CASE ~exits
    <3>1. agenda' = Tail(agenda) /\ state' = state
      BY <1>7, <2>4 DEF NoticeGone, usb
    <3>2. QED BY <2>1, <2>2, <3>1, DoneBuffers
  <2>5. QED BY <2>3, <2>4
<1>8. CASE CancelNext
  BY <1>8, CancelBuffers
<1>9. CASE FreeAll
  BY <1>9, FreeAllBuffers
<1>10. CASE Unplug
  BY <1>10, UnmovedBuffers DEF Unplug, usb
<1>11. CASE UNCHANGED vars
  BY <1>11, UnmovedBuffers DEF vars, usb
<1>12. QED
  BY <1>1, <1>2, <1>3, <1>4, <1>5, <1>6, <1>7, <1>8, <1>9, <1>10, <1>11 DEF Next, MainNext

(* Nothing libusb has is freed in a drop, whatever streams a command starts,
   wherever a start fails, and however the command ends: a transfer that is freed
   has been cancelled, given back and not submitted again, if libusb gives back
   what is cancelled within the rounds a drop waits (Drop of IsoStream and
   BulkInStream, on_complete, on_bulk_in). *)
THEOREM BuffersOutlive == RoundsSuffice => (Spec => []BufferOutlives)
<1> SUFFICES ASSUME RoundsSuffice PROVE Spec => []BufferOutlives
  OBVIOUS
<1>1. Init => Buffers
  BY DEF Init, Buffers, LeftTheBus, Calmed, NothingFreedYet, BufferOutlives, OwnedBy
<1>2. Shape /\ Buffers /\ [Next]_vars => Buffers'
  BY BuffersStep
<1>3. Buffers => BufferOutlives
  BY DEF Buffers
<1>4. QED BY <1>1, <1>2, <1>3, AlwaysShape, PTL DEF Spec

==============================================================================
