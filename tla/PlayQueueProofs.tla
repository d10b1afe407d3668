--------------------------- MODULE PlayQueueProofs ---------------------------
(***************************************************************************)
(* PlayQueue for every limit, delivery, transfer and length of behaviour:  *)
(* its invariants, what a transfer is filled with, and that it implements  *)
(* the promise of AudioFifo.                                               *)
(***************************************************************************)
EXTENDS PlayQueue, TLAPS

-----------------------------------------------------------------------------
(* Runs of frames. *)

LEMMA RunIsSeq ==
  ASSUME NEW k \in Nat, NEW n \in Nat
  PROVE  /\ Run(k, n) \in Seq(k + 1..k + n)
         /\ Len(Run(k, n)) = n
         /\ \A i \in 1..n : Run(k, n)[i] = k + i
  BY DEF Run

LEMMA RunsJoin ==
  ASSUME NEW k \in Nat, NEW m \in Nat, NEW n \in Nat
  PROVE  Run(k, m) \o Run(k + m, n) = Run(k, m + n)
  BY DEF Run

LEMMA RunFrom ==
  ASSUME NEW k \in Nat, NEW n \in Nat, NEW j \in 0..n
  PROVE  From(Run(k, n), j) = Run(k + j, n - j)
  BY DEF Run, From

LEMMA RunUpTo ==
  ASSUME NEW k \in Nat, NEW n \in Nat, NEW j \in 0..n
  PROVE  SubSeq(Run(k, n), 1, j) = Run(k, j)
  BY DEF Run

LEMMA EmptyRun == \A k \in Nat : Run(k, 0) = <<>>
  BY DEF Run

LEMMA QuietIsSeq ==
  ASSUME NEW n \in Nat
  PROVE  /\ Quiet(n) \in Seq({Silence})
         /\ Len(Quiet(n)) = n
         /\ \A i \in 1..n : Quiet(n)[i] = Silence
  BY DEF Quiet, Silence

LEMMA WiderSeq ==
  ASSUME NEW S, NEW T, S \subseteq T
  PROVE  Seq(S) \subseteq Seq(T)
  OBVIOUS

-----------------------------------------------------------------------------
(* Why the order is kept: what is held is a run in two parts, the queue and the
   delivery on its way into it, ending at the newest frame handed over; the
   device is not ahead of its beginning. *)
Window(base, m, n) ==
  /\ play = Run(base, m) /\ wire = Run(base + m, n)
  /\ pushed = base + m + n
  /\ heard \in 0..base
  /\ m <= PlayLimit

Held == \E base, m, n \in Nat : Window(base, m, n)

Others ==
  /\ playOn \in BOOLEAN
  /\ taken \in Nat /\ drops \in Nat /\ cleared \in Nat
  /\ buffer \in [Transfers -> Seq(0..pushed)]
  /\ \/ filling = Nobody
     \/ filling \in [transfer : Transfers, length : Sizes, from : {"queue", "silence"}]

IInv == Held /\ Others /\ Accounted

LEMMA LimitsAreNatural ==
  /\ PlayLimit \in Nat /\ PlayLimit > 0
  /\ \A n \in Bursts \union Sizes : n \in Nat /\ n > 0
  BY QueueAssumption

(* What a window says of the two sequences. *)
LEMMA WindowLengths ==
  ASSUME NEW base \in Nat, NEW m \in Nat, NEW n \in Nat, Window(base, m, n)
  PROVE  /\ Len(play) = m /\ Len(wire) = n
         /\ play \o wire = Run(base, m + n)
         /\ pushed \in Nat
<1>1. play = Run(base, m) /\ wire = Run(base + m, n) /\ pushed = base + m + n
  BY DEF Window
<1>2. base + m \in Nat
  OBVIOUS
<1>3. Len(Run(base, m)) = m /\ Len(Run(base + m, n)) = n
  BY <1>2, RunIsSeq
<1>4. Run(base, m) \o Run(base + m, n) = Run(base, m + n)
  BY RunsJoin
<1>5. QED BY <1>1, <1>3, <1>4

LEMMA SmallerIs ==
  ASSUME NEW a \in Nat, NEW b \in Nat
  PROVE  Smaller(a, b) \in Nat /\ Smaller(a, b) <= a /\ Smaller(a, b) <= b
  BY DEF Smaller

(* Dropping the excess leaves a queue within its limit, and not an empty one. *)
LEMMA ExcessIs ==
  ASSUME NEW k \in Nat, NEW n \in Nat
  PROVE  LET e == Excess(Run(k, n))
         IN  e \in 0..n /\ n - e <= PlayLimit /\ (n > 0 => e < n)
<1>1. Len(Run(k, n)) = n
  BY RunIsSeq
<1>2. Excess(Run(k, n)) = IF n > PlayLimit THEN n - PlayLimit ELSE 0
  BY <1>1 DEF Excess
<1>3. QED BY <1>2, LimitsAreNatural

(* What FillFromQueue takes out of a window, and what it sends. *)
LEMMA Filled ==
  ASSUME NEW base \in Nat, NEW m \in Nat, NEW n \in Nat, Window(base, m, n),
         Others, FillFromQueue
  PROVE  /\ filling.transfer \in Transfers
         /\ \E k \in 0..m, j \in Nat :
              /\ buffer' = [buffer EXCEPT ![filling.transfer] = Run(base, k) \o Quiet(j)]
              /\ buffer'[filling.transfer] = Run(base, k) \o Quiet(j)
              /\ play' = Run(base + k, m - k)
              /\ taken' = taken + k
              /\ heard' = IF k = 0 THEN heard ELSE base + k
<1> DEFINE k == Smaller(filling.length, m)
<1>1. filling.transfer \in Transfers /\ filling.length \in Sizes
  BY DEF Others, Nobody, FillFromQueue
<1>2. filling.length \in Nat
  BY <1>1, LimitsAreNatural
<1>3. Len(play) = m /\ play = Run(base, m)
  BY WindowLengths DEF Window
<1>4. k \in Nat /\ k <= m /\ k <= filling.length
  BY <1>2, SmallerIs, Zenon
<1> HIDE DEF k
<1>5. k # 0 => play[k] = base + k
  <2>1. ASSUME k # 0 PROVE k \in 1..m
    BY <1>4, <2>1
  <2>2. QED BY <1>3, <2>1, RunIsSeq, ZenonT(30)
<1>6. /\ SubSeq(play, 1, k) = Run(base, k)
      /\ From(play, k) = Run(base + k, m - k)
  <2>1. k \in 0..m
    BY <1>4
  <2>2. /\ SubSeq(Run(base, m), 1, k) = Run(base, k)
        /\ From(Run(base, m), k) = Run(base + k, m - k)
    BY <2>1, RunUpTo, RunFrom
  <2>3. QED BY <1>3, <2>2
<1>7. /\ buffer' = [buffer EXCEPT ![filling.transfer] = Run(base, k) \o Quiet(filling.length - k)]
      /\ play' = Run(base + k, m - k)
      /\ taken' = taken + k
      /\ heard' = IF k = 0 THEN heard ELSE base + k
  BY <1>3, <1>5, <1>6 DEF FillFromQueue, Submit, k
<1>8. buffer'[filling.transfer] = Run(base, k) \o Quiet(filling.length - k)
  BY <1>1, <1>7 DEF Others
<1>9. k \in 0..m
  BY <1>4
<1>10. filling.length - k \in Nat
  BY <1>2, <1>4
<1>11. QED BY <1>1, <1>7, <1>8, <1>9, <1>10

(* A transfer is filled with frames that have been handed over, or silence. *)
LEMMA SentIsSeq ==
  ASSUME NEW base \in Nat, NEW k \in Nat, NEW j \in Nat
  PROVE  /\ Run(base, k) \o Quiet(j) \in Seq(0..base + k)
         /\ Len(Run(base, k) \o Quiet(j)) = k + j
         /\ \A i \in 1..k + j : (Run(base, k) \o Quiet(j))[i] =
                                  IF i <= k THEN base + i ELSE Silence
  BY DEF Run, Quiet, Silence

-----------------------------------------------------------------------------
(* Each operation moves the window along. *)

LEMMA CountPushWindow ==
  ASSUME NEW base \in Nat, NEW m \in Nat, NEW n \in Nat, Window(base, m, n),
         NEW k \in Bursts, CountPush(k)
  PROVE  k \in Nat /\ n = 0 /\ Window(base, m, k)'
<1>1. k \in Nat
  BY LimitsAreNatural
<1>2. Len(wire) = n
  BY WindowLengths
<1>3. n = 0
  BY <1>2 DEF CountPush
<1>4. /\ wire' = Run(pushed, k) /\ pushed' = pushed + k
      /\ UNCHANGED <<play, heard>>
  BY DEF CountPush
<1>5. QED BY <1>1, <1>3, <1>4 DEF Window, Run

LEMMA PushWindow ==
  ASSUME NEW base \in Nat, NEW m \in Nat, NEW n \in Nat, Window(base, m, n), Push
  PROVE  LET e == Excess(Run(base, m + n))
         IN  /\ e \in 0..m + n /\ (e # 0 => e < m + n)
             /\ drops' = drops + e
             /\ Window(base + e, m + n - e, 0)'
<1> DEFINE e == Excess(Run(base, m + n))
<1>1. play \o wire = Run(base, m + n) /\ Len(wire) = n
  BY WindowLengths
<1>2. n # 0
  BY <1>1 DEF Push, Window, Run
<1>3. e \in 0..m + n /\ m + n - e <= PlayLimit /\ e < m + n
  <2>1. PICK s \in Nat : s = m + n /\ s > 0
    BY <1>2
  <2>2. /\ Excess(Run(base, s)) \in 0..s
        /\ s - Excess(Run(base, s)) <= PlayLimit
        /\ Excess(Run(base, s)) < s
    BY <2>1, ExcessIs
  <2>3. s = m + n
    BY <2>1
  <2>4. QED BY <2>2, <2>3
<1>4. From(Run(base, m + n), e) = Run(base + e, m + n - e)
  BY <1>3, RunFrom
<1>5. /\ play' = Run(base + e, m + n - e)
      /\ drops' = drops + e
      /\ wire' = <<>> /\ UNCHANGED <<pushed, heard>>
  BY <1>1, <1>4 DEF Push
<1> HIDE DEF e
<1>6. wire' = Run(base + e + (m + n - e), 0)
  BY <1>3, <1>5, EmptyRun
<1>7. pushed' = base + e + (m + n - e) /\ heard' \in 0..base + e
  BY <1>3, <1>5 DEF Window
<1>8. Window(base + e, m + n - e, 0)'
  BY <1>3, <1>5, <1>6, <1>7 DEF Window, Run
<1>9. QED BY <1>3, <1>5, <1>8 DEF e

LEMMA ClearPlayWindow ==
  ASSUME NEW base \in Nat, NEW m \in Nat, NEW n \in Nat, Window(base, m, n), ClearPlay
  PROVE  /\ m > 0 /\ cleared' = cleared + m
         /\ Window(base + m, 0, n)'
<1>1. Len(play) = m
  BY WindowLengths
<1>2. m # 0
  BY <1>1 DEF ClearPlay, Window, Run
<1>3. cleared' = cleared + m /\ play' = <<>> /\ UNCHANGED <<pushed, wire, heard>>
  BY <1>1 DEF ClearPlay
<1>4. play' = Run(base + m, 0)
  BY <1>3, EmptyRun
<1>5. QED BY <1>2, <1>3, <1>4, LimitsAreNatural DEF Window, Run

LEMMA FillFromQueueWindow ==
  ASSUME NEW base \in Nat, NEW m \in Nat, NEW n \in Nat, Window(base, m, n),
         Others, FillFromQueue
  PROVE  \E k \in 0..m :
           /\ taken' = taken + k
           /\ heard' = IF k = 0 THEN heard ELSE base + k
           /\ Window(base + k, m - k, n)'
<1>1. PICK k \in 0..m : /\ play' = Run(base + k, m - k)
                        /\ taken' = taken + k
                        /\ heard' = IF k = 0 THEN heard ELSE base + k
  BY Filled
<1>2. UNCHANGED <<pushed, wire>>
  BY DEF FillFromQueue
<1>3. /\ wire = Run(base + m, n) /\ pushed = base + m + n
      /\ heard \in 0..base /\ m <= PlayLimit
  BY DEF Window
<1>4. /\ wire' = Run(base + k + (m - k), n)
      /\ pushed' = base + k + (m - k) + n
      /\ heard' \in 0..base + k
      /\ m - k <= PlayLimit
  BY <1>1, <1>2, <1>3, LimitsAreNatural
<1>5. Window(base + k, m - k, n)'
  BY <1>1, <1>4 DEF Window, Run
<1>6. QED BY <1>1, <1>5

LEMMA OtherWindow ==
  ASSUME NEW base \in Nat, NEW m \in Nat, NEW n \in Nat, Window(base, m, n),
         UNCHANGED <<play, wire, pushed, heard>>
  PROVE  Window(base, m, n)'
  BY DEF Window, Run

LEMMA HeldStep ==
  ASSUME Held, Others, [Next]_vars
  PROVE  Held' /\ pushed \in Nat /\ pushed' \in Nat /\ pushed <= pushed'
<1>1. PICK base \in Nat, m \in Nat, n \in Nat : Window(base, m, n)
  BY DEF Held
<1>2. \E b, c, d \in Nat : Window(b, c, d)'
  <2>1. ASSUME NEW k \in Bursts, CountPush(k) PROVE \E b, c, d \in Nat : Window(b, c, d)'
    BY <1>1, <2>1, CountPushWindow
  <2>2. CASE Push
    <3> DEFINE e == Excess(Run(base, m + n))
    <3>1. e \in 0..m + n /\ Window(base + e, m + n - e, 0)'
      BY <1>1, <2>2, PushWindow
    <3> HIDE DEF e
    <3>2. base + e \in Nat /\ m + n - e \in Nat /\ 0 \in Nat
      BY <3>1
    <3>3. QED BY <3>1, <3>2
  <2>3. CASE ClearPlay
    <3>1. base + m \in Nat /\ 0 \in Nat
      OBVIOUS
    <3>2. QED BY <1>1, <2>3, <3>1, ClearPlayWindow
  <2>4. CASE FillFromQueue
    <3>1. PICK k \in 0..m : Window(base + k, m - k, n)'
      BY <1>1, <2>4, FillFromQueueWindow
    <3>2. base + k \in Nat /\ m - k \in Nat
      BY <3>1
    <3>3. QED BY <3>1, <3>2
  <2>5. CASE UNCHANGED <<play, wire, pushed, heard>>
    BY <1>1, <2>5, OtherWindow
  <2>6. QED BY <2>1, <2>2, <2>3, <2>4, <2>5
          DEF Next, SetPlayOn, OutComplete, FillSilence, vars
<1>3. pushed \in Nat
  BY <1>1, WindowLengths
<1>4. pushed' = pushed \/ \E k \in Bursts : pushed' = pushed + k
  BY DEF Next, CountPush, Push, ClearPlay, SetPlayOn, OutComplete, FillFromQueue,
         FillSilence, vars
<1>5. QED BY <1>2, <1>3, <1>4, LimitsAreNatural DEF Held

-----------------------------------------------------------------------------
(* The invariant holds. *)

LEMMA AccountedStep ==
  ASSUME Held, Others, Accounted, [Next]_vars
  PROVE  Accounted'
<1>1. PICK base \in Nat, m \in Nat, n \in Nat : Window(base, m, n)
  BY DEF Held
<1>2. Len(play) = m /\ Len(wire) = n /\ pushed = n + m + taken + drops + cleared
  BY <1>1, WindowLengths DEF Accounted
<1>3. taken \in Nat /\ drops \in Nat /\ cleared \in Nat /\ pushed \in Nat
  BY <1>1, WindowLengths DEF Others
<1>4. ASSUME NEW b \in Nat, NEW c \in Nat, NEW d \in Nat, Window(b, c, d)'
      PROVE  Len(play') = c /\ Len(wire') = d
  BY <1>4, RunIsSeq DEF Window, Run
<1>5. ASSUME NEW k \in Bursts, CountPush(k) PROVE Accounted'
  <2>1. k \in Nat /\ n = 0 /\ Window(base, m, k)'
    BY <1>1, <1>5, CountPushWindow
  <2>2. Len(play') = m /\ Len(wire') = k
    BY <1>4, <2>1
  <2>3. pushed' = pushed + k /\ UNCHANGED <<taken, drops, cleared>>
    BY <1>5 DEF CountPush
  <2>4. QED BY <1>2, <1>3, <2>1, <2>2, <2>3 DEF Accounted
<1>6. CASE Push
  <2> DEFINE e == Excess(Run(base, m + n))
  <2>1. e \in 0..m + n /\ drops' = drops + e /\ Window(base + e, m + n - e, 0)'
    BY <1>1, <1>6, PushWindow
  <2>2. UNCHANGED <<pushed, taken, cleared>>
    BY <1>6 DEF Push
  <2> HIDE DEF e
  <2>3. Len(play') = m + n - e /\ Len(wire') = 0
    <3>1. base + e \in Nat /\ m + n - e \in Nat
      BY <2>1
    <3>2. QED BY <1>4, <2>1, <3>1
  <2>4. QED BY <1>2, <1>3, <2>1, <2>2, <2>3 DEF Accounted
<1>7. CASE ClearPlay
  <2>1. cleared' = cleared + m /\ Window(base + m, 0, n)'
    BY <1>1, <1>7, ClearPlayWindow
  <2>2. UNCHANGED <<pushed, taken, drops>>
    BY <1>7 DEF ClearPlay
  <2>3. Len(play') = 0 /\ Len(wire') = n
    <3>1. base + m \in Nat
      OBVIOUS
    <3>2. QED BY <1>4, <2>1, <3>1
  <2>4. QED BY <1>2, <1>3, <2>1, <2>2, <2>3 DEF Accounted
<1>8. CASE FillFromQueue
  <2>1. PICK k \in 0..m : taken' = taken + k /\ Window(base + k, m - k, n)'
    BY <1>1, <1>8, FillFromQueueWindow
  <2>2. UNCHANGED <<pushed, drops, cleared>>
    BY <1>8 DEF FillFromQueue
  <2>3. Len(play') = m - k /\ Len(wire') = n
    <3>1. base + k \in Nat /\ m - k \in Nat
      OBVIOUS
    <3>2. QED BY <1>4, <2>1, <3>1
  <2>4. QED BY <1>2, <1>3, <2>1, <2>2, <2>3 DEF Accounted
<1>9. CASE UNCHANGED <<play, wire, pushed, taken, drops, cleared>>
  BY <1>9 DEF Accounted
<1>10. QED BY <1>5, <1>6, <1>7, <1>8, <1>9
         DEF Next, SetPlayOn, OutComplete, FillSilence, vars

(* The transfers hold frames that have been handed over, or silence. *)
LEMMA BufferStep ==
  ASSUME Held, Others, [Next]_vars
  PROVE  buffer' \in [Transfers -> Seq(0..pushed')]
<1>1. pushed \in Nat /\ pushed' \in Nat /\ pushed <= pushed'
  BY HeldStep
<1>2. 0..pushed \subseteq 0..pushed'
  BY <1>1
<1>3. Seq(0..pushed) \subseteq Seq(0..pushed')
  BY <1>2, WiderSeq
<1>4. buffer \in [Transfers -> Seq(0..pushed)]
  BY DEF Others
<1>5. CASE UNCHANGED buffer
  BY <1>3, <1>4, <1>5
<1>6. CASE FillFromQueue
  <2>1. PICK base \in Nat, m \in Nat, n \in Nat : Window(base, m, n)
    BY DEF Held
  <2>2. PICK k \in 0..m, j \in Nat :
          /\ buffer' = [buffer EXCEPT ![filling.transfer] = Run(base, k) \o Quiet(j)]
          /\ buffer'[filling.transfer] = Run(base, k) \o Quiet(j)
          /\ play' = Run(base + k, m - k)
          /\ taken' = taken + k
          /\ heard' = IF k = 0 THEN heard ELSE base + k
    BY <1>6, <2>1, Filled, Zenon
  <2>3. filling.transfer \in Transfers
    BY <1>6, <2>1, Filled
  <2>4. Run(base, k) \o Quiet(j) \in Seq(0..base + k)
    <3>1. k \in Nat
      BY <2>2
    <3>2. QED BY <3>1, SentIsSeq
  <2>5. 0..base + k \subseteq 0..pushed
    BY <2>1 DEF Window
  <2>6. Seq(0..base + k) \subseteq Seq(0..pushed)
    BY <2>5, WiderSeq
  <2>7. buffer' \in [Transfers -> Seq(0..pushed)]
    BY <1>4, <2>2, <2>3, <2>4, <2>6
  <2>8. QED BY <1>3, <2>7
<1>7. CASE FillSilence
  <2>1. filling.transfer \in Transfers /\ filling.length \in Sizes
    BY <1>7 DEF Others, Nobody, FillSilence
  <2>2. Quiet(filling.length) \in Seq({Silence})
    BY <2>1, LimitsAreNatural, QuietIsSeq
  <2>3. {Silence} \subseteq 0..pushed
    BY <1>1 DEF Silence
  <2>4. Quiet(filling.length) \in Seq(0..pushed)
    BY <2>2, <2>3, WiderSeq
  <2>5. buffer' = [buffer EXCEPT ![filling.transfer] = Quiet(filling.length)]
    BY <1>7 DEF FillSilence, Submit
  <2>6. buffer' \in [Transfers -> Seq(0..pushed)]
    BY <1>4, <2>1, <2>4, <2>5
  <2>7. QED BY <1>3, <2>6
<1>8. QED BY <1>5, <1>6, <1>7
        DEF Next, CountPush, Push, ClearPlay, SetPlayOn, OutComplete, vars

LEMMA OthersStep ==
  ASSUME Held, Others, [Next]_vars
  PROVE  Others'
<1>1. buffer' \in [Transfers -> Seq(0..pushed')]
  BY BufferStep
<1>2. taken' \in Nat /\ drops' \in Nat /\ cleared' \in Nat
  <2>1. PICK base \in Nat, m \in Nat, n \in Nat : Window(base, m, n)
    BY DEF Held
  <2>2. taken \in Nat /\ drops \in Nat /\ cleared \in Nat
    BY DEF Others
  <2>3. CASE Push
    <3> DEFINE e == Excess(Run(base, m + n))
    <3>1. e \in 0..m + n /\ drops' = drops + e /\ UNCHANGED <<taken, cleared>>
      BY <2>1, <2>3, PushWindow DEF Push
    <3> HIDE DEF e
    <3>2. QED BY <2>2, <3>1
  <2>4. CASE ClearPlay
    <3>1. cleared' = cleared + m /\ UNCHANGED <<taken, drops>>
      BY <2>1, <2>4, ClearPlayWindow DEF ClearPlay
    <3>2. QED BY <2>2, <3>1
  <2>5. CASE FillFromQueue
    <3>1. PICK k \in 0..m : taken' = taken + k
      BY <2>1, <2>5, FillFromQueueWindow
    <3>2. UNCHANGED <<drops, cleared>>
      BY <2>5 DEF FillFromQueue
    <3>3. QED BY <2>2, <3>1, <3>2
  <2>6. CASE UNCHANGED <<taken, drops, cleared>>
    BY <2>2, <2>6
  <2>7. QED BY <2>3, <2>4, <2>5, <2>6
          DEF Next, CountPush, SetPlayOn, OutComplete, FillSilence, vars
<1>3. playOn' \in BOOLEAN
  <2>1. playOn' = playOn \/ playOn' = ~playOn
    BY DEF Next, CountPush, Push, ClearPlay, SetPlayOn, OutComplete, FillFromQueue,
           FillSilence, vars
  <2>2. QED BY <2>1, Zenon DEF Others
<1>4. \/ filling' = Nobody
      \/ filling' \in [transfer : Transfers, length : Sizes, from : {"queue", "silence"}]
  <2>1. ASSUME NEW t \in Transfers, NEW n \in Sizes, OutComplete(t, n)
        PROVE  filling' \in [transfer : Transfers, length : Sizes, from : {"queue", "silence"}]
    BY <2>1 DEF OutComplete
  <2>2. CASE FillFromQueue \/ FillSilence
    BY <2>2 DEF FillFromQueue, FillSilence, Submit
  <2>3. CASE UNCHANGED filling
    BY <2>3 DEF Others, Nobody
  <2>4. QED BY <2>1, <2>2, <2>3
          DEF Next, CountPush, Push, ClearPlay, SetPlayOn, vars
<1>5. QED BY <1>1, <1>2, <1>3, <1>4 DEF Others, Nobody

LEMMA InitIInv == Init => IInv
<1> SUFFICES ASSUME Init PROVE IInv
  OBVIOUS
<1>1. Window(0, 0, 0)
  BY EmptyRun, LimitsAreNatural DEF Init, Window
<1>2. Held
  BY <1>1 DEF Held
<1>3. buffer \in [Transfers -> Seq(0..pushed)]
  <2>1. ASSUME NEW n \in Sizes PROVE Quiet(n) \in Seq(0..pushed)
    <3>1. Quiet(n) \in Seq({Silence})
      BY LimitsAreNatural, QuietIsSeq
    <3>2. {Silence} \subseteq 0..pushed
      BY DEF Init, Silence
    <3>3. QED BY <3>1, <3>2, WiderSeq
  <2>2. QED BY <2>1 DEF Init
<1>4. Others
  BY <1>3 DEF Init, Others, Nobody
<1>5. Accounted
  BY DEF Init, Accounted
<1>6. QED BY <1>2, <1>4, <1>5 DEF IInv

LEMMA AlwaysIInv == Spec => []IInv
<1>1. Init => IInv
  BY InitIInv
<1>2. IInv /\ [Next]_vars => IInv'
  BY HeldStep, OthersStep, AccountedStep DEF IInv
<1>3. QED BY <1>1, <1>2, PTL DEF Spec

-----------------------------------------------------------------------------
(* Every frame handed over is in exactly one place, whatever the limit, the
   deliveries and the threads do (push_play, take_play, clear_play). *)
THEOREM EveryFrameIsAccountedFor == Spec => []Accounted
<1>1. IInv => Accounted
  BY DEF IInv
<1>2. QED BY <1>1, AlwaysIInv, PTL

(* What is held is an unbroken run of the newest frames, and newer than anything
   sent (push_play, take_play). *)
THEOREM HeldInOrder == Spec => []InOrder
<1>1. IInv => InOrder
  <2> SUFFICES ASSUME IInv PROVE InOrder
    OBVIOUS
  <2>1. PICK base \in Nat, m \in Nat, n \in Nat : Window(base, m, n)
    BY DEF IInv, Held
  <2>2. PICK s \in Nat : s = m + n
    OBVIOUS
  <2>3. play \o wire = Run(base, s)
    BY <2>1, <2>2, WindowLengths
  <2>4. Len(Run(base, s)) = s /\ \A i \in 1..s : Run(base, s)[i] = base + i
    BY RunIsSeq
  <2>5. pushed = base + s /\ heard \in 0..base
    BY <2>1, <2>2 DEF Window
  <2>6. QED BY <2>3, <2>4, <2>5 DEF InOrder
<1>2. QED BY <1>1, AlwaysIInv, PTL

(* Every variable keeps its type: the queue its limit, a transfer its length. *)
THEOREM TypeCorrect == Spec => []TypeOK
<1>1. IInv => TypeOK
  <2> SUFFICES ASSUME IInv PROVE TypeOK
    OBVIOUS
  <2>1. PICK base \in Nat, m \in Nat, n \in Nat : Window(base, m, n)
    BY DEF IInv, Held
  <2>2. play \in Seq(1..pushed) /\ wire \in Seq(1..pushed)
    <3>1. play \in Seq(base + 1..base + m)
      BY <2>1, RunIsSeq DEF Window
    <3>2. base + m \in Nat
      OBVIOUS
    <3>3. wire \in Seq(base + m + 1..base + m + n)
      BY <2>1, <3>2, RunIsSeq DEF Window
    <3>4. base + 1..base + m \subseteq 1..pushed /\ base + m + 1..base + m + n \subseteq 1..pushed
      BY <2>1 DEF Window
    <3>5. QED BY <3>1, <3>3, <3>4, WiderSeq
  <2>3. Len(play) <= PlayLimit /\ heard \in 0..pushed /\ pushed \in Nat
    BY <2>1, WindowLengths DEF Window
  <2>4. QED BY <2>2, <2>3 DEF IInv, Others, TypeOK, Nobody
<1>2. QED BY <1>1, AlwaysIInv, PTL

(* No transfer is ever submitted with a frame the device has been sent before:
   each carries new frames in order, then silence (take_play, silence_out). *)
THEOREM NothingIsSentTwice == Spec => NeverTwice
<1> DEFINE sent == buffer'[filling.transfer]
           Fresh == /\ \A i \in 1..Len(sent) : sent[i] = Silence \/ sent[i] > heard
                    /\ \A i \in 2..Len(sent) : sent[i] = Silence \/ sent[i] = sent[i - 1] + 1
<1>1. ASSUME IInv, FillFromQueue PROVE Fresh
  <2>1. PICK base \in Nat, m \in Nat, n \in Nat : Window(base, m, n)
    BY <1>1 DEF IInv, Held
  <2>2. PICK k \in 0..m, j \in Nat :
          /\ buffer' = [buffer EXCEPT ![filling.transfer] = Run(base, k) \o Quiet(j)]
          /\ buffer'[filling.transfer] = Run(base, k) \o Quiet(j)
          /\ play' = Run(base + k, m - k)
          /\ taken' = taken + k
          /\ heard' = IF k = 0 THEN heard ELSE base + k
    BY <1>1, <2>1, Filled, Zenon DEF IInv
  <2>3. k \in Nat
    BY <2>2
  <2>4. /\ Len(sent) = k + j
        /\ \A i \in 1..k + j : sent[i] = IF i <= k THEN base + i ELSE Silence
    <3>1. /\ Len(Run(base, k) \o Quiet(j)) = k + j
          /\ \A i \in 1..k + j : (Run(base, k) \o Quiet(j))[i] =
                                    IF i <= k THEN base + i ELSE Silence
      BY <2>3, SentIsSeq
    <3>2. QED BY <2>2, <3>1, Zenon
  <2>5. heard \in 0..base
    BY <2>1 DEF Window
  <2> HIDE DEF sent
  <2>6. \A i \in 1..Len(sent) : sent[i] = Silence \/ sent[i] > heard
    BY <2>3, <2>4, <2>5
  <2>7. ASSUME NEW i \in 2..Len(sent)
        PROVE  sent[i] = Silence \/ sent[i] = sent[i - 1] + 1
    <3>1. i \in 1..k + j /\ i - 1 \in 1..k + j
      BY <2>3, <2>4
    <3>2. QED BY <2>3, <2>4, <3>1
  <2>8. QED BY <2>6, <2>7 DEF sent
<1>2. ASSUME IInv, FillSilence PROVE Fresh
  <2>1. filling.transfer \in Transfers /\ filling.length \in Nat
    BY <1>2, LimitsAreNatural DEF IInv, Others, Nobody, FillSilence
  <2>2. sent = Quiet(filling.length)
    BY <1>2, <2>1 DEF IInv, Others, FillSilence, Submit
  <2>3. Len(sent) = filling.length /\ \A i \in 1..filling.length : sent[i] = Silence
    BY <2>1, <2>2, QuietIsSeq
  <2> HIDE DEF sent
  <2>4. QED BY <2>1, <2>3 DEF sent
<1>3. IInv /\ [Next]_vars => [filling # Nobody /\ filling' = Nobody => Fresh]_vars
  <2> SUFFICES ASSUME IInv, Next, filling # Nobody, filling' = Nobody
               PROVE  Fresh
    OBVIOUS
  <2>1. FillFromQueue \/ FillSilence
    BY DEF Next, CountPush, Push, ClearPlay, SetPlayOn, OutComplete
  <2>2. QED BY <1>1, <1>2, <2>1
<1>4. QED BY <1>3, AlwaysIInv, PTL DEF Spec, NeverTwice

-----------------------------------------------------------------------------
(* PlayQueue implements AudioFifo: every step writes, reads, gives up the oldest
   or leaves the promise alone. *)

LEMMA SpliceRun ==
  ASSUME NEW base \in Nat, NEW s \in Nat, NEW k \in 1..s
  PROVE  /\ Fifo!From(Run(base, s), k) = Run(base + k, s - k)
         /\ Run(base, s)[k] = base + k
         /\ Len(Run(base, s)) = s
  BY DEF Run, Fifo!From

LEMMA StepImplements ==
  ASSUME IInv, [Next]_vars
  PROVE  [Fifo!Next]_<<pushed, play \o wire, heard>>
<1>1. PICK base \in Nat, m \in Nat, n \in Nat : Window(base, m, n)
  BY DEF IInv, Held
<1>2. PICK s \in Nat : s = m + n
  OBVIOUS
<1>3. play \o wire = Run(base, s) /\ Len(play \o wire) = s
  <2>1. play \o wire = Run(base, s)
    BY <1>1, <1>2, WindowLengths
  <2>2. Len(Run(base, s)) = s
    BY RunIsSeq
  <2>3. QED BY <2>1, <2>2
<1>4. ASSUME NEW b \in Nat, NEW c \in Nat, NEW d \in Nat, Window(b, c, d)'
      PROVE  (play \o wire)' = Run(b, c + d)
  <2>1. play' = Run(b, c) /\ wire' = Run(b + c, d)
    BY <1>4 DEF Window, Run
  <2>2. QED BY <2>1, RunsJoin, ZenonT(30)
<1>5. ASSUME NEW k \in 1..s, (play \o wire)' = Run(base + k, s - k),
             pushed' = pushed, heard' = heard
      PROVE  Fifo!Next
  <2>1. Fifo!Lose(k)
    BY <1>3, <1>5, SpliceRun DEF Fifo!Lose
  <2>2. k \in 1..Len(play \o wire)
    BY <1>3, <1>5
  <2>3. QED BY <2>1, <2>2 DEF Fifo!Next
<1>6. ASSUME NEW k \in Bursts, CountPush(k) PROVE Fifo!Next
  <2>1. k \in Nat /\ n = 0 /\ Window(base, m, k)'
    BY <1>1, <1>6, CountPushWindow
  <2>2. (play \o wire)' = Run(base, s + k) /\ pushed = base + s
    BY <1>1, <1>2, <1>4, <2>1 DEF Window
  <2>3. Run(base, s) \o Run(base + s, k) = Run(base, s + k)
    BY <2>1, RunsJoin, ZenonT(30)
  <2>4. Fifo!Run(pushed, k) = Run(base + s, k)
    BY <2>2 DEF Fifo!Run, Run
  <2>5. Fifo!Write(k)
    BY <1>3, <1>6, <2>2, <2>3, <2>4 DEF Fifo!Write, CountPush
  <2>6. QED BY <2>5 DEF Fifo!Next
<1>7. CASE Push
  <2>1. PICK e \in Nat : /\ e \in 0..s /\ (e # 0 => e < s)
                         /\ Window(base + e, s - e, 0)'
    <3> DEFINE e == Excess(Run(base, m + n))
    <3>1. e \in 0..m + n /\ (e # 0 => e < m + n) /\ Window(base + e, m + n - e, 0)'
      BY <1>1, <1>7, PushWindow
    <3> HIDE DEF e
    <3>2. e \in Nat
      BY <3>1
    <3>3. QED BY <1>2, <3>1, <3>2
  <2>2. (play \o wire)' = Run(base + e, s - e)
    <3>1. base + e \in Nat /\ s - e \in Nat /\ 0 \in Nat /\ s - e + 0 = s - e
      BY <2>1
    <3>2. QED BY <1>4, <2>1, <3>1
  <2>3. UNCHANGED <<pushed, heard>>
    BY <1>7 DEF Push
  <2>4. CASE e = 0
    BY <1>3, <2>2, <2>3, <2>4
  <2>5. CASE e # 0
    <3>1. e \in 1..s
      BY <2>1, <2>5
    <3>2. QED BY <1>5, <2>2, <2>3, <3>1
  <2>6. QED BY <2>4, <2>5
<1>8. CASE ClearPlay
  <2>1. m > 0 /\ Window(base + m, 0, n)'
    BY <1>1, <1>8, ClearPlayWindow
  <2>2. m \in 1..s /\ n = s - m
    BY <1>2, <2>1
  <2>3. (play \o wire)' = Run(base + m, s - m)
    <3>1. base + m \in Nat /\ 0 + n = s - m
      BY <2>2
    <3>2. QED BY <1>4, <2>1, <3>1
  <2>4. UNCHANGED <<pushed, heard>>
    BY <1>8 DEF ClearPlay
  <2>5. QED BY <1>5, <2>2, <2>3, <2>4
<1>9. CASE FillFromQueue
  <2>1. PICK k \in 0..m : /\ heard' = IF k = 0 THEN heard ELSE base + k
                          /\ Window(base + k, m - k, n)'
    BY <1>1, <1>9, FillFromQueueWindow DEF IInv
  <2>2. (play \o wire)' = Run(base + k, s - k)
    <3>1. base + k \in Nat /\ m - k \in Nat /\ m - k + n = s - k
      BY <1>2
    <3>2. QED BY <1>4, <2>1, <3>1
  <2>3. UNCHANGED pushed
    BY <1>9 DEF FillFromQueue
  <2>4. CASE k = 0
    BY <1>3, <2>1, <2>2, <2>3, <2>4
  <2>5. CASE k # 0
    <3>1. k \in 1..s
      BY <1>2, <2>5
    <3>2. Fifo!Read(k)
      <4>1. heard' = (play \o wire)[k]
        <5>1. Run(base, s)[k] = base + k
          BY <3>1, SpliceRun
        <5>2. heard' = base + k
          BY <2>1, <2>5
        <5>3. QED BY <1>3, <5>1, <5>2
      <4>2. (play \o wire)' = Fifo!From(play \o wire, k)
        BY <1>3, <2>2, <3>1, SpliceRun
      <4>3. QED BY <2>3, <4>1, <4>2 DEF Fifo!Read
    <3>3. k \in 1..Len(play \o wire)
      BY <1>3, <3>1
    <3>4. QED BY <3>2, <3>3 DEF Fifo!Next
  <2>6. QED BY <2>4, <2>5
<1>10. CASE UNCHANGED <<pushed, play, wire, heard>>
  BY <1>10
<1>11. QED BY <1>6, <1>7, <1>8, <1>9, <1>10
         DEF Next, SetPlayOn, OutComplete, FillSilence, vars

(* The queue keeps the promise of AudioFifo: in order, at most once, giving up
   only the oldest. *)
THEOREM Implements == Spec => KeepsOrder
<1>1. Init => Fifo!Init
  BY DEF Init, Fifo!Init
<1>2. IInv /\ [Next]_vars => [Fifo!Next]_<<pushed, play \o wire, heard>>
  BY StepImplements
<1>3. QED BY <1>1, <1>2, AlwaysIInv, PTL DEF Spec, KeepsOrder, Fifo!Spec, Fifo!vars
=============================================================================
