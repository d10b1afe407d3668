----------------------------- MODULE MidiProofs -----------------------------
(***************************************************************************)
(* The MIDI bridge for every set of statuses, every packet size and any    *)
(* number of messages and losses: whoever reads a stream of either         *)
(* direction makes out what was sent.                                      *)
(***************************************************************************)
EXTENDS Midi, FiniteSetTheorems, SequenceTheorems, WellFoundedInduction, TLAPS

(* Induction, for a set: what has 0 and every successor has all numbers. *)
LEMMA EveryNumber ==
  ASSUME NEW S, 0 \in S, \A n \in Nat : n \in S => n + 1 \in S
  PROVE  \A n \in Nat : n \in S
<1> SUFFICES ASSUME \E n \in Nat : n \notin S PROVE FALSE
  OBVIOUS
<1> DEFINE T == Nat \ S
           R == OpToRel(<, Nat)
<1>1. \A i, j \in Nat : <<i, j>> \in R <=> i < j
  BY DEF OpToRel
<1>2. IsWellFoundedOn(R, Nat)
  BY NatLessThanWellFounded
<1> HIDE DEF R
<1>3. T \subseteq Nat /\ T # {}
  OBVIOUS
<1>4. PICK x \in T : \A y \in T : ~(<<y, x>> \in R)
  BY <1>2, <1>3, WFMin
<1>5. x \in Nat /\ x # 0 /\ x \notin S
  OBVIOUS
<1>6. x - 1 \in Nat /\ x - 1 < x /\ (x - 1) + 1 = x
  BY <1>5
<1>7. x - 1 \in S
  BY <1>1, <1>4, <1>6
<1>8. QED BY <1>5, <1>6, <1>7

-----------------------------------------------------------------------------
(* What Feed computes: there is one way through the bytes, and it goes on where
   it ended. *)
Passes(after, got, bytes) ==
  after = [k \in 0..Len(bytes) |->
             IF k = 0 THEN got ELSE FeedByte(after[k - 1], bytes[k])]

LEMMA OnePass ==
  ASSUME NEW B, NEW bytes \in Seq(B), NEW more \in Seq(B), NEW got, NEW f, NEW g,
         Passes(f, got, bytes), Passes(g, got, more),
         Len(bytes) <= Len(more), \A k \in 1..Len(bytes) : bytes[k] = more[k]
  PROVE  f[Len(bytes)] = g[Len(bytes)]
<1> DEFINE S == {n \in Nat : n <= Len(bytes) => f[n] = g[n]}
<1>0. Len(bytes) \in Nat /\ Len(more) \in Nat
  OBVIOUS
<1>1. 0 \in S
  BY <1>0 DEF Passes
<1>2. ASSUME NEW n \in Nat, n \in S PROVE n + 1 \in S
  <2> SUFFICES ASSUME n + 1 <= Len(bytes) PROVE f[n + 1] = g[n + 1]
    OBVIOUS
  <2>1. f[n] = g[n]
    BY <1>0, <1>2
  <2>2. /\ n + 1 \in 0..Len(bytes) /\ n + 1 \in 0..Len(more) /\ n + 1 # 0
        /\ (n + 1) - 1 = n /\ n + 1 \in 1..Len(bytes)
    BY <1>0
  <2>3. f[n + 1] = FeedByte(f[(n + 1) - 1], bytes[n + 1])
    BY <2>2 DEF Passes
  <2>4. g[n + 1] = FeedByte(g[(n + 1) - 1], more[n + 1])
    BY <2>2 DEF Passes
  <2>5. QED BY <2>1, <2>2, <2>3, <2>4
<1> HIDE DEF S
<1>3. \A n \in Nat : n \in S
  BY <1>1, <1>2, EveryNumber
<1>4. QED BY <1>0, <1>3 DEF S

LEMMA SomePass ==
  ASSUME NEW B, NEW bytes \in Seq(B), NEW got
  PROVE  \E f : Passes(f, got, bytes)
<1> DEFINE Upto(f, n) ==
             f = [k \in 0..n |-> IF k = 0 THEN got ELSE FeedByte(f[k - 1], bytes[k])]
           S == {n \in Nat : \E f : Upto(f, n)}
<1>1. 0 \in S
  <2>1. Upto([k \in 0..0 |-> got], 0)
    OBVIOUS
  <2>2. QED BY <2>1
<1>2. ASSUME NEW n \in Nat, n \in S PROVE n + 1 \in S
  <2>1. PICK f : Upto(f, n)
    BY <1>2
  <2> DEFINE g == [k \in 0..n + 1 |->
                     IF k = n + 1 THEN FeedByte(f[n], bytes[n + 1]) ELSE f[k]]
  <2>2. ASSUME NEW k \in 0..n + 1
        PROVE  g[k] = IF k = 0 THEN got ELSE FeedByte(g[k - 1], bytes[k])
    <3>1. CASE k = n + 1
      <4>1. k - 1 = n /\ k - 1 \in 0..n + 1 /\ k - 1 # n + 1 /\ k # 0
        BY <3>1
      <4>2. QED BY <3>1, <4>1
    <3>2. CASE k # n + 1
      <4>1. k \in 0..n /\ (k # 0 => k - 1 \in 0..n + 1 /\ k - 1 # n + 1)
        BY <3>2
      <4>2. f[k] = IF k = 0 THEN got ELSE FeedByte(f[k - 1], bytes[k])
        BY <2>1, <4>1
      <4>3. QED BY <3>2, <4>1, <4>2
    <3>3. QED BY <3>1, <3>2
  <2>3. g = [k \in 0..n + 1 |-> g[k]]
    OBVIOUS
  <2> HIDE DEF g
  <2>4. Upto(g, n + 1)
    BY <2>2, <2>3
  <2> HIDE DEF Upto
  <2>5. \E h : Upto(h, n + 1)
    BY <2>4
  <2>6. QED BY <2>5
<1>3. Len(bytes) \in Nat
  OBVIOUS
<1> HIDE DEF S
<1>4. Len(bytes) \in S
  BY <1>1, <1>2, <1>3, EveryNumber
<1>5. QED BY <1>4 DEF S, Passes

LEMMA FeedIsThePass ==
  ASSUME NEW B, NEW bytes \in Seq(B), NEW got
  PROVE  \E f : Passes(f, got, bytes) /\ Feed(got, bytes) = f[Len(bytes)]
<1> DEFINE f == CHOOSE f : Passes(f, got, bytes)
<1>1. Passes(f, got, bytes)
  BY SomePass
<1>2. Feed(got, bytes) = f[Len(bytes)]
  BY DEF Feed, Passes
<1>3. QED BY <1>1, <1>2

LEMMA FeedNothing ==
  ASSUME NEW got
  PROVE  Feed(got, <<>>) = got
<1>1. <<>> \in Seq({}) /\ Len(<<>>) = 0
  OBVIOUS
<1>2. PICK f : Passes(f, got, <<>>) /\ Feed(got, <<>>) = f[Len(<<>>)]
  BY <1>1, FeedIsThePass
<1>3. QED BY <1>1, <1>2 DEF Passes

LEMMA FeedOneMore ==
  ASSUME NEW B, NEW bytes \in Seq(B), NEW b \in B, NEW got
  PROVE  Feed(got, Append(bytes, b)) = FeedByte(Feed(got, bytes), b)
<1> DEFINE more == Append(bytes, b)
           n == Len(bytes)
<1>1. /\ more \in Seq(B) /\ Len(more) = n + 1 /\ n \in Nat /\ more[n + 1] = b
      /\ \A k \in 1..n : bytes[k] = more[k]
  OBVIOUS
<1> HIDE DEF more
<1>2. PICK f : Passes(f, got, bytes) /\ Feed(got, bytes) = f[n]
  BY FeedIsThePass
<1>3. PICK g : Passes(g, got, more) /\ Feed(got, more) = g[n + 1]
  BY <1>1, FeedIsThePass
<1>4. f[n] = g[n]
  BY <1>1, <1>2, <1>3, OnePass
<1>5. n + 1 \in 0..Len(more) /\ n + 1 # 0 /\ (n + 1) - 1 = n
  BY <1>1
<1>6. g[n + 1] = FeedByte(g[(n + 1) - 1], more[n + 1])
  BY <1>3, <1>5 DEF Passes
<1>7. QED BY <1>1, <1>2, <1>3, <1>4, <1>5, <1>6 DEF more

(* Induction over sequences, for a set of them. *)
LEMMA EverySequence ==
  ASSUME NEW B, NEW S, <<>> \in S,
         \A s \in Seq(B), b \in B : s \in S => Append(s, b) \in S
  PROVE  \A s \in Seq(B) : s \in S
<1> DEFINE N == {n \in Nat : \A s \in Seq(B) : Len(s) = n => s \in S}
<1>1. 0 \in N
  <2>1. \A s \in Seq(B) : Len(s) = 0 => s = <<>>
    BY EmptySeq
  <2>2. QED BY <2>1
<1>2. ASSUME NEW n \in Nat, n \in N PROVE n + 1 \in N
  <2> SUFFICES ASSUME NEW s \in Seq(B), Len(s) = n + 1 PROVE s \in S
    OBVIOUS
  <2>1. s # <<>>
    OBVIOUS
  <2>2. PICK t \in Seq(B), b \in B : s = Append(t, b)
    BY <2>1, SequenceEmptyOrAppend
  <2>3. Len(t) \in Nat /\ Len(s) = Len(t) + 1
    BY <2>2
  <2>4. Len(t) = n
    BY <2>3
  <2>5. t \in S
    BY <1>2, <2>4
  <2>6. QED BY <2>2, <2>5
<1> HIDE DEF N
<1>3. \A n \in Nat : n \in N
  BY <1>1, <1>2, EveryNumber
<1>4. \A s \in Seq(B) : Len(s) \in N
  BY <1>3, LenProperties
<1>5. QED BY <1>4 DEF N

LEMMA FeedOn ==
  ASSUME NEW B, NEW bytes \in Seq(B), NEW more \in Seq(B), NEW got
  PROVE  Feed(got, bytes \o more) = Feed(Feed(got, bytes), more)
<1> DEFINE S == {m \in Seq(B) : Feed(got, bytes \o m) = Feed(Feed(got, bytes), m)}
<1>1. <<>> \in S
  BY FeedNothing, ConcatEmptySeq
<1>2. ASSUME NEW m \in Seq(B), NEW b \in B, m \in S PROVE Append(m, b) \in S
  <2>1. bytes \o Append(m, b) = Append(bytes \o m, b) /\ bytes \o m \in Seq(B)
    OBVIOUS
  <2>2. Feed(got, Append(bytes \o m, b)) = FeedByte(Feed(got, bytes \o m), b)
    BY <2>1, FeedOneMore
  <2>3. Feed(Feed(got, bytes), Append(m, b)) = FeedByte(Feed(Feed(got, bytes), m), b)
    BY FeedOneMore
  <2>4. Feed(got, bytes \o m) = Feed(Feed(got, bytes), m)
    BY <1>2
  <2>5. Feed(got, bytes \o Append(m, b)) = Feed(Feed(got, bytes), Append(m, b))
    BY <2>1, <2>2, <2>3, <2>4
  <2>6. Append(m, b) \in Seq(B)
    OBVIOUS
  <2>7. QED BY <2>5, <2>6
<1> HIDE DEF S
<1>3. more \in S
  BY <1>1, <1>2, EverySequence
<1>4. QED BY <1>3 DEF S

-----------------------------------------------------------------------------
(* Surface::feed, byte by byte. *)
Reader == [parser : Parser, made : Seq(Message)]

LEMMA ByteIs ==
  ASSUME NEW b \in Byte
  PROVE  \/ b = Gap
         \/ \E s \in Statuses : b = Status(s)
         \/ \E i \in Nat : b = Data(i)
BY DEF Byte, Gap, Status, Data

LEMMA BytesAre ==
  /\ Gap \in Byte
  /\ \A s \in Statuses : Status(s) \in Byte
  /\ \A i \in Nat : Data(i) \in Byte
BY DEF Byte, Gap, Status, Data

LEMMA WantedIs == \A s : Wanted(s) = IF s \in OneByte THEN 1 ELSE 2
BY DEF Wanted

LEMMA ReaderHas ==
  ASSUME NEW got \in Reader
  PROVE  /\ got = [parser |-> got.parser, made |-> got.made]
         /\ got.parser = [status |-> got.parser.status, data |-> got.parser.data,
                          sure |-> got.parser.sure]
         /\ got.parser.status \in Statuses \union {"none"}
         /\ got.parser.data \in Seq(Nat) /\ got.parser.sure \in BOOLEAN
         /\ got.made \in Seq(Message)
<1>1. got.parser \in Parser /\ got.made \in Seq(Message)
      /\ got = [parser |-> got.parser, made |-> got.made]
  BY DEF Reader
<1>2. QED BY <1>1 DEF Parser

LEMMA ReadGap ==
  ASSUME NEW got \in Reader
  PROVE  FeedByte(got, Gap) =
           [parser |-> [status |-> got.parser.status, data |-> got.parser.data, sure |-> FALSE],
            made |-> got.made]
<1>1. FeedByte(got, Gap) = [got EXCEPT !.parser.sure = FALSE]
  BY DEF FeedByte, Gap
<1>2. QED BY <1>1, ReaderHas

LEMMA ReadStatus ==
  ASSUME NEW got \in Reader, NEW s
  PROVE  FeedByte(got, Status(s)) =
           [parser |-> [status |-> s, data |-> <<>>, sure |-> TRUE], made |-> got.made]
<1>1. FeedByte(got, Status(s)) = [got EXCEPT !.parser = Begin(got.parser, Status(s))]
  BY DEF FeedByte, Status
<1>2. Begin(got.parser, Status(s)) = [status |-> s, data |-> <<>>, sure |-> TRUE]
  BY DEF Begin, Status
<1>3. QED BY <1>1, <1>2, ReaderHas

LEMMA ReadIdle ==
  ASSUME NEW got \in Reader, NEW i \in Nat, got.parser.status = "none"
  PROVE  FeedByte(got, Data(i)) = got
BY DEF FeedByte, Data

LEMMA ReadFirst ==
  ASSUME NEW got \in Reader, NEW i \in Nat, got.parser.status # "none",
         Len(got.parser.data) + 1 # Wanted(got.parser.status)
  PROVE  FeedByte(got, Data(i)) =
           [parser |-> [status |-> got.parser.status, data |-> Append(got.parser.data, i),
                        sure |-> got.parser.sure],
            made |-> got.made]
<1>1. FeedByte(got, Data(i)) = [got EXCEPT !.parser.data = Append(got.parser.data, i)]
  BY DEF FeedByte, Data, Complete
<1>2. QED BY <1>1, ReaderHas

LEMMA DataReplaced ==
  ASSUME NEW p \in Parser, NEW data
  PROVE  [p EXCEPT !.data = data] = [status |-> p.status, data |-> data, sure |-> p.sure]
BY DEF Parser

LEMMA ReadLast ==
  ASSUME NEW got \in Reader, NEW i \in Nat, got.parser.status # "none",
         Len(got.parser.data) + 1 = Wanted(got.parser.status)
  PROVE  FeedByte(got, Data(i)) =
           [parser |-> [status |-> got.parser.status, data |-> <<>>, sure |-> got.parser.sure],
            made |-> IF got.parser.status \in OneByte THEN got.made
                     ELSE Append(got.made,
                                 [status |-> got.parser.status,
                                  data |-> Append(got.parser.data, i),
                                  sure |-> got.parser.sure])]
<1>1. FeedByte(got, Data(i)) =
        [parser |-> [got.parser EXCEPT !.data = <<>>],
         made |-> IF got.parser.status \in OneByte THEN got.made
                  ELSE Append(got.made, [got.parser EXCEPT !.data = Append(got.parser.data, i)])]
  BY DEF FeedByte, Data, Complete
<1>2. /\ [got.parser EXCEPT !.data = <<>>] =
           [status |-> got.parser.status, data |-> <<>>, sure |-> got.parser.sure]
      /\ [got.parser EXCEPT !.data = Append(got.parser.data, i)] =
           [status |-> got.parser.status, data |-> Append(got.parser.data, i),
            sure |-> got.parser.sure]
  <2>1. got.parser \in Parser
    BY DEF Reader
  <2>2. QED BY <2>1, DataReplaced
<1>3. QED BY <1>1, <1>2

(* The same, parser and messages apart. *)
LEMMA GapHalves ==
  ASSUME NEW got \in Reader
  PROVE  /\ FeedByte(got, Gap).parser =
              [status |-> got.parser.status, data |-> got.parser.data, sure |-> FALSE]
         /\ FeedByte(got, Gap).made = got.made
<1> DEFINE rest == [status |-> got.parser.status, data |-> got.parser.data, sure |-> FALSE]
           made == got.made
<1>1. FeedByte(got, Gap) = [parser |-> rest, made |-> made]
  BY ReadGap
<1> HIDE DEF rest, made
<1>2. FeedByte(got, Gap).parser = rest /\ FeedByte(got, Gap).made = made
  BY <1>1
<1>3. QED BY <1>2 DEF rest, made

LEMMA StatusHalves ==
  ASSUME NEW got \in Reader, NEW s
  PROVE  /\ FeedByte(got, Status(s)).parser = [status |-> s, data |-> <<>>, sure |-> TRUE]
         /\ FeedByte(got, Status(s)).made = got.made
<1> DEFINE rest == [status |-> s, data |-> <<>>, sure |-> TRUE]
           made == got.made
<1>1. FeedByte(got, Status(s)) = [parser |-> rest, made |-> made]
  BY ReadStatus
<1> HIDE DEF rest, made
<1>2. FeedByte(got, Status(s)).parser = rest /\ FeedByte(got, Status(s)).made = made
  BY <1>1
<1>3. QED BY <1>2 DEF rest, made

LEMMA FirstHalves ==
  ASSUME NEW got \in Reader, NEW i \in Nat, got.parser.status # "none",
         Len(got.parser.data) + 1 # Wanted(got.parser.status)
  PROVE  /\ FeedByte(got, Data(i)).parser =
              [status |-> got.parser.status, data |-> Append(got.parser.data, i),
               sure |-> got.parser.sure]
         /\ FeedByte(got, Data(i)).made = got.made
<1> DEFINE rest == [status |-> got.parser.status, data |-> Append(got.parser.data, i),
                    sure |-> got.parser.sure]
           made == got.made
<1>1. FeedByte(got, Data(i)) = [parser |-> rest, made |-> made]
  BY ReadFirst
<1> HIDE DEF rest, made
<1>2. FeedByte(got, Data(i)).parser = rest /\ FeedByte(got, Data(i)).made = made
  BY <1>1
<1>3. QED BY <1>2 DEF rest, made

LEMMA LastHalves ==
  ASSUME NEW got \in Reader, NEW i \in Nat, got.parser.status # "none",
         Len(got.parser.data) + 1 = Wanted(got.parser.status)
  PROVE  /\ FeedByte(got, Data(i)).parser =
              [status |-> got.parser.status, data |-> <<>>, sure |-> got.parser.sure]
         /\ FeedByte(got, Data(i)).made =
              IF got.parser.status \in OneByte THEN got.made
              ELSE Append(got.made, [status |-> got.parser.status,
                                     data |-> Append(got.parser.data, i),
                                     sure |-> got.parser.sure])
<1> DEFINE rest == [status |-> got.parser.status, data |-> <<>>, sure |-> got.parser.sure]
           made == IF got.parser.status \in OneByte THEN got.made
                   ELSE Append(got.made, [status |-> got.parser.status,
                                          data |-> Append(got.parser.data, i),
                                          sure |-> got.parser.sure])
<1>1. FeedByte(got, Data(i)) = [parser |-> rest, made |-> made]
  BY ReadLast
<1> HIDE DEF rest, made
<1>2. FeedByte(got, Data(i)).parser = rest /\ FeedByte(got, Data(i)).made = made
  BY <1>1
<1>3. QED BY <1>2 DEF rest, made

(* A byte makes out one message at most, which is as sure as the parser is. *)
MakesOut(got, after, m) ==
  after.made = Append(got.made, m) /\ m.sure = got.parser.sure /\ after.parser.sure = m.sure

LEMMA ReadByte ==
  ASSUME NEW got \in Reader, NEW b \in Byte
  PROVE  /\ FeedByte(got, b) \in Reader
         /\ \/ FeedByte(got, b).made = got.made
            \/ \E m \in Message : MakesOut(got, FeedByte(got, b), m)
<1> DEFINE st == got.parser.status
           dt == got.parser.data
           su == got.parser.sure
           mk == got.made
<1>a. st \in Statuses \union {"none"}
  BY ReaderHas
<1>b. dt \in Seq(Nat)
  BY ReaderHas
<1>c. su \in BOOLEAN
  BY ReaderHas
<1>d. mk \in Seq(Message)
  BY ReaderHas
<1>1. ASSUME b = Gap
      PROVE  FeedByte(got, b) \in Reader /\ FeedByte(got, b).made = got.made
  <2>1. FeedByte(got, b) = [parser |-> [status |-> st, data |-> dt, sure |-> FALSE], made |-> mk]
    BY <1>1, ReadGap
  <2> HIDE DEF st, dt, mk
  <2>2. [status |-> st, data |-> dt, sure |-> FALSE] \in Parser
    BY <1>a, <1>b DEF Parser
  <2>3. FeedByte(got, b) \in Reader /\ FeedByte(got, b).made = mk
    BY <2>1, <2>2, <1>d DEF Reader
  <2>4. QED BY <2>3 DEF mk
<1>2. ASSUME NEW s \in Statuses, b = Status(s)
      PROVE  FeedByte(got, b) \in Reader /\ FeedByte(got, b).made = got.made
  <2>1. FeedByte(got, b) = [parser |-> [status |-> s, data |-> <<>>, sure |-> TRUE], made |-> mk]
    BY <1>2, ReadStatus
  <2> HIDE DEF mk
  <2>2. [status |-> s, data |-> <<>>, sure |-> TRUE] \in Parser
    BY DEF Parser
  <2>3. FeedByte(got, b) \in Reader /\ FeedByte(got, b).made = mk
    BY <2>1, <2>2, <1>d DEF Reader
  <2>4. QED BY <2>3 DEF mk
<1>3. ASSUME NEW i \in Nat, b = Data(i)
      PROVE  /\ FeedByte(got, b) \in Reader
             /\ \/ FeedByte(got, b).made = got.made
                \/ \E m \in Message : MakesOut(got, FeedByte(got, b), m)
  <2>1. CASE st = "none"
    BY <1>3, <2>1, ReadIdle
  <2>2. CASE st # "none" /\ Len(dt) + 1 # Wanted(st)
    <3>1. FeedByte(got, b) =
            [parser |-> [status |-> st, data |-> Append(dt, i), sure |-> su], made |-> mk]
      BY <1>3, <2>2, ReadFirst
    <3> HIDE DEF st, dt, su, mk
    <3>2. Append(dt, i) \in Seq(Nat)
      BY <1>b
    <3>3. [status |-> st, data |-> Append(dt, i), sure |-> su] \in Parser
      BY <3>2, <1>a, <1>c DEF Parser
    <3>4. FeedByte(got, b) \in Reader /\ FeedByte(got, b).made = mk
      BY <3>1, <3>3, <1>d DEF Reader
    <3>5. QED BY <3>4 DEF mk
  <2>3. CASE st # "none" /\ Len(dt) + 1 = Wanted(st)
    <3> DEFINE m == [status |-> st, data |-> Append(dt, i), sure |-> su]
               rest == [status |-> st, data |-> <<>>, sure |-> su]
               after == [parser |-> rest,
                         made |-> IF st \in OneByte THEN mk ELSE Append(mk, m)]
    <3>1. FeedByte(got, b) = after
      BY <1>3, <2>3, ReadLast
    <3> HIDE DEF st, dt, su, mk
    <3>2. Append(dt, i) \in Seq(Nat)
      BY <1>b
    <3>3. st \in Statuses
      BY <2>3, <1>a
    <3>4. m \in Message
      BY <3>2, <3>3, <1>c DEF Message
    <3>5. rest \in Parser /\ rest.sure = su /\ m.sure = su
      BY <1>a, <1>c DEF Parser
    <3> HIDE DEF m, rest
    <3>6. after.parser = rest /\ after.made = IF st \in OneByte THEN mk ELSE Append(mk, m)
      OBVIOUS
    <3>7. Append(mk, m) \in Seq(Message)
      BY <3>4, <1>d
    <3>8. after \in Reader
      BY <3>5, <3>7, <1>d DEF Reader
    <3> HIDE DEF after
    <3>9. after.made = mk \/ MakesOut(got, after, m)
      BY <3>5, <3>6 DEF MakesOut, su, mk
    <3>10. QED BY <3>1, <3>4, <3>8, <3>9 DEF mk
  <2>4. QED BY <2>1, <2>2, <2>3
<1>4. QED BY <1>1, <1>2, <1>3, ByteIs

LEMMA FeedReads ==
  ASSUME NEW got \in Reader, NEW bytes \in Seq(Byte)
  PROVE  Feed(got, bytes) \in Reader
<1> DEFINE S == {m \in Seq(Byte) : Feed(got, m) \in Reader}
<1>1. <<>> \in S
  BY FeedNothing
<1>2. ASSUME NEW m \in Seq(Byte), NEW b \in Byte, m \in S PROVE Append(m, b) \in S
  BY <1>2, FeedOneMore, ReadByte
<1> HIDE DEF S
<1>3. bytes \in S
  BY <1>1, <1>2, EverySequence
<1>4. QED BY <1>3 DEF S

(* What was made out stays made out. *)
Grows(old, new) ==
  Len(old) <= Len(new) /\ \A k \in 1..Len(old) : new[k] = old[k]

LEMMA GrowsOn ==
  ASSUME NEW a \in Seq(Message), NEW b \in Seq(Message), NEW c \in Seq(Message),
         Grows(a, b), Grows(b, c)
  PROVE  Grows(a, c)
BY DEF Grows

LEMMA ByteGrows ==
  ASSUME NEW got \in Reader, NEW b \in Byte
  PROVE  Grows(got.made, FeedByte(got, b).made)
<1>1. got.made \in Seq(Message)
  BY DEF Reader
<1>2. Grows(got.made, got.made) /\ \A m \in Message : Grows(got.made, Append(got.made, m))
  BY <1>1 DEF Grows
<1>3. QED BY <1>2, ReadByte DEF MakesOut

LEMMA FeedGrows ==
  ASSUME NEW got \in Reader, NEW bytes \in Seq(Byte)
  PROVE  Grows(got.made, Feed(got, bytes).made)
<1> DEFINE S == {m \in Seq(Byte) : Grows(got.made, Feed(got, m).made)}
<1>1. <<>> \in S
  BY FeedNothing DEF Grows, Reader
<1>2. ASSUME NEW m \in Seq(Byte), NEW b \in Byte, m \in S PROVE Append(m, b) \in S
  <2>1. Feed(got, m) \in Reader /\ FeedByte(Feed(got, m), b) \in Reader
    BY FeedReads, ReadByte
  <2>2. Grows(got.made, Feed(got, m).made)
    BY <1>2
  <2>3. Grows(Feed(got, m).made, FeedByte(Feed(got, m), b).made)
    BY <2>1, ByteGrows
  <2>4. Grows(got.made, FeedByte(Feed(got, m), b).made)
    BY <2>1, <2>2, <2>3, GrowsOn DEF Reader
  <2>5. Append(m, b) \in Seq(Byte) /\ Feed(got, Append(m, b)) = FeedByte(Feed(got, m), b)
    BY FeedOneMore
  <2>6. QED BY <2>4, <2>5
<1> HIDE DEF S
<1>3. bytes \in S
  BY <1>1, <1>2, EverySequence
<1>4. QED BY <1>3 DEF S

-----------------------------------------------------------------------------
(* What one reader that missed bytes makes out of the rest, against another that
   missed none. *)
InOrder(made) ==
  \A k, l \in DOMAIN made :
    k < l /\ made[k].sure /\ made[l].sure => made[k].data[1] < made[l].data[1]

Within(less, more) ==
  \A k \in DOMAIN less : less[k].sure => \E l \in DOMAIN more : more[l] = less[k]

Weaker(q, p) ==
  /\ q.parser = p.parser \/ ~q.parser.sure
  /\ Within(q.made, p.made)
  /\ InOrder(q.made)

LEMMA Appended ==
  ASSUME NEW made \in Seq(Message), NEW m \in Message
  PROVE  /\ Append(made, m) \in Seq(Message) /\ Len(made) \in Nat
         /\ DOMAIN Append(made, m) = 1..Len(made) + 1 /\ DOMAIN made = 1..Len(made)
         /\ Append(made, m)[Len(made) + 1] = m
         /\ \A k \in DOMAIN made : k \in DOMAIN Append(made, m) /\ Append(made, m)[k] = made[k]
OBVIOUS

LEMMA EarlierInOrder ==
  ASSUME NEW old \in Seq(Message), NEW new \in Seq(Message), Grows(old, new), InOrder(new)
  PROVE  InOrder(old) /\ Within(old, new)
<1>1. \A k \in DOMAIN old : k \in DOMAIN new /\ new[k] = old[k]
  BY DEF Grows
<1> HIDE DEF Grows
<1>2. QED BY <1>1 DEF InOrder, Within

LEMMA UnsureInOrder ==
  ASSUME NEW made \in Seq(Message), NEW m \in Message, InOrder(made), ~m.sure
  PROVE  InOrder(Append(made, m))
<1> SUFFICES ASSUME NEW k \in 1..Len(made) + 1, NEW l \in 1..Len(made) + 1, k < l,
                    Append(made, m)[k].sure, Append(made, m)[l].sure
             PROVE  Append(made, m)[k].data[1] < Append(made, m)[l].data[1]
  BY Appended DEF InOrder
<1>1. k \in DOMAIN made /\ l \in DOMAIN made
  BY Appended
<1>2. Append(made, m)[k] = made[k] /\ Append(made, m)[l] = made[l]
  BY <1>1, Appended
<1>3. QED BY <1>1, <1>2 DEF InOrder

LEMMA WithinBoth ==
  ASSUME NEW less \in Seq(Message), NEW more \in Seq(Message), NEW m \in Message,
         Within(less, more), InOrder(less), InOrder(Append(more, m))
  PROVE  Within(Append(less, m), Append(more, m)) /\ InOrder(Append(less, m))
<1>1. ASSUME NEW k \in DOMAIN less, less[k].sure
      PROVE  \E l \in DOMAIN more : more[l] = less[k]
  BY <1>1 DEF Within
<1>2. Within(Append(less, m), Append(more, m))
  <2> SUFFICES ASSUME NEW k \in 1..Len(less) + 1, Append(less, m)[k].sure
               PROVE  \E l \in DOMAIN Append(more, m) : Append(more, m)[l] = Append(less, m)[k]
    BY Appended DEF Within
  <2>1. CASE k = Len(less) + 1
    <3>1. Append(less, m)[k] = m
      BY <2>1, Appended
    <3>2. Len(more) + 1 \in DOMAIN Append(more, m) /\ Append(more, m)[Len(more) + 1] = m
      BY Appended
    <3>3. QED BY <3>1, <3>2
  <2>2. CASE k # Len(less) + 1
    <3>1. k \in DOMAIN less
      BY <2>2, Appended
    <3>2. Append(less, m)[k] = less[k]
      BY <3>1, Appended
    <3>3. PICK l \in DOMAIN more : more[l] = less[k]
      BY <1>1, <3>1, <3>2
    <3>4. l \in DOMAIN Append(more, m) /\ Append(more, m)[l] = more[l]
      BY Appended
    <3>5. QED BY <3>2, <3>3, <3>4
  <2>3. QED BY <2>1, <2>2
<1>3. InOrder(Append(less, m))
  <2> SUFFICES ASSUME NEW k \in 1..Len(less) + 1, NEW l \in 1..Len(less) + 1, k < l,
                      Append(less, m)[k].sure, Append(less, m)[l].sure
               PROVE  Append(less, m)[k].data[1] < Append(less, m)[l].data[1]
    BY Appended DEF InOrder
  <2>1. k \in DOMAIN less /\ Append(less, m)[k] = less[k]
    BY Appended
  <2>2. CASE l = Len(less) + 1
    <3>1. PICK x \in DOMAIN more : more[x] = less[k]
      BY <1>1, <2>1
    <3>2. /\ x \in DOMAIN Append(more, m) /\ Append(more, m)[x] = less[k]
          /\ Len(more) + 1 \in DOMAIN Append(more, m) /\ Append(more, m)[Len(more) + 1] = m
          /\ x < Len(more) + 1
      BY <3>1, Appended
    <3>3. Append(less, m)[l] = m
      BY <2>2, Appended
    <3>4. less[k].sure /\ m.sure
      BY <2>1, <3>3
    <3>5. less[k].data[1] < m.data[1]
      BY <3>2, <3>4 DEF InOrder
    <3>6. QED BY <2>1, <3>3, <3>5
  <2>3. CASE l # Len(less) + 1
    <3>1. l \in DOMAIN less
      BY <2>3, Appended, SMTT(30)
    <3>2. Append(less, m)[l] = less[l]
      BY <3>1, Appended
    <3>3. QED BY <2>1, <3>1, <3>2 DEF InOrder
  <2>4. QED BY <2>2, <2>3
<1>4. QED BY <1>2, <1>3

(* Readers with the same parser do the same with a byte; one that is not sure
   stays so until a status. *)
Together(q, p, q1, p1) ==
  /\ q1.parser = p1.parser
  /\ \/ q1.made = q.made /\ p1.made = p.made
     \/ \E m \in Message : q1.made = Append(q.made, m) /\ p1.made = Append(p.made, m)

LEMMA ReadTogether ==
  ASSUME NEW q \in Reader, NEW p \in Reader, NEW b \in Byte, q.parser = p.parser
  PROVE  Together(q, p, FeedByte(q, b), FeedByte(p, b))
<1> DEFINE st == p.parser.status
           dt == p.parser.data
           su == p.parser.sure
<1>a. st \in Statuses \union {"none"} /\ dt \in Seq(Nat)
  BY ReaderHas
<1>b. su \in BOOLEAN
  BY ReaderHas
<1>0. ASSUME NEW x, NEW y, x.parser = y.parser, x.made = q.made, y.made = p.made
      PROVE  Together(q, p, x, y)
  BY <1>0 DEF Together
<1>1. CASE b = Gap
  <2>1. ASSUME NEW r \in Reader, r.parser = p.parser
        PROVE  /\ FeedByte(r, b).parser = [status |-> st, data |-> dt, sure |-> FALSE]
               /\ FeedByte(r, b).made = r.made
    BY <1>1, <2>1, GapHalves
  <2>2. QED BY <2>1, <1>0
<1>2. ASSUME NEW s \in Statuses, b = Status(s)
      PROVE  Together(q, p, FeedByte(q, b), FeedByte(p, b))
  <2>1. ASSUME NEW r \in Reader
        PROVE  /\ FeedByte(r, b).parser = [status |-> s, data |-> <<>>, sure |-> TRUE]
               /\ FeedByte(r, b).made = r.made
    BY <1>2, StatusHalves
  <2>2. QED BY <2>1, <1>0
<1>3. ASSUME NEW i \in Nat, b = Data(i)
      PROVE  Together(q, p, FeedByte(q, b), FeedByte(p, b))
  <2>1. CASE st = "none"
    BY <1>3, <2>1, ReadIdle DEF Together
  <2>2. CASE st # "none" /\ Len(dt) + 1 # Wanted(st)
    <3>1. ASSUME NEW r \in Reader, r.parser = p.parser
          PROVE  /\ FeedByte(r, b).parser = [status |-> st, data |-> Append(dt, i), sure |-> su]
                 /\ FeedByte(r, b).made = r.made
      BY <1>3, <2>2, <3>1, FirstHalves
    <3>2. QED BY <3>1, <1>0
  <2>3. CASE st # "none" /\ Len(dt) + 1 = Wanted(st)
    <3> DEFINE m == [status |-> st, data |-> Append(dt, i), sure |-> su]
               rest == [status |-> st, data |-> <<>>, sure |-> su]
    <3>1. /\ FeedByte(q, b) = [parser |-> rest, made |-> IF st \in OneByte THEN q.made ELSE Append(q.made, m)]
          /\ FeedByte(p, b) = [parser |-> rest, made |-> IF st \in OneByte THEN p.made ELSE Append(p.made, m)]
      BY <1>3, <2>3, ReadLast
    <3> HIDE DEF st, dt, su
    <3>2. m \in Message
      <4>1. Append(dt, i) \in Seq(Nat) /\ st \in Statuses
        BY <1>a, <2>3
      <4>2. QED BY <4>1, <1>b DEF Message
    <3> HIDE DEF m, rest
    <3>3. QED BY <3>1, <3>2 DEF Together
  <2>4. QED BY <2>1, <2>2, <2>3
<1>4. QED BY <1>1, <1>2, <1>3, ByteIs

StaysUnsure(q, q1) ==
  /\ ~q1.parser.sure
  /\ q1.made = q.made \/ \E m \in Message : ~m.sure /\ q1.made = Append(q.made, m)

LEMMA ReadUnsure ==
  ASSUME NEW q \in Reader, NEW b \in Byte, ~q.parser.sure, \A s \in Statuses : b # Status(s)
  PROVE  StaysUnsure(q, FeedByte(q, b))
<1>1. CASE b = Gap
  <2>1. /\ FeedByte(q, b).parser = [status |-> q.parser.status, data |-> q.parser.data,
                                    sure |-> FALSE]
        /\ FeedByte(q, b).made = q.made
    BY <1>1, GapHalves
  <2>2. QED BY <2>1 DEF StaysUnsure
<1>2. ASSUME NEW i \in Nat, b = Data(i)
      PROVE  StaysUnsure(q, FeedByte(q, b))
  <2>1. CASE q.parser.status = "none"
    BY <1>2, <2>1, ReadIdle DEF StaysUnsure
  <2>2. CASE q.parser.status # "none" /\ Len(q.parser.data) + 1 # Wanted(q.parser.status)
    BY <1>2, <2>2, ReadFirst DEF StaysUnsure
  <2>3. CASE q.parser.status # "none" /\ Len(q.parser.data) + 1 = Wanted(q.parser.status)
    <3>1. FeedByte(q, b).parser = [status |-> q.parser.status, data |-> <<>>,
                                   sure |-> q.parser.sure]
      BY <1>2, <2>3, LastHalves
    <3>2. FeedByte(q, b).made = q.made \/ \E m \in Message : MakesOut(q, FeedByte(q, b), m)
      BY ReadByte
    <3>3. QED BY <3>1, <3>2 DEF StaysUnsure, MakesOut
  <2>4. QED BY <2>1, <2>2, <2>3
<1>3. QED BY <1>1, <1>2, ByteIs

LEMMA MadeBy ==
  ASSUME NEW got \in Reader, NEW b \in Byte
  PROVE  /\ got.made \in Seq(Message) /\ FeedByte(got, b).made \in Seq(Message)
         /\ Grows(got.made, FeedByte(got, b).made)
BY ReadByte, ByteGrows, ReaderHas

LEMMA WithinMore ==
  ASSUME NEW less \in Seq(Message), NEW more \in Seq(Message), NEW new \in Seq(Message),
         Within(less, more), Grows(more, new)
  PROVE  Within(less, new)
<1>1. \A l \in DOMAIN more : l \in DOMAIN new /\ new[l] = more[l]
  BY DEF Grows
<1> SUFFICES ASSUME NEW k \in DOMAIN less, less[k].sure
             PROVE  \E l \in DOMAIN new : new[l] = less[k]
  BY DEF Within
<1>2. PICK l \in DOMAIN more : more[l] = less[k]
  BY DEF Within
<1>3. QED BY <1>1, <1>2

LEMMA WithinUnsure ==
  ASSUME NEW less \in Seq(Message), NEW more \in Seq(Message), NEW m \in Message,
         Within(less, more), ~m.sure
  PROVE  Within(Append(less, m), more)
<1> SUFFICES ASSUME NEW k \in 1..Len(less) + 1, Append(less, m)[k].sure
             PROVE  \E l \in DOMAIN more : more[l] = Append(less, m)[k]
  BY Appended DEF Within
<1>1. k \in DOMAIN less /\ Append(less, m)[k] = less[k]
  BY Appended
<1>2. QED BY <1>1 DEF Within

LEMMA WeakerStep ==
  ASSUME NEW q \in Reader, NEW p \in Reader, NEW b \in Byte, Weaker(q, p),
         InOrder(FeedByte(p, b).made)
  PROVE  Weaker(FeedByte(q, b), FeedByte(p, b))
<1> DEFINE q1 == FeedByte(q, b)
           p1 == FeedByte(p, b)
<1>1. /\ {q.made, q1.made, p.made, p1.made} \subseteq Seq(Message)
      /\ Grows(p.made, p1.made) /\ InOrder(p1.made)
      /\ Within(q.made, p.made) /\ InOrder(q.made)
  BY MadeBy DEF Weaker
<1>2. CASE q.parser = p.parser
  <2>1. Together(q, p, q1, p1)
    BY <1>2, ReadTogether
  <2> HIDE DEF q1, p1
  <2>2. ASSUME q1.made = q.made /\ p1.made = p.made
        PROVE  Weaker(q1, p1)
    BY <1>1, <2>1, <2>2 DEF Weaker, Together
  <2>3. ASSUME NEW m \in Message, q1.made = Append(q.made, m), p1.made = Append(p.made, m)
        PROVE  Weaker(q1, p1)
    <3>1. Within(q1.made, p1.made) /\ InOrder(q1.made)
      BY <1>1, <2>3, WithinBoth
    <3>2. QED BY <2>1, <3>1 DEF Weaker, Together
  <2>4. Weaker(q1, p1)
    BY <2>1, <2>2, <2>3 DEF Together
  <2>5. QED BY <2>4 DEF q1, p1
<1>3. ASSUME ~q.parser.sure, NEW s \in Statuses, b = Status(s)
      PROVE  Weaker(q1, p1)
  <2>1. q1.parser = p1.parser /\ q1.made = q.made
    BY <1>3, StatusHalves
  <2>2. Within(q.made, p1.made)
    BY <1>1, WithinMore
  <2> HIDE DEF q1, p1
  <2>3. QED BY <1>1, <2>1, <2>2 DEF Weaker
<1>4. CASE ~q.parser.sure /\ \A s \in Statuses : b # Status(s)
  <2>1. StaysUnsure(q, q1)
    BY <1>4, ReadUnsure
  <2>2. Within(q.made, p1.made)
    BY <1>1, WithinMore
  <2> HIDE DEF q1, p1
  <2>3. ASSUME q1.made = q.made
        PROVE  Weaker(q1, p1)
    BY <1>1, <2>1, <2>2, <2>3 DEF Weaker, StaysUnsure
  <2>4. ASSUME NEW m \in Message, ~m.sure, q1.made = Append(q.made, m)
        PROVE  Weaker(q1, p1)
    <3>1. Within(q1.made, p1.made)
      BY <1>1, <2>2, <2>4, WithinUnsure
    <3>2. InOrder(q1.made)
      BY <1>1, <2>4, UnsureInOrder
    <3>3. QED BY <2>1, <3>1, <3>2 DEF Weaker, StaysUnsure
  <2>5. Weaker(q1, p1)
    BY <2>1, <2>3, <2>4 DEF StaysUnsure
  <2>6. QED BY <2>5 DEF q1, p1
<1>5. QED BY <1>2, <1>3, <1>4 DEF Weaker

LEMMA WeakerFeed ==
  ASSUME NEW q \in Reader, NEW p \in Reader, NEW bytes \in Seq(Byte), Weaker(q, p),
         InOrder(Feed(p, bytes).made)
  PROVE  Weaker(Feed(q, bytes), Feed(p, bytes))
<1> DEFINE Holds(m) == InOrder(Feed(p, m).made) => Weaker(Feed(q, m), Feed(p, m))
           S == {m \in Seq(Byte) : Holds(m)}
<1>1. <<>> \in S
  BY FeedNothing
<1>2. ASSUME NEW m \in Seq(Byte), NEW b \in Byte, m \in S PROVE Append(m, b) \in S
  <2>1. Feed(p, m) \in Reader /\ Feed(q, m) \in Reader
    BY FeedReads
  <2>2. /\ Feed(p, Append(m, b)) = FeedByte(Feed(p, m), b)
        /\ Feed(q, Append(m, b)) = FeedByte(Feed(q, m), b)
    BY FeedOneMore
  <2>3. ASSUME InOrder(FeedByte(Feed(p, m), b).made)
        PROVE  Weaker(FeedByte(Feed(q, m), b), FeedByte(Feed(p, m), b))
    <3>1. InOrder(Feed(p, m).made)
      BY <2>1, <2>3, MadeBy, EarlierInOrder
    <3>2. Weaker(Feed(q, m), Feed(p, m))
      BY <1>2, <3>1
    <3>3. QED BY <2>1, <2>3, <3>2, WeakerStep
  <2>4. Holds(Append(m, b))
    BY <2>2, <2>3
  <2>5. Append(m, b) \in Seq(Byte)
    OBVIOUS
  <2> HIDE DEF Holds
  <2>6. QED BY <2>4, <2>5
<1> HIDE DEF S
<1>3. bytes \in S
  BY <1>1, <1>2, EverySequence
<1>4. QED BY <1>3 DEF S

(* Bytes that went missing: what comes after them is made out as if they had not,
   or is known to be doubtful. *)
LEMMA GapWeaker ==
  ASSUME NEW got \in Reader, NEW missed \in Seq(Byte), NEW bytes \in Seq(Byte),
         InOrder(Feed(got, missed \o bytes).made)
  PROVE  Weaker(Feed(FeedByte(got, Gap), bytes), Feed(got, missed \o bytes))
<1> DEFINE q == FeedByte(got, Gap)
           p == Feed(got, missed)
<1>1. Gap \in Byte
  BY BytesAre
<1>2. q \in Reader /\ p \in Reader
  BY <1>1, ReadByte, FeedReads
<1>3. Feed(got, missed \o bytes) = Feed(p, bytes)
  BY FeedOn
<1>4. ~q.parser.sure /\ q.made = got.made
  <2>1. /\ q.parser = [status |-> got.parser.status, data |-> got.parser.data, sure |-> FALSE]
        /\ q.made = got.made
    BY GapHalves
  <2> HIDE DEF q
  <2>2. QED BY <2>1
<1>5. Grows(got.made, p.made)
  BY FeedGrows
<1> HIDE DEF q, p
<1>6. {got.made, p.made, Feed(p, bytes).made} \subseteq Seq(Message)
  BY <1>2, FeedReads, ReaderHas
<1>7. Grows(p.made, Feed(p, bytes).made)
  BY <1>2, FeedGrows
<1>8. InOrder(p.made)
  BY <1>3, <1>6, <1>7, EarlierInOrder
<1>9. InOrder(got.made) /\ Within(got.made, p.made)
  BY <1>5, <1>6, <1>8, EarlierInOrder
<1>10. Weaker(q, p)
  BY <1>4, <1>9 DEF Weaker
<1>11. Weaker(Feed(q, bytes), Feed(p, bytes))
  BY <1>2, <1>3, <1>10, WeakerFeed
<1>12. QED BY <1>3, <1>11 DEF q

-----------------------------------------------------------------------------
(* What was sent, and what a reader has understood of it: of everything, when
   nothing is missing. *)
IsSent(m, sent) ==
  \E i \in DOMAIN sent : m.status = sent[i] /\ m.data = [j \in 1..Wanted(sent[i]) |-> i]

AllSent(made, sent) == \A k \in DOMAIN made : made[k].sure => IsSent(made[k], sent)

LEMMA SentInOrder ==
  ASSUME NEW made, NEW sent
  PROVE  OnlyWhatWasSent(made, sent) <=> AllSent(made, sent) /\ InOrder(made)
BY DEF OnlyWhatWasSent, AllSent, IsSent, InOrder

LastStatus(sent) == IF sent = <<>> THEN "none" ELSE sent[Len(sent)]

Caught(parser, sent) ==
  parser.sure => parser.data = <<>> /\ parser.status = LastStatus(sent)

Understood(got, sent, whole) ==
  /\ Caught(got.parser, sent)
  /\ OnlyWhatWasSent(got.made, sent)
  /\ whole => got.parser.sure /\ Len(got.made) = Cardinality(Controls(sent))

LEMMA OneSent ==
  ASSUME NEW sent \in Seq(Statuses), NEW s \in Statuses
  PROVE  /\ Append(sent, s) \in Seq(Statuses) /\ Len(Append(sent, s)) = Len(sent) + 1
         /\ Len(sent) \in Nat /\ Append(sent, s) # <<>>
         /\ DOMAIN sent = 1..Len(sent) /\ DOMAIN Append(sent, s) = 1..Len(sent) + 1
         /\ Append(sent, s)[Len(sent) + 1] = s
         /\ \A i \in DOMAIN sent : i \in DOMAIN Append(sent, s) /\ Append(sent, s)[i] = sent[i]
OBVIOUS

LEMMA KeepsSent ==
  ASSUME NEW sent \in Seq(Statuses), NEW s \in Statuses, NEW made, AllSent(made, sent)
  PROVE  AllSent(made, Append(sent, s))
<1> SUFFICES ASSUME NEW k \in DOMAIN made, made[k].sure
             PROVE  IsSent(made[k], Append(sent, s))
  BY DEF AllSent
<1>1. PICK i \in DOMAIN sent : made[k].status = sent[i]
                               /\ made[k].data = [j \in 1..Wanted(sent[i]) |-> i]
  BY DEF AllSent, IsSent
<1>2. i \in DOMAIN Append(sent, s) /\ Append(sent, s)[i] = sent[i]
  BY OneSent
<1>3. QED BY <1>1, <1>2 DEF IsSent

LEMMA AllSentOne ==
  ASSUME NEW made \in Seq(Message), NEW m \in Message, NEW sent,
         AllSent(made, sent), m.sure => IsSent(m, sent)
  PROVE  AllSent(Append(made, m), sent)
<1> SUFFICES ASSUME NEW k \in 1..Len(made) + 1, Append(made, m)[k].sure
             PROVE  IsSent(Append(made, m)[k], sent)
  BY Appended DEF AllSent
<1>1. CASE k = Len(made) + 1
  BY <1>1, Appended
<1>2. CASE k # Len(made) + 1
  <2>1. k \in DOMAIN made /\ Append(made, m)[k] = made[k]
    BY <1>2, Appended
  <2>2. QED BY <2>1 DEF AllSent
<1>3. QED BY <1>1, <1>2

LEMMA UnsureSent ==
  ASSUME NEW made \in Seq(Message), NEW m \in Message, NEW sent,
         OnlyWhatWasSent(made, sent), ~m.sure
  PROVE  OnlyWhatWasSent(Append(made, m), sent)
BY AllSentOne, UnsureInOrder, SentInOrder

(* The message last sent, whole. *)
LEMMA SureSent ==
  ASSUME NEW sent \in Seq(Statuses), NEW s \in Statuses \ OneByte,
         NEW made \in Seq(Message), NEW m \in Message, OnlyWhatWasSent(made, sent),
         m.status = s, m.data = <<Len(sent) + 1, Len(sent) + 1>>
  PROVE  OnlyWhatWasSent(Append(made, m), Append(sent, s))
<1> DEFINE n == Len(sent) + 1
<1>1. Wanted(s) = 2
  BY DEF Wanted
<1>2. m.data = [j \in 1..Wanted(s) |-> n]
  BY <1>1
<1>3. IsSent(m, Append(sent, s))
  <2>1. n \in DOMAIN Append(sent, s) /\ Append(sent, s)[n] = s
    BY OneSent
  <2> HIDE DEF n
  <2>2. QED BY <1>2, <2>1 DEF IsSent
<1>4. AllSent(Append(made, m), Append(sent, s))
  BY <1>3, KeepsSent, AllSentOne, SentInOrder
<1>5. ASSUME NEW k \in DOMAIN made, made[k].sure PROVE made[k].data[1] < n
  <2>1. PICK i \in DOMAIN sent : made[k].data = [j \in 1..Wanted(sent[i]) |-> i]
    BY <1>5, SentInOrder DEF AllSent, IsSent
  <2>2. Wanted(sent[i]) \in {1, 2}
    BY DEF Wanted
  <2>3. made[k].data[1] = i
    BY <2>1, <2>2
  <2>4. QED BY <2>3, OneSent
<1>6. m.data[1] = n
  OBVIOUS
<1> HIDE DEF n
<1>7. InOrder(Append(made, m))
  <2> SUFFICES ASSUME NEW k \in 1..Len(made) + 1, NEW l \in 1..Len(made) + 1, k < l,
                      Append(made, m)[k].sure, Append(made, m)[l].sure
               PROVE  Append(made, m)[k].data[1] < Append(made, m)[l].data[1]
    BY Appended DEF InOrder
  <2>1. k \in DOMAIN made /\ Append(made, m)[k] = made[k]
    BY Appended
  <2>2. CASE l = Len(made) + 1
    BY <1>5, <1>6, <2>1, <2>2, Appended
  <2>3. CASE l # Len(made) + 1
    <3>1. l \in DOMAIN made /\ Append(made, m)[l] = made[l]
      BY <2>3, Appended, SMTT(30)
    <3>2. InOrder(made)
      BY SentInOrder
    <3>3. QED BY <2>1, <3>1, <3>2 DEF InOrder
  <2>4. QED BY <2>2, <2>3
<1>8. QED BY <1>4, <1>7, SentInOrder

LEMMA ControlsOne ==
  ASSUME NEW sent \in Seq(Statuses), NEW s \in Statuses
  PROVE  /\ Cardinality(Controls(sent)) \in Nat
         /\ Cardinality(Controls(Append(sent, s))) =
              Cardinality(Controls(sent)) + (IF s \in OneByte THEN 0 ELSE 1)
<1> DEFINE n == Len(sent) + 1
<1>1. IsFiniteSet(Controls(sent))
  <2>1. IsFiniteSet(1..Len(sent))
    BY FS_Interval, OneSent
  <2>2. Controls(sent) \subseteq 1..Len(sent)
    BY DEF Controls
  <2>3. QED BY <2>1, <2>2, FS_Subset
<1>2. n \notin Controls(sent)
  BY OneSent DEF Controls
<1>3. CASE s \in OneByte
  <2>1. Controls(Append(sent, s)) = Controls(sent)
    BY <1>3, OneSent DEF Controls
  <2>2. QED BY <1>1, <1>3, <2>1, FS_CardinalityType
<1>4. CASE s \notin OneByte
  <2>1. Controls(Append(sent, s)) = Controls(sent) \union {n}
    BY <1>4, OneSent DEF Controls
  <2>2. Cardinality(Controls(sent) \union {n}) = Cardinality(Controls(sent)) + 1
    BY <1>1, <1>2, FS_AddElement
  <2>3. QED BY <1>1, <1>4, <2>1, <2>2, FS_CardinalityType
<1>5. QED BY <1>3, <1>4

(* The data bytes of a whole message. *)
DataOf(s, n) == [k \in 1..Wanted(s) |-> Data(n)]

LEMMA DataOfIs ==
  ASSUME NEW s, NEW n \in Nat
  PROVE  /\ s \in OneByte => DataOf(s, n) = Append(<<>>, Data(n))
         /\ s \notin OneByte => DataOf(s, n) = Append(Append(<<>>, Data(n)), Data(n))
         /\ <<>> \in Seq(Byte) /\ Append(<<>>, Data(n)) \in Seq(Byte)
         /\ DataOf(s, n) \in Seq(Byte)
<1> DEFINE d == Data(n)
<1>1. d \in Byte
  BY BytesAre
<1> HIDE DEF d
<1>2. CASE s \in OneByte
  <2>1. DataOf(s, n) = [k \in 1..1 |-> d]
    BY <1>2 DEF DataOf, Wanted, d
  <2>2. [k \in 1..1 |-> d] = Append(<<>>, d) /\ Append(<<>>, d) \in Seq(Byte)
    BY <1>1
  <2>3. QED BY <1>2, <2>1, <2>2 DEF d
<1>3. CASE s \notin OneByte
  <2>1. DataOf(s, n) = [k \in 1..2 |-> d]
    BY <1>3 DEF DataOf, Wanted, d
  <2>2. [k \in 1..2 |-> d] = Append(Append(<<>>, d), d)
    OBVIOUS
  <2>3. Append(<<>>, d) \in Seq(Byte) /\ Append(Append(<<>>, d), d) \in Seq(Byte)
    BY <1>1
  <2>4. QED BY <1>3, <2>1, <2>2, <2>3 DEF d
<1>4. QED BY <1>2, <1>3

LEMMA FeedOneByte ==
  ASSUME NEW got, NEW b \in Byte
  PROVE  Feed(got, Append(<<>>, b)) = FeedByte(got, b)
<1>1. ASSUME NEW bytes \in Seq(Byte)
      PROVE  Feed(got, Append(bytes, b)) = FeedByte(Feed(got, bytes), b)
  BY FeedOneMore
<1>2. <<>> \in Seq(Byte)
  OBVIOUS
<1>3. QED BY <1>1, <1>2, FeedNothing, Zenon

LEMMA FeedTwoBytes ==
  ASSUME NEW got, NEW b \in Byte
  PROVE  Feed(got, Append(Append(<<>>, b), b)) = FeedByte(FeedByte(got, b), b)
<1>1. ASSUME NEW bytes \in Seq(Byte)
      PROVE  Feed(got, Append(bytes, b)) = FeedByte(Feed(got, bytes), b)
  BY FeedOneMore
<1>2. Append(<<>>, b) \in Seq(Byte)
  OBVIOUS
<1>3. QED BY <1>1, <1>2, FeedOneByte, Zenon

LEMMA TwoOf ==
  ASSUME NEW n \in Nat
  PROVE  Len(Append(<<>>, n)) = 1 /\ Append(Append(<<>>, n), n) = <<n, n>>
<1> DEFINE one == Append(<<>>, n)
           two == Append(one, n)
<1>1. one \in Seq(Nat) /\ Len(one) = 1 /\ one[1] = n
  OBVIOUS
<1> HIDE DEF one
<1>2. two \in Seq(Nat) /\ Len(two) = 2 /\ two[1] = n /\ two[2] = n
  <2>1. /\ two \in Seq(Nat) /\ Len(two) = Len(one) + 1 /\ two[Len(one) + 1] = n
        /\ \A k \in 1..Len(one) : two[k] = one[k]
    BY <1>1, AppendProperties
  <2> HIDE DEF two
  <2>2. QED BY <1>1, <2>1
<1> HIDE DEF two
<1>3. two = <<n, n>>
  BY <1>2
<1>4. QED BY <1>1, <1>3 DEF one, two

LEMMA ReadsData ==
  ASSUME NEW got \in Reader, NEW s \in Statuses, NEW n \in Nat, s # "none",
         got.parser.status = s, got.parser.data = <<>>
  PROVE  /\ Feed(got, DataOf(s, n)).parser =
              [status |-> s, data |-> <<>>, sure |-> got.parser.sure]
         /\ Feed(got, DataOf(s, n)).made =
              IF s \in OneByte THEN got.made
              ELSE Append(got.made, [status |-> s, data |-> <<n, n>>, sure |-> got.parser.sure])
<1> DEFINE d == Data(n)
           one == FeedByte(got, d)
           su == got.parser.sure
<1>1. d \in Byte /\ Len(<<>>) = 0
  BY BytesAre
<1>2. CASE s \in OneByte
  <2>1. Wanted(s) = 1 /\ 0 + 1 = 1
    BY <1>2, WantedIs
  <2>2. Feed(got, DataOf(s, n)) = one
    BY <1>1, <1>2, DataOfIs, FeedOneByte
  <2>3. one.parser = [status |-> s, data |-> <<>>, sure |-> su] /\ one.made = got.made
    BY <1>1, <1>2, <2>1, LastHalves
  <2> HIDE DEF one, su
  <2>4. QED BY <1>2, <2>2, <2>3 DEF su
<1>3. CASE s \notin OneByte
  <2> DEFINE two == FeedByte(one, d)
             m == [status |-> s, data |-> <<n, n>>, sure |-> su]
  <2>1. Wanted(s) = 2 /\ 0 + 1 # 2 /\ 1 + 1 = 2
    BY <1>3, WantedIs
  <2>2. Feed(got, DataOf(s, n)) = two
    BY <1>1, <1>3, DataOfIs, FeedTwoBytes
  <2>3. one.parser = [status |-> s, data |-> Append(<<>>, n), sure |-> su] /\ one.made = got.made
    BY <1>1, <2>1, FirstHalves
  <2>4. one \in Reader
    BY <1>1, ReadByte
  <2> HIDE DEF one, su
  <2>5. one.parser.status = s /\ one.parser.data = Append(<<>>, n) /\ one.parser.sure = su
    BY <2>3
  <2>6. Len(Append(<<>>, n)) = 1 /\ Append(Append(<<>>, n), n) = <<n, n>>
    BY TwoOf
  <2>7. /\ two.parser = [status |-> one.parser.status, data |-> <<>>, sure |-> one.parser.sure]
        /\ two.made = IF one.parser.status \in OneByte THEN one.made
                      ELSE Append(one.made, [status |-> one.parser.status,
                                             data |-> Append(one.parser.data, n),
                                             sure |-> one.parser.sure])
    BY <2>1, <2>4, <2>5, <2>6, LastHalves, ZenonT(30)
  <2> HIDE DEF two
  <2>8. two.parser = [status |-> s, data |-> <<>>, sure |-> su] /\ two.made = Append(got.made, m)
    BY <1>3, <2>3, <2>5, <2>6, <2>7
  <2>9. QED BY <1>3, <2>2, <2>8 DEF su
<1>4. QED BY <1>2, <1>3

(* Data bytes for a parser that is not sure. *)
LEMMA DataUnsure ==
  ASSUME NEW got \in Reader, NEW n \in Nat, NEW sent,
         ~got.parser.sure, OnlyWhatWasSent(got.made, sent)
  PROVE  /\ ~FeedByte(got, Data(n)).parser.sure
         /\ OnlyWhatWasSent(FeedByte(got, Data(n)).made, sent)
         /\ FeedByte(got, Data(n)) \in Reader
<1>1. Data(n) \in Byte /\ \A s \in Statuses : Data(n) # Status(s)
  BY BytesAre DEF Data, Status
<1>2. StaysUnsure(got, FeedByte(got, Data(n))) /\ FeedByte(got, Data(n)) \in Reader
  BY <1>1, ReadUnsure, ReadByte
<1>3. got.made \in Seq(Message)
  BY ReaderHas
<1>4. QED BY <1>2, <1>3, UnsureSent DEF StaysUnsure

LEMMA ReadsUnsure ==
  ASSUME NEW got \in Reader, NEW s, NEW n \in Nat, NEW sent,
         ~got.parser.sure, OnlyWhatWasSent(got.made, sent)
  PROVE  /\ ~Feed(got, DataOf(s, n)).parser.sure
         /\ OnlyWhatWasSent(Feed(got, DataOf(s, n)).made, sent)
<1>1. Data(n) \in Byte
  BY BytesAre
<1>2. CASE s \in OneByte
  <2>1. Feed(got, DataOf(s, n)) = FeedByte(got, Data(n))
    BY <1>1, <1>2, DataOfIs, FeedOneByte
  <2>2. QED BY <2>1, DataUnsure
<1>3. CASE s \notin OneByte
  <2>1. Feed(got, DataOf(s, n)) = FeedByte(FeedByte(got, Data(n)), Data(n))
    BY <1>1, <1>3, DataOfIs, FeedTwoBytes
  <2>2. QED BY <2>1, DataUnsure
<1>4. QED BY <1>2, <1>3

(* A message's data bytes, for a parser that has its status. *)
LEMMA MessageRead ==
  ASSUME NEW got \in Reader, NEW sent \in Seq(Statuses), NEW s \in Statuses, s # "none",
         got.parser.status = s, got.parser.data = <<>>, got.parser.sure = TRUE,
         OnlyWhatWasSent(got.made, sent), NEW whole,
         whole => Len(got.made) = Cardinality(Controls(sent))
  PROVE  Understood(Feed(got, DataOf(s, Len(sent) + 1)), Append(sent, s), whole)
<1> DEFINE n == Len(sent) + 1
           new == Feed(got, DataOf(s, n))
           m == [status |-> s, data |-> <<n, n>>, sure |-> TRUE]
<1>1. n \in Nat /\ n \in DOMAIN Append(sent, s) /\ Append(sent, s)[n] = s
  BY OneSent
<1>2. /\ new.parser = [status |-> s, data |-> <<>>, sure |-> TRUE]
      /\ new.made = IF s \in OneByte THEN got.made ELSE Append(got.made, m)
  <2>1. /\ new.parser = [status |-> s, data |-> <<>>, sure |-> got.parser.sure]
        /\ new.made = IF s \in OneByte THEN got.made
                      ELSE Append(got.made, [status |-> s, data |-> <<n, n>>,
                                             sure |-> got.parser.sure])
    BY <1>1, ReadsData
  <2> HIDE DEF new, n
  <2>2. QED BY <2>1, Zenon
<1>3. got.made \in Seq(Message)
  BY ReaderHas
<1>4. LastStatus(Append(sent, s)) = s
  BY OneSent DEF LastStatus
<1>5. Caught(new.parser, Append(sent, s)) /\ new.parser.sure
  <2> HIDE DEF new
  <2>1. new.parser.data = <<>> /\ new.parser.status = s /\ new.parser.sure
    BY <1>2
  <2>2. QED BY <1>4, <2>1 DEF Caught
<1>6. CASE s \in OneByte
  <2>1. new.made = got.made
    BY <1>2, <1>6
  <2>2. OnlyWhatWasSent(got.made, Append(sent, s))
    BY KeepsSent, SentInOrder
  <2>3. Cardinality(Controls(Append(sent, s))) = Cardinality(Controls(sent)) + 0
        /\ Cardinality(Controls(sent)) \in Nat
    BY <1>6, ControlsOne
  <2> HIDE DEF new
  <2>4. Understood(new, Append(sent, s), whole)
    BY <1>5, <2>1, <2>2, <2>3 DEF Understood
  <2>5. QED BY <2>4 DEF new
<1>7. CASE s \notin OneByte
  <2>1. new.made = Append(got.made, m)
    BY <1>2, <1>7
  <2>2. m \in Message /\ m.status = s /\ m.data = <<n, n>>
    <3>1. <<n, n>> \in Seq(Nat)
      BY <1>1
    <3>2. QED BY <3>1 DEF Message
  <2> HIDE DEF m
  <2>3. OnlyWhatWasSent(Append(got.made, m), Append(sent, s))
    BY <1>3, <1>7, <2>2, SureSent
  <2>4. Len(Append(got.made, m)) = Len(got.made) + 1
    BY <1>3, <2>2
  <2>5. Cardinality(Controls(Append(sent, s))) = Cardinality(Controls(sent)) + 1
    BY <1>7, ControlsOne
  <2> HIDE DEF new, n
  <2>6. Understood(new, Append(sent, s), whole)
    BY <1>5, <2>1, <2>3, <2>4, <2>5 DEF Understood
  <2>7. QED BY <2>6 DEF new, n
<1>8. QED BY <1>6, <1>7

LEMMA EncodedIs ==
  ASSUME NEW sent \in Seq(Statuses), NEW s \in Statuses, NEW brief \in BOOLEAN
  PROVE  /\ Encoded(Append(sent, s), Len(Append(sent, s)), brief) =
              IF brief THEN DataOf(s, Len(sent) + 1)
              ELSE Append(<<>>, Status(s)) \o DataOf(s, Len(sent) + 1)
         /\ Encoded(Append(sent, s), Len(Append(sent, s)), brief) \in Seq(Byte)
         /\ Append(<<>>, Status(s)) \in Seq(Byte) /\ DataOf(s, Len(sent) + 1) \in Seq(Byte)
<1> DEFINE n == Len(sent) + 1
           data == DataOf(s, n)
           first == Append(<<>>, Status(s))
<1>1. n \in Nat /\ Len(Append(sent, s)) = n /\ Append(sent, s)[n] = s
  BY OneSent
<1>2. data \in Seq(Byte)
  BY <1>1, DataOfIs
<1>3. Status(s) \in Byte
  BY BytesAre
<1>4. first \in Seq(Byte) /\ first = <<Status(s)>>
  BY <1>3
<1>5. Encoded(Append(sent, s), n, brief) = (IF brief THEN <<>> ELSE <<Status(s)>>) \o data
  BY <1>1 DEF Encoded, DataOf
<1> HIDE DEF n, data, first
<1>6. <<>> \o data = data
  BY <1>2, ConcatEmptySeq
<1>7. Encoded(Append(sent, s), n, brief) = IF brief THEN data ELSE first \o data
  BY <1>4, <1>5, <1>6
<1>8. first \o data \in Seq(Byte)
  BY <1>2, <1>4
<1>9. QED BY <1>1, <1>2, <1>4, <1>7, <1>8 DEF n, data, first

(* One more message, its status left out or not. *)
LEMMA UnderstoodMore ==
  ASSUME NEW got \in Reader, NEW sent \in Seq(Statuses), NEW s \in Statuses, s # "none",
         NEW whole, Understood(got, sent, whole), NEW brief \in BOOLEAN,
         brief => SameAsLast(Append(sent, s), Len(Append(sent, s)))
  PROVE  Understood(Feed(got, Encoded(Append(sent, s), Len(Append(sent, s)), brief)),
                    Append(sent, s), whole)
<1> DEFINE n == Len(sent) + 1
           data == DataOf(s, n)
           first == Append(<<>>, Status(s))
           bytes == Encoded(Append(sent, s), Len(Append(sent, s)), brief)
<1>1. bytes = (IF brief THEN data ELSE first \o data)
      /\ first \in Seq(Byte) /\ data \in Seq(Byte) /\ n \in Nat
  BY EncodedIs
<1>2. /\ OnlyWhatWasSent(got.made, sent) /\ Caught(got.parser, sent)
      /\ whole => got.parser.sure /\ Len(got.made) = Cardinality(Controls(sent))
  BY DEF Understood
<1>3. CASE ~brief
  <2> DEFINE one == FeedByte(got, Status(s))
  <2>1. Status(s) \in Byte
    BY BytesAre
  <2>2. Feed(got, bytes) = Feed(Feed(got, first), data)
    <3> HIDE DEF first, data, bytes
    <3>1. QED BY <1>1, <1>3, FeedOn
  <2>3. Feed(got, first) = one
    BY <2>1, FeedOneByte
  <2>4. one \in Reader
    BY <2>1, ReadByte
  <2>5. one.parser = [status |-> s, data |-> <<>>, sure |-> TRUE] /\ one.made = got.made
    BY StatusHalves
  <2> HIDE DEF one
  <2>6. one.parser.status = s /\ one.parser.data = <<>> /\ one.parser.sure = TRUE
    BY <2>5
  <2>7. Understood(Feed(one, data), Append(sent, s), whole)
    BY <1>2, <2>4, <2>5, <2>6, MessageRead
  <2>8. QED BY <2>2, <2>3, <2>7
<1>4. CASE brief /\ got.parser.sure
  <2>1. n > 1 /\ Append(sent, s)[n - 1] = Append(sent, s)[n]
    BY <1>4, OneSent DEF SameAsLast
  <2>2. sent # <<>> /\ n - 1 = Len(sent) /\ Len(sent) \in DOMAIN sent
    BY <2>1, OneSent
  <2>3. sent[Len(sent)] = s
    BY <2>1, <2>2, OneSent
  <2>4. got.parser.data = <<>> /\ got.parser.status = s /\ got.parser.sure = TRUE
    <3>1. LastStatus(sent) = s
      BY <2>2, <2>3 DEF LastStatus
    <3>2. got.parser.sure \in BOOLEAN
      BY ReaderHas
    <3>3. QED BY <1>2, <1>4, <3>1, <3>2 DEF Caught
  <2>5. Understood(Feed(got, data), Append(sent, s), whole)
    BY <1>2, <2>4, MessageRead
  <2>6. QED BY <1>1, <1>4, <2>5
<1>5. CASE brief /\ ~got.parser.sure
  <2>1. /\ ~Feed(got, data).parser.sure
        /\ OnlyWhatWasSent(Feed(got, data).made, sent)
    BY <1>1, <1>2, <1>5, ReadsUnsure
  <2>2. OnlyWhatWasSent(Feed(got, data).made, Append(sent, s))
    BY <2>1, KeepsSent, SentInOrder
  <2>3. ~whole
    BY <1>2, <1>5
  <2>4. Feed(got, bytes) = Feed(got, data)
    BY <1>1, <1>5
  <2>5. QED BY <2>1, <2>2, <2>3, <2>4 DEF Understood, Caught
<1>6. QED BY <1>3, <1>4, <1>5

(* What is missed leaves it understood, though not all of it. *)
LEMMA UnderstoodLess ==
  ASSUME NEW q \in Reader, NEW p \in Reader, NEW sent, NEW whole, Weaker(q, p),
         Understood(p, sent, whole)
  PROVE  Understood(q, sent, FALSE)
<1>1. Caught(q.parser, sent)
  <2>1. CASE q.parser = p.parser
    BY <2>1 DEF Understood
  <2>2. CASE ~q.parser.sure
    BY <2>2 DEF Caught
  <2>3. QED BY <2>1, <2>2 DEF Weaker
<1>2. AllSent(p.made, sent)
  BY SentInOrder DEF Understood
<1>3. AllSent(q.made, sent)
  <2> SUFFICES ASSUME NEW k \in DOMAIN q.made, q.made[k].sure
               PROVE  IsSent(q.made[k], sent)
    BY DEF AllSent
  <2>1. PICK l \in DOMAIN p.made : p.made[l] = q.made[k]
    BY DEF Weaker, Within
  <2>2. QED BY <1>2, <2>1 DEF AllSent
<1>4. QED BY <1>1, <1>3, SentInOrder DEF Understood, Weaker

-----------------------------------------------------------------------------
(* A packet gives back the bytes that were put into it. *)
LEMMA FilledIs ==
  ASSUME NEW bytes \in Seq(Byte), NEW size \in Nat, Len(bytes) <= size
  PROVE  /\ Filled(bytes, size) \in Seq(Byte \union {Filler})
         /\ Len(bytes) \in Nat /\ Len(bytes) + 1 \in 1..Len(Filled(bytes, size))
         /\ \A k \in 1..Len(bytes) : Filled(bytes, size)[k] = bytes[k]
         /\ Filled(bytes, size)[Len(bytes) + 1] = Filler
<1> DEFINE fill == [k \in 1..size + 1 - Len(bytes) |-> Filler]
           first == bytes \o fill
           last == <<Trailer>>
           B == Byte \union {Filler}
           n == Len(bytes)
<1>1. n \in Nat /\ size + 1 - n \in Nat /\ size + 1 - n >= 1
  OBVIOUS
<1>2. fill \in Seq(B) /\ Len(fill) = size + 1 - n /\ fill[1] = Filler
  <2> HIDE DEF n
  <2>1. fill = [k \in 1..size + 1 - n |-> Filler]
    BY DEF n
  <2> HIDE DEF fill
  <2>2. QED BY <1>1, <2>1
<1>3. Trailer \in B
  BY DEF Trailer, Byte
<1>4. last \in Seq(B) /\ Len(last) = 1
  BY <1>3
<1>5. bytes \in Seq(B)
  OBVIOUS
<1> HIDE DEF fill, last, B
<1>6. /\ first \in Seq(B) /\ Len(first) = n + Len(fill)
      /\ \A i \in 1..n + Len(fill) : first[i] = IF i <= n THEN bytes[i] ELSE fill[i - n]
  BY <1>2, <1>5, ConcatProperties
<1>7. Filled(bytes, size) = first \o last
  BY DEF Filled, fill, last
<1> HIDE DEF first
<1>8. /\ first \o last \in Seq(B) /\ Len(first \o last) = Len(first) + 1
      /\ \A i \in 1..Len(first) + 1 :
           (first \o last)[i] = IF i <= Len(first) THEN first[i] ELSE last[i - Len(first)]
  <2>1. first \in Seq(B)
    BY <1>6
  <2> HIDE DEF n
  <2>2. /\ first \o last \in Seq(B) /\ Len(first \o last) = Len(first) + Len(last)
        /\ \A i \in 1..Len(first) + Len(last) :
             (first \o last)[i] = IF i <= Len(first) THEN first[i] ELSE last[i - Len(first)]
    BY <1>4, <2>1, ConcatProperties
  <2>3. Len(last) = 1
    BY <1>4
  <2>4. QED BY <2>2, <2>3, Zenon
<1> DEFINE packet == first \o last
<1> HIDE DEF packet, n
<1>9. /\ packet \in Seq(B) /\ n + 1 \in 1..Len(packet)
      /\ \A k \in 1..n : packet[k] = bytes[k]
  BY <1>1, <1>2, <1>6, <1>8 DEF packet
<1>10. packet[n + 1] = Filler
  <2>1. n + 1 \in 1..n + Len(fill) /\ n + 1 <= Len(first) /\ ~(n + 1 <= n) /\ (n + 1) - n = 1
        /\ n + 1 \in 1..Len(first) + 1
    BY <1>1, <1>2, <1>6
  <2>2. first[n + 1] = fill[1]
    BY <1>6, <2>1
  <2>3. packet[n + 1] = first[n + 1]
    BY <1>8, <2>1 DEF packet
  <2>4. QED BY <1>2, <2>2, <2>3
<1>11. QED BY <1>1, <1>7, <1>9, <1>10 DEF packet, n, B

LEMMA StrippedIs ==
  ASSUME NEW bytes \in Seq(Byte), NEW size \in Nat, Len(bytes) <= size
  PROVE  Stripped(Filled(bytes, size)) = bytes
<1> DEFINE packet == Filled(bytes, size)
           n == Len(bytes)
           I == {i \in 1..Len(packet) : packet[i] = Filler}
<1>1. /\ packet \in Seq(Byte \union {Filler}) /\ n \in Nat /\ n + 1 \in 1..Len(packet)
      /\ packet[n + 1] = Filler
  BY FilledIs
<1>2. \A k \in 1..n : packet[k] = bytes[k]
  BY FilledIs
<1>3. \A k \in 1..n : bytes[k] # Filler
  <2>1. Filler \notin Byte
    BY DEF Filler, Byte, Gap
  <2>2. QED BY <2>1
<1>4. Stripped(packet) = SubSeq(packet, 1, (IF I # {} THEN Min(I) ELSE 0) - 1)
  BY DEF Stripped, SelectInSeq
<1> HIDE DEF packet, n
<1>5. n + 1 \in I
  BY <1>1
<1>6. \A i \in I : n + 1 <= i
  BY <1>1, <1>2, <1>3
<1>7. Min(I) = n + 1
  <2>1. I \subseteq Int
    OBVIOUS
  <2> HIDE DEF I
  <2>2. \A x \in I : (\A y \in I : x <= y) => x = n + 1
    BY <1>1, <1>5, <1>6, <2>1
  <2>3. QED BY <1>5, <1>6, <2>2 DEF Min
<1>8. Stripped(packet) = SubSeq(packet, 1, n)
  <2>1. I # {} /\ (n + 1) - 1 = n
    BY <1>1, <1>5
  <2> HIDE DEF I
  <2>2. QED BY <1>4, <1>7, <2>1
<1>9. SubSeq(packet, 1, n) = bytes
  <2> DEFINE cut == SubSeq(packet, 1, n)
  <2>1. \A i \in 1..n : packet[i] \in Byte \union {Filler}
    BY <1>1
  <2>2. /\ cut \in Seq(Byte \union {Filler}) /\ Len(cut) = n
        /\ \A i \in 1..n : cut[i] = packet[i]
    BY <1>1, <2>1
  <2> HIDE DEF cut
  <2>3. \A i \in 1..n : cut[i] = bytes[i]
    BY <1>2, <2>2
  <2>4. cut = bytes
    BY <1>1, <2>2, <2>3 DEF n
  <2>5. QED BY <2>4 DEF cut
<1>10. QED BY <1>8, <1>9 DEF packet

(* A sequence of bytes cut in two. *)
LEMMA CutInTwo ==
  ASSUME NEW bytes \in Seq(Byte), NEW n \in 0..Len(bytes)
  PROVE  /\ SubSeq(bytes, 1, n) \in Seq(Byte) /\ Len(SubSeq(bytes, 1, n)) = n
         /\ SubSeq(bytes, n + 1, Len(bytes)) \in Seq(Byte)
         /\ SubSeq(bytes, 1, n) \o SubSeq(bytes, n + 1, Len(bytes)) = bytes
<1>1. Len(bytes) \in Nat /\ 1 \in 1..Len(bytes) + 1 /\ n \in 1 - 1..Len(bytes)
      /\ Len(bytes) \in n..Len(bytes)
  OBVIOUS
<1>2. SubSeq(bytes, 1, n) \o SubSeq(bytes, n + 1, Len(bytes)) = SubSeq(bytes, 1, Len(bytes))
  BY <1>1, ConcatAdjacentSubSeq
<1>3. SubSeq(bytes, 1, Len(bytes)) = bytes
  BY SubSeqFull
<1>4. SubSeq(bytes, 1, n) \in Seq(Byte) /\ Len(SubSeq(bytes, 1, n)) = n
  BY <1>1
<1>5. SubSeq(bytes, n + 1, Len(bytes)) \in Seq(Byte)
  BY <1>1
<1>6. QED BY <1>2, <1>3, <1>4, <1>5

-----------------------------------------------------------------------------
(* A parser never holds more than the message it is in still lacks. *)
Short(parser) == Len(parser.data) + 1 <= Wanted(parser.status)

LEMMA ByteShort ==
  ASSUME NEW got \in Reader, NEW b \in Byte, Short(got.parser)
  PROVE  Short(FeedByte(got, b).parser)
<1> DEFINE st == got.parser.status
           dt == got.parser.data
           new == FeedByte(got, b).parser
<1>1. Len(dt) \in Nat /\ dt \in Seq(Nat) /\ Len(<<>>) = 0
  <2>1. dt \in Seq(Nat)
    BY ReaderHas
  <2> HIDE DEF dt
  <2>2. QED BY <2>1
<1>2. Len(dt) + 1 <= Wanted(st)
  BY DEF Short
<1>3. \A s : Wanted(s) \in {1, 2}
  BY DEF Wanted
<1>4. CASE b = Gap
  <2>1. new = [status |-> st, data |-> dt, sure |-> FALSE]
    BY <1>4, GapHalves
  <2> HIDE DEF new, st, dt
  <2>2. Short(new)
    BY <1>2, <2>1 DEF Short
  <2>3. QED BY <2>2 DEF new
<1>5. ASSUME NEW s \in Statuses, b = Status(s) PROVE Short(new)
  <2>1. new = [status |-> s, data |-> <<>>, sure |-> TRUE]
    BY <1>5, StatusHalves
  <2> HIDE DEF new, st, dt
  <2>2. QED BY <1>1, <1>3, <2>1 DEF Short
<1>6. ASSUME NEW i \in Nat, b = Data(i) PROVE Short(new)
  <2>1. CASE st = "none"
    BY <1>6, <2>1, ReadIdle
  <2>2. ASSUME st # "none", Len(dt) + 1 # Wanted(st) PROVE Short(new)
    <3>1. new = [status |-> st, data |-> Append(dt, i), sure |-> got.parser.sure]
      BY <1>6, <2>2, FirstHalves
    <3> HIDE DEF new, st, dt
    <3>2. Len(Append(dt, i)) = Len(dt) + 1
      BY <1>1
    <3>3. new.data = Append(dt, i) /\ new.status = st
      BY <3>1
    <3>4. QED BY <1>1, <1>2, <1>3, <2>2, <3>2, <3>3 DEF Short
  <2>3. ASSUME st # "none", Len(dt) + 1 = Wanted(st) PROVE Short(new)
    <3>1. new = [status |-> st, data |-> <<>>, sure |-> got.parser.sure]
      BY <1>6, <2>3, LastHalves
    <3> HIDE DEF new, st, dt
    <3>2. new.data = <<>> /\ new.status = st
      BY <3>1
    <3>3. QED BY <1>1, <1>3, <3>2 DEF Short
  <2>4. QED BY <2>1, <2>2, <2>3
<1>7. QED BY <1>4, <1>5, <1>6, ByteIs

LEMMA FeedShort ==
  ASSUME NEW got \in Reader, NEW bytes \in Seq(Byte), Short(got.parser)
  PROVE  Short(Feed(got, bytes).parser)
<1> DEFINE S == {m \in Seq(Byte) : Short(Feed(got, m).parser)}
<1>1. <<>> \in S
  BY FeedNothing
<1>2. ASSUME NEW m \in Seq(Byte), NEW b \in Byte, m \in S PROVE Append(m, b) \in S
  <2>1. Feed(got, m) \in Reader /\ Short(Feed(got, m).parser)
    BY <1>2, FeedReads
  <2>2. Short(FeedByte(Feed(got, m), b).parser)
    BY <2>1, ByteShort
  <2>3. Append(m, b) \in Seq(Byte) /\ Feed(got, Append(m, b)) = FeedByte(Feed(got, m), b)
    BY FeedOneMore
  <2>4. QED BY <2>2, <2>3
<1> HIDE DEF S
<1>3. bytes \in S
  BY <1>1, <1>2, EverySequence
<1>4. QED BY <1>3 DEF S

-----------------------------------------------------------------------------
SurfaceIs == [parser |-> surface, made |-> heard]
PanelIs == [parser |-> panel, made |-> shown]

Typed == TypeOK /\ Short(surface)

LEMMA Readers ==
  ASSUME Typed
  PROVE  /\ SurfaceIs \in Reader /\ SurfaceIs.parser = surface /\ SurfaceIs.made = heard
         /\ PanelIs \in Reader /\ PanelIs.parser = panel /\ PanelIs.made = shown
<1>1. surface \in Parser /\ panel \in Parser
  BY DEF Typed, TypeOK
<1>2. heard \in Seq(Message) /\ shown \in Seq(Message)
  BY DEF Typed, TypeOK
<1>3. QED BY <1>1, <1>2 DEF SurfaceIs, PanelIs, Reader

LEMMA Takes ==
  ASSUME Typed
  PROVE  /\ Taken \in 0..Len(pending) /\ Taken <= PacketOut
         /\ Stripped(Framed) = SubSeq(pending, 1, Taken)
         /\ Stripped(Framed) \in Seq(Byte)
<1>1. pending \in Seq(Byte) /\ PacketOut \in Nat
  BY MidiAssumption DEF Typed, TypeOK
<1>2. Taken \in 0..Len(pending) /\ Taken <= PacketOut
  BY <1>1 DEF Taken, Least
<1> HIDE DEF Taken
<1>3. SubSeq(pending, 1, Taken) \in Seq(Byte) /\ Len(SubSeq(pending, 1, Taken)) = Taken
  BY <1>1, <1>2, CutInTwo
<1>4. Stripped(Framed) = SubSeq(pending, 1, Taken)
  BY <1>1, <1>2, <1>3, StrippedIs DEF Framed
<1>5. QED BY <1>2, <1>3, <1>4

(* What the reader of each stream will have made out when all that is under way
   has reached it. *)
Arriving == Feed(SurfaceIs, midiIn \o line)
Leaving == Feed(PanelIs, pending \o (channel \o (feedback \o events)))

InUnderstood == Understood(Arriving, moved, lost = 0)
OutUnderstood == Understood(Leaving, asked, failed = 0)

MidiInv == Typed /\ InUnderstood /\ OutUnderstood

LEMMA TypedInit == Init => Typed
<1> SUFFICES ASSUME Init PROVE Typed
  OBVIOUS
<1>1. Silent \in Parser
  BY DEF Silent, Parser
<1>2. Len(Silent.data) = 0 /\ Wanted(Silent.status) >= 1
  BY DEF Silent, Wanted
<1>3. TypeOK
  <2>1. /\ moved = <<>> /\ line = <<>> /\ midiIn = <<>> /\ heard = <<>> /\ lost = 0
        /\ asked = <<>> /\ events = <<>> /\ feedback = <<>> /\ channel = <<>>
        /\ pending = <<>> /\ writing = FALSE /\ shown = <<>> /\ failed = 0
        /\ turn = "surface"
    BY DEF Init
  <2>2. surface = Silent /\ panel = Silent
    BY DEF Init
  <2>3. 0 \in 0..MaxLost /\ 0 + 0 <= MaxMessages /\ Len(<<>>) = 0
    BY MidiAssumption
  <2>4. {surface, panel} \subseteq Parser /\ Len(surface.data) <= 1
    BY <1>1, <1>2, <2>2
  <2>5. {moved, asked} \subseteq Seq(Statuses) /\ Len(moved) + Len(asked) <= MaxMessages
    BY <2>1, <2>3
  <2>6. /\ {line, midiIn, events, feedback, channel, pending} \subseteq Seq(Byte)
        /\ {heard, shown} \subseteq Seq(Message)
    BY <2>1
  <2>7. QED BY <2>1, <2>3, <2>4, <2>5, <2>6 DEF TypeOK
<1>4. Short(surface)
  BY <1>2 DEF Init, Short, Wanted
<1>5. QED BY <1>3, <1>4 DEF Typed

LEMMA TypedStep == Typed /\ [Next]_vars => Typed'
<1> SUFFICES ASSUME Typed, [Next]_vars PROVE Typed'
  OBVIOUS
<1> USE MidiAssumption
<1>1. /\ moved \in Seq(Statuses) /\ asked \in Seq(Statuses)
      /\ Len(moved) \in Nat /\ Len(asked) \in Nat /\ Len(moved) + Len(asked) <= MaxMessages
  BY SMTT(30) DEF Typed, TypeOK
<1>2. /\ line \in Seq(Byte) /\ midiIn \in Seq(Byte) /\ events \in Seq(Byte)
      /\ feedback \in Seq(Byte) /\ channel \in Seq(Byte) /\ pending \in Seq(Byte)
  BY DEF Typed, TypeOK
<1>3. surface \in Parser /\ panel \in Parser /\ heard \in Seq(Message) /\ shown \in Seq(Message)
  BY DEF Typed, TypeOK
<1>4. Short(surface) /\ Len(surface.data) <= 1
  BY DEF Typed, TypeOK
<1>5. lost \in 0..MaxLost /\ failed \in 0..MaxLost
  BY DEF Typed, TypeOK
<1>6. /\ writing \in BOOLEAN /\ (writing => pending # <<>>)
      /\ turn \in {"surface", "feedback", "send"} /\ (turn # "send" => feedback = <<>>)
  BY DEF Typed, TypeOK
<1>7. Gap \in Byte
  BY BytesAre
<1>8. ASSUME NEW s \in Statuses, Moves(s) PROVE Typed'
  <2>1. PICK brief \in BOOLEAN : line' = line \o Encoded(moved', Len(moved'), brief)
    BY <1>8 DEF Moves, SameAsLast
  <2>2. moved' = Append(moved, s)
    BY <1>8 DEF Moves
  <2>3. line' \in Seq(Byte)
    <3>1. Encoded(moved', Len(moved'), brief) \in Seq(Byte)
      BY <1>1, <2>2, EncodedIs
    <3> HIDE DEF Encoded
    <3>2. QED BY <1>2, <2>1, <3>1
  <2>4. moved' \in Seq(Statuses) /\ Len(moved') = Len(moved) + 1
    BY <1>1, <2>2
  <2>5. Len(moved') + Len(asked) <= MaxMessages
    BY <1>1, <1>8, <2>4 DEF Moves
  <2>6. UNCHANGED <<midiIn, surface, heard, lost, asked, events, feedback, channel, pending,
                    writing, panel, shown, failed, turn>>
    BY <1>8 DEF Moves, out
  <2>7. TypeOK'
    BY <1>1, <1>2, <1>3, <1>4, <1>5, <1>6, <2>3, <2>4, <2>5, <2>6 DEF TypeOK
  <2>8. QED BY <1>4, <2>6, <2>7 DEF Typed, Short
<1>9. ASSUME NEW s \in Statuses, Asks(s) PROVE Typed'
  <2> DEFINE brief == SameAsLast(asked', Len(asked'))
  <2>1. asked' = Append(asked, s)
        /\ events' = events \o Encoded(asked', Len(asked'), brief)
    BY <1>9 DEF Asks
  <2>2. brief \in BOOLEAN
    BY DEF SameAsLast
  <2> HIDE DEF brief
  <2>3. events' \in Seq(Byte)
    <3>1. Encoded(asked', Len(asked'), brief) \in Seq(Byte)
      BY <1>1, <2>1, <2>2, EncodedIs
    <3> HIDE DEF Encoded
    <3>2. QED BY <1>2, <2>1, <3>1
  <2>4. asked' \in Seq(Statuses) /\ Len(asked') = Len(asked) + 1
    BY <1>1, <2>1
  <2>5. Len(moved) + Len(asked') <= MaxMessages
    BY <1>1, <1>9, <2>4 DEF Asks
  <2>6. UNCHANGED <<moved, line, midiIn, surface, heard, lost, feedback, channel, pending,
                    writing, panel, shown, failed, turn>>
    BY <1>9 DEF Asks, in
  <2>7. TypeOK'
    BY <1>1, <1>2, <1>3, <1>4, <1>5, <1>6, <2>3, <2>4, <2>5, <2>6 DEF TypeOK
  <2>8. QED BY <1>4, <2>6, <2>7 DEF Typed, Short
<1>10. ASSUME NEW n \in 1..PacketIn, Packet(n) PROVE Typed'
  <2> DEFINE first == SubSeq(line, 1, n)
  <2>1. n \in 0..Len(line)
    BY <1>2, <1>10 DEF Packet
  <2>2. first \in Seq(Byte) /\ Len(first) <= PacketIn /\ line' \in Seq(Byte)
    BY <1>2, <1>10, <2>1, CutInTwo, SMTT(30) DEF Packet
  <2> HIDE DEF first
  <2>3. Stripped(Filled(first, PacketIn)) = first
    BY <2>2, StrippedIs
  <2>4. midiIn' = midiIn \o first
    BY <1>10, <2>3 DEF Packet, first
  <2>5. midiIn' \in Seq(Byte)
    BY <1>2, <2>2, <2>4
  <2>6. UNCHANGED <<moved, surface, heard, lost, asked, events, feedback, channel, pending,
                    writing, panel, shown, failed, turn>>
    BY <1>10 DEF Packet, out
  <2>7. TypeOK'
    BY <1>1, <1>2, <1>3, <1>4, <1>5, <1>6, <2>2, <2>5, <2>6 DEF TypeOK
  <2>8. QED BY <1>4, <2>6, <2>7 DEF Typed, Short
<1>11. ASSUME NEW n \in 1..PacketIn, PacketLost(n) PROVE Typed'
  <2>1. n \in 0..Len(line)
    BY <1>2, <1>11 DEF PacketLost
  <2>2. line' \in Seq(Byte)
    BY <1>2, <1>11, <2>1, CutInTwo DEF PacketLost
  <2>3. midiIn' \in Seq(Byte)
    BY <1>2, <1>7, <1>11 DEF PacketLost
  <2>4. lost' \in 0..MaxLost
    BY <1>5, <1>11 DEF PacketLost
  <2>5. UNCHANGED <<moved, surface, heard, asked, events, feedback, channel, pending,
                    writing, panel, shown, failed, turn>>
    BY <1>11 DEF PacketLost, out
  <2>6. TypeOK'
    BY <1>1, <1>2, <1>3, <1>4, <1>5, <1>6, <2>2, <2>3, <2>4, <2>5 DEF TypeOK
  <2>7. QED BY <1>4, <2>5, <2>6 DEF Typed, Short
<1>12. CASE Drain
  <2> DEFINE got == Feed(SurfaceIs, midiIn)
  <2>1. surface' = got.parser /\ heard' = got.made
    BY <1>12 DEF Drain, SurfaceIs
  <2>2. got \in Reader /\ Short(got.parser)
    BY <1>2, <1>4, Readers, FeedReads, FeedShort
  <2> HIDE DEF got
  <2>3. surface' \in Parser /\ heard' \in Seq(Message) /\ Short(surface')
    BY <2>1, <2>2 DEF Reader
  <2>4. Len(surface'.data) <= 1
    <3>1. Len(surface'.data) \in Nat
      BY <2>3 DEF Parser
    <3>2. Wanted(surface'.status) \in {1, 2}
      BY DEF Wanted
    <3>3. QED BY <2>3, <3>1, <3>2 DEF Short
  <2>5. /\ UNCHANGED <<moved, line, lost, asked, events, feedback, channel, pending,
                       writing, panel, shown, failed>>
        /\ midiIn' = <<>> /\ turn = "surface" /\ turn' = "feedback"
    BY <1>12 DEF Drain, Turn, out
  <2>6. TypeOK'
    BY <1>1, <1>2, <1>3, <1>5, <1>6, <2>3, <2>4, <2>5 DEF TypeOK
  <2>7. QED BY <2>3, <2>6 DEF Typed, Short
<1>13. CASE Recv
  <2>1. /\ UNCHANGED <<moved, line, midiIn, surface, heard, lost, asked, channel, pending,
                       writing, panel, shown, failed>>
        /\ feedback' = events /\ events' = <<>> /\ turn' = "send"
    BY <1>13 DEF Recv, Turn, in
  <2>2. TypeOK'
    BY <1>1, <1>2, <1>3, <1>4, <1>5, <1>6, <2>1 DEF TypeOK
  <2>3. QED BY <1>4, <2>1, <2>2 DEF Typed, Short
<1>14. CASE SendByte
  <2>1. /\ UNCHANGED <<moved, line, midiIn, surface, heard, lost, asked, events, pending,
                       writing, panel, shown, failed>>
        /\ feedback # <<>> /\ channel' = Append(channel, Head(feedback))
        /\ feedback' = Tail(feedback) /\ turn' = "send"
    BY <1>14 DEF SendByte, Turn, in
  <2>2. channel' \in Seq(Byte) /\ feedback' \in Seq(Byte)
    BY <1>2, <2>1
  <2>3. TypeOK'
    BY <1>1, <1>2, <1>3, <1>4, <1>5, <1>6, <2>1, <2>2 DEF TypeOK
  <2>4. QED BY <1>4, <2>1, <2>3 DEF Typed, Short
<1>15. CASE Again
  <2>1. /\ UNCHANGED <<moved, line, midiIn, surface, heard, lost, asked, events, feedback,
                       channel, pending, writing, panel, shown, failed>>
        /\ feedback = <<>> /\ turn' = "surface"
    BY <1>15 DEF Again, Turn, in, out
  <2>2. TypeOK'
    BY <1>1, <1>2, <1>3, <1>4, <1>5, <1>6, <2>1 DEF TypeOK
  <2>3. QED BY <1>4, <2>1, <2>2 DEF Typed, Short
<1>16. CASE Collect
  <2>1. /\ UNCHANGED <<moved, line, midiIn, surface, heard, lost, asked, events, feedback,
                       panel, shown, failed, turn>>
        /\ pending' = pending \o channel /\ channel' = <<>> /\ writing' = (pending' # <<>>)
    BY <1>16 DEF Collect, in
  <2>2. pending' \in Seq(Byte)
    BY <1>2, <2>1
  <2>3. TypeOK'
    BY <1>1, <1>2, <1>3, <1>4, <1>5, <1>6, <2>1, <2>2 DEF TypeOK
  <2>4. QED BY <1>4, <2>1, <2>3 DEF Typed, Short
<1>17. ASSUME Write \/ WriteFails PROVE Typed'
  <2>1. PICK bytes \in Seq(Byte) : Reads(bytes)
    <3>1. Stripped(Framed) \in Seq(Byte) /\ Append(Stripped(Framed), Gap) \in Seq(Byte)
          /\ Append(<<>>, Gap) \in Seq(Byte)
      BY <1>7, Takes
    <3>2. QED BY <1>17, <3>1 DEF Write, WriteFails
  <2>2. panel' \in Parser /\ shown' \in Seq(Message)
    <3> DEFINE got == Feed(PanelIs, bytes)
    <3>1. panel' = got.parser /\ shown' = got.made
      BY <2>1 DEF Reads, PanelIs
    <3>2. got \in Reader
      BY Readers, FeedReads
    <3> HIDE DEF got
    <3>3. QED BY <3>1, <3>2 DEF Reader
  <2>3. pending' \in Seq(Byte)
    <3>1. Taken \in 0..Len(pending)
      BY Takes
    <3> HIDE DEF Taken
    <3>2. SubSeq(pending, Taken + 1, Len(pending)) \in Seq(Byte)
      BY <1>2, <3>1, CutInTwo
    <3>3. pending' = SubSeq(pending, Taken + 1, Len(pending)) \/ pending' = <<>>
      BY <1>17 DEF Write, WriteFails, KeepRest, GiveUp
    <3>4. <<>> \in Seq(Byte)
      OBVIOUS
    <3>5. QED BY <3>2, <3>3, <3>4, Zenon
  <2>4. /\ UNCHANGED <<moved, line, midiIn, surface, heard, lost, asked, events, feedback,
                       channel, turn>>
        /\ writing' = FALSE
    BY <1>17 DEF Write, WriteFails, in
  <2>5. failed' \in 0..MaxLost
    BY <1>5, <1>17 DEF Write, WriteFails
  <2>6. TypeOK'
    BY <1>1, <1>2, <1>3, <1>4, <1>5, <1>6, <2>2, <2>3, <2>4, <2>5 DEF TypeOK
  <2>7. QED BY <1>4, <2>4, <2>6 DEF Typed, Short
<1>18. CASE UNCHANGED vars
  <2>1. UNCHANGED <<moved, line, midiIn, surface, heard, lost, asked, events, feedback,
                    channel, pending, writing, panel, shown, failed, turn>>
    BY <1>18 DEF vars, in, out
  <2>2. TypeOK'
    BY <1>1, <1>2, <1>3, <1>4, <1>5, <1>6, <2>1 DEF TypeOK
  <2>3. QED BY <1>4, <2>1, <2>2 DEF Typed, Short
<1>19. QED
  BY <1>8, <1>9, <1>10, <1>11, <1>12, <1>13, <1>14, <1>15, <1>16, <1>17, <1>18
  DEF Next, Main, MidiOut

(* Whatever is sent, lost or in the way, the buffers hold bytes, the parsers are
   within a message, and no write is at work with nothing to write. *)
THEOREM TypeCorrect == Spec => []TypeOK
<1>1. Spec => []Typed
  BY TypedInit, TypedStep, PTL DEF Spec
<1>2. Typed => TypeOK
  BY DEF Typed
<1>3. QED BY <1>1, <1>2, PTL

-----------------------------------------------------------------------------
LEMMA Joins ==
  ASSUME NEW a \in Seq(Byte), NEW b \in Seq(Byte), NEW c \in Seq(Byte)
  PROVE  /\ a \o b \in Seq(Byte) /\ a \o (b \o c) \in Seq(Byte)
         /\ (a \o b) \o c = a \o (b \o c)
         /\ a \o <<>> = a /\ <<>> \o a = a
<1>1. a \o b \in Seq(Byte) /\ b \o c \in Seq(Byte)
  BY ConcatProperties
<1>2. a \o (b \o c) \in Seq(Byte)
  BY <1>1, ConcatProperties
<1>3. (a \o b) \o c = a \o (b \o c)
  BY ConcatAssociative
<1>4. QED BY <1>1, <1>2, <1>3, ConcatEmptySeq

(* Bytes that were lost out of a stream. *)
LEMMA LosesSome ==
  ASSUME NEW got \in Reader, NEW sent, NEW whole,
         NEW before \in Seq(Byte), NEW missed \in Seq(Byte), NEW after \in Seq(Byte),
         Understood(Feed(got, before \o (missed \o after)), sent, whole)
  PROVE  Understood(Feed(got, Append(before, Gap) \o after), sent, FALSE)
<1> DEFINE r == Feed(got, before)
           q == Feed(FeedByte(r, Gap), after)
           p == Feed(r, missed \o after)
<1>1. r \in Reader /\ Gap \in Byte /\ missed \o after \in Seq(Byte)
      /\ Append(before, Gap) \in Seq(Byte)
  BY FeedReads, BytesAre
<1>2. Feed(got, before \o (missed \o after)) = p
  BY <1>1, FeedOn
<1>3. Feed(got, Append(before, Gap) \o after) = q
  <2>1. Feed(got, Append(before, Gap) \o after) = Feed(Feed(got, Append(before, Gap)), after)
    BY <1>1, FeedOn
  <2>2. Feed(got, Append(before, Gap)) = FeedByte(r, Gap)
    BY <1>1, FeedOneMore
  <2>3. QED BY <2>1, <2>2
<1>4. q \in Reader /\ p \in Reader
  BY <1>1, FeedReads, ReadByte
<1>5. InOrder(p.made)
  BY <1>2, SentInOrder DEF Understood
<1> HIDE DEF r
<1>6. Weaker(q, p)
  BY <1>1, <1>5, GapWeaker
<1> HIDE DEF q, p
<1>7. QED BY <1>2, <1>3, <1>4, <1>6, UnderstoodLess

LEMMA UnderstoodInit == Init => InUnderstood /\ OutUnderstood
<1> SUFFICES ASSUME Init PROVE InUnderstood /\ OutUnderstood
  OBVIOUS
<1>1. <<>> \o <<>> = <<>> /\ <<>> \o (<<>> \o (<<>> \o <<>>)) = <<>>
  OBVIOUS
<1>2. Arriving = [parser |-> Silent, made |-> <<>>]
  BY <1>1, FeedNothing DEF Init, Arriving, SurfaceIs
<1>3. Leaving = [parser |-> Silent, made |-> <<>>]
  BY <1>1, FeedNothing DEF Init, Leaving, PanelIs
<1>4. Caught(Silent, <<>>) /\ Silent.sure
  BY DEF Caught, Silent, LastStatus
<1>5. OnlyWhatWasSent(<<>>, <<>>)
  BY DEF OnlyWhatWasSent
<1>6. Len(<<>>) = Cardinality(Controls(<<>>))
  <2>1. Controls(<<>>) = {}
    BY DEF Controls
  <2>2. QED BY <2>1, FS_EmptySet
<1>7. ASSUME NEW whole PROVE Understood([parser |-> Silent, made |-> <<>>], <<>>, whole)
  <2>1. /\ [parser |-> Silent, made |-> <<>>].parser = Silent
        /\ [parser |-> Silent, made |-> <<>>].made = <<>>
    OBVIOUS
  <2>2. QED BY <2>1, <1>4, <1>5, <1>6, Zenon DEF Understood
<1>8. moved = <<>> /\ asked = <<>>
  BY DEF Init
<1>9. QED BY <1>2, <1>3, <1>7, <1>8 DEF InUnderstood, OutUnderstood

LEMMA InStep == Typed /\ InUnderstood /\ [Next]_vars => InUnderstood'
<1> SUFFICES ASSUME Typed, InUnderstood, [Next]_vars PROVE InUnderstood'
  OBVIOUS
<1>1. moved \in Seq(Statuses) /\ line \in Seq(Byte) /\ midiIn \in Seq(Byte)
      /\ lost \in 0..MaxLost
  BY DEF Typed, TypeOK
<1>2. SurfaceIs \in Reader
  BY Readers
<1>3. Understood(Arriving, moved, lost = 0)
  BY DEF InUnderstood
<1>4. ASSUME UNCHANGED in PROVE InUnderstood'
  BY <1>4 DEF in, InUnderstood, Arriving, SurfaceIs
<1>5. ASSUME NEW s \in Statuses, Moves(s) PROVE InUnderstood'
  <2>1. PICK brief \in {FALSE, SameAsLast(moved', Len(moved'))} :
          line' = line \o Encoded(moved', Len(moved'), brief)
    BY <1>5 DEF Moves
  <2>2. brief \in BOOLEAN /\ (brief => SameAsLast(moved', Len(moved')))
    BY DEF SameAsLast
  <2>3. moved' = Append(moved, s) /\ UNCHANGED <<midiIn, surface, heard, lost>>
    BY <1>5 DEF Moves
  <2> DEFINE more == Encoded(Append(moved, s), Len(Append(moved, s)), brief)
  <2>4. more \in Seq(Byte)
    BY <1>1, <2>2, EncodedIs
  <2>5. s # "none"
    BY MidiAssumption
  <2>6. Arriving \in Reader
    <3>1. midiIn \o line \in Seq(Byte)
      BY <1>1, ConcatProperties
    <3>2. QED BY <1>2, <3>1, FeedReads DEF Arriving
  <2>7. Understood(Feed(Arriving, more), Append(moved, s), lost = 0)
    BY <1>1, <1>3, <2>2, <2>3, <2>5, <2>6, UnderstoodMore
  <2>8. line' = line \o more
    BY <2>1, <2>3
  <2> HIDE DEF more
  <2>9. midiIn \o (line \o more) = (midiIn \o line) \o more /\ midiIn \o line \in Seq(Byte)
    BY <1>1, <2>4, ConcatAssociative, SMTT(30)
  <2>10. Arriving' = Feed(Arriving, more)
    <3>1. SurfaceIs' = SurfaceIs
      BY <2>3 DEF SurfaceIs
    <3>2. Arriving' = Feed(SurfaceIs, midiIn \o (line \o more))
      BY <2>3, <2>8, <3>1 DEF Arriving
    <3>3. Feed(SurfaceIs, (midiIn \o line) \o more) = Feed(Arriving, more)
      BY <2>4, <2>9, FeedOn DEF Arriving
    <3>4. QED BY <2>9, <3>2, <3>3
  <2>11. QED BY <2>3, <2>7, <2>10 DEF InUnderstood
<1>6. ASSUME NEW n \in 1..PacketIn, Packet(n) PROVE InUnderstood'
  <2> DEFINE first == SubSeq(line, 1, n)
             rest == SubSeq(line, n + 1, Len(line))
  <2>1. n \in 0..Len(line) /\ PacketIn \in Nat
    BY <1>1, <1>6, MidiAssumption DEF Packet
  <2>2. first \in Seq(Byte) /\ rest \in Seq(Byte) /\ Len(first) <= PacketIn
        /\ first \o rest = line
    BY <1>1, <2>1, CutInTwo
  <2>3. Stripped(Filled(first, PacketIn)) = first
    <3> HIDE DEF first
    <3>1. QED BY <2>1, <2>2, StrippedIs
  <2>4. /\ midiIn' = midiIn \o first /\ line' = rest
        /\ UNCHANGED <<moved, surface, heard, lost>>
    BY <1>6, <2>3 DEF Packet
  <2> HIDE DEF first, rest
  <2>5. midiIn' \o line' = midiIn \o line
    <3>1. midiIn \in Seq(Byte) /\ first \in Seq(Byte) /\ rest \in Seq(Byte)
      BY <1>1, <2>2
    <3>2. (midiIn \o first) \o rest = midiIn \o (first \o rest)
      BY <3>1, Joins
    <3>3. QED BY <2>2, <2>4, <3>2
  <2>6. QED BY <2>4, <2>5 DEF InUnderstood, Arriving, SurfaceIs
<1>7. ASSUME NEW n \in 1..PacketIn, PacketLost(n) PROVE InUnderstood'
  <2> DEFINE first == SubSeq(line, 1, n)
             rest == SubSeq(line, n + 1, Len(line))
  <2>1. n \in 0..Len(line)
    BY <1>1, <1>7 DEF PacketLost
  <2>2. first \in Seq(Byte) /\ rest \in Seq(Byte) /\ first \o rest = line
    BY <1>1, <2>1, CutInTwo
  <2>3. /\ midiIn' = Append(midiIn, Gap) /\ line' = rest /\ lost' = lost + 1
        /\ UNCHANGED <<moved, surface, heard>>
    BY <1>7 DEF PacketLost
  <2> HIDE DEF first, rest
  <2>4. Understood(Feed(SurfaceIs, midiIn \o (first \o rest)), moved, lost = 0)
    BY <1>3, <2>2 DEF Arriving
  <2>5. Understood(Feed(SurfaceIs, Append(midiIn, Gap) \o rest), moved, FALSE)
    BY <1>1, <1>2, <2>2, <2>4, LosesSome
  <2>6. (lost' = 0) = FALSE
    BY <1>1, <2>3
  <2>7. Arriving' = Feed(SurfaceIs, Append(midiIn, Gap) \o rest)
    BY <2>3 DEF Arriving, SurfaceIs
  <2>8. QED BY <2>3, <2>5, <2>6, <2>7 DEF InUnderstood, Understood
<1>8. ASSUME Drain PROVE InUnderstood'
  <2> DEFINE got == Feed(SurfaceIs, midiIn)
  <2>1. /\ surface' = got.parser /\ heard' = got.made /\ midiIn' = <<>>
        /\ UNCHANGED <<moved, line, lost>>
    BY <1>8 DEF Drain, SurfaceIs
  <2>2. got \in Reader
    BY <1>1, <1>2, FeedReads
  <2>3. Feed(SurfaceIs, midiIn \o line) = Feed(got, line)
    BY <1>1, FeedOn
  <2> HIDE DEF got
  <2>4. SurfaceIs' = got
    BY <2>1, <2>2, ReaderHas DEF SurfaceIs
  <2>5. <<>> \o line = line
    BY <1>1, ConcatEmptySeq
  <2>6. Arriving' = Feed(got, line)
    BY <2>1, <2>4, <2>5 DEF Arriving
  <2>7. QED BY <2>1, <2>3, <2>6 DEF InUnderstood, Arriving
<1>9. QED
  BY <1>4, <1>5, <1>6, <1>7, <1>8
  DEF Next, Main, MidiOut, Asks, Recv, SendByte, Again, Collect, Write, WriteFails, vars

(* The bytes for the device that are not in run_midi_out's hands yet. *)
Behind == channel \o (feedback \o events)

LEMMA LeavingIs ==
  ASSUME Typed
  PROVE  /\ Behind \in Seq(Byte) /\ pending \in Seq(Byte) /\ PanelIs \in Reader
         /\ Leaving = Feed(PanelIs, pending \o Behind) /\ Leaving \in Reader
<1>1. /\ channel \in Seq(Byte) /\ feedback \in Seq(Byte) /\ events \in Seq(Byte)
      /\ pending \in Seq(Byte)
  BY DEF Typed, TypeOK
<1>2. Behind \in Seq(Byte)
  BY <1>1, Joins DEF Behind
<1>3. PanelIs \in Reader
  BY Readers
<1>4. Leaving = Feed(PanelIs, pending \o Behind)
  BY DEF Leaving, Behind
<1>5. pending \o Behind \in Seq(Byte)
  BY <1>1, <1>2, Joins
<1>6. QED BY <1>1, <1>2, <1>3, <1>4, <1>5, FeedReads

LEMMA OutStep == Typed /\ OutUnderstood /\ [Next]_vars => OutUnderstood'
<1> SUFFICES ASSUME Typed, OutUnderstood, [Next]_vars PROVE OutUnderstood'
  OBVIOUS
<1>1. /\ asked \in Seq(Statuses) /\ events \in Seq(Byte) /\ feedback \in Seq(Byte)
      /\ channel \in Seq(Byte) /\ failed \in 0..MaxLost
  BY DEF Typed, TypeOK
<1>2. /\ Behind \in Seq(Byte) /\ pending \in Seq(Byte) /\ PanelIs \in Reader
      /\ Leaving = Feed(PanelIs, pending \o Behind) /\ Leaving \in Reader
  BY LeavingIs
<1>3. Understood(Leaving, asked, failed = 0)
  BY DEF OutUnderstood
<1>a. channel \in Seq(Byte)
  BY <1>1
<1>b. feedback \in Seq(Byte)
  BY <1>1
<1>c. events \in Seq(Byte)
  BY <1>1
<1>d. pending \in Seq(Byte)
  BY <1>2
<1>e. Behind \in Seq(Byte)
  BY <1>2
(* A step that only moves bytes on. *)
<1>4. ASSUME pending' \o Behind' = pending \o Behind,
             UNCHANGED <<panel, shown, asked, failed>>
      PROVE  OutUnderstood'
  <2>1. Leaving' = Feed(PanelIs', pending' \o Behind')
    BY DEF Leaving, Behind
  <2>2. PanelIs' = PanelIs
    BY <1>4 DEF PanelIs
  <2>3. Leaving' = Leaving
    BY <1>2, <1>4, <2>1, <2>2
  <2>4. QED BY <1>4, <2>3 DEF OutUnderstood
<1>5. ASSUME UNCHANGED out PROVE OutUnderstood'
  <2>1. UNCHANGED <<panel, shown, asked, failed, pending, channel, feedback, events>>
    BY <1>5 DEF out
  <2>2. pending' \o Behind' = pending \o Behind
    BY <2>1 DEF Behind
  <2>3. QED BY <1>4, <2>1, <2>2
<1>6. ASSUME NEW s \in Statuses, Asks(s) PROVE OutUnderstood'
  <2> DEFINE brief == SameAsLast(Append(asked, s), Len(Append(asked, s)))
             more == Encoded(Append(asked, s), Len(Append(asked, s)), brief)
  <2>1. /\ asked' = Append(asked, s) /\ events' = events \o more
        /\ UNCHANGED <<feedback, channel, pending, panel, shown, failed>>
    BY <1>6 DEF Asks
  <2>2. brief \in BOOLEAN
    BY DEF SameAsLast
  <2>3. more \in Seq(Byte)
    <3> HIDE DEF brief
    <3>1. QED BY <1>1, <2>2, EncodedIs
  <2>4. s # "none"
    BY MidiAssumption
  <2>5. Understood(Feed(Leaving, more), Append(asked, s), failed = 0)
    <3>1. brief => SameAsLast(Append(asked, s), Len(Append(asked, s)))
      OBVIOUS
    <3> HIDE DEF brief
    <3>2. QED BY <1>1, <1>2, <1>3, <2>2, <2>4, <3>1, UnderstoodMore
  <2> HIDE DEF more
  <2>6. Behind' = Behind \o more
    <3>1. feedback \o (events \o more) = (feedback \o events) \o more
          /\ feedback \o events \in Seq(Byte)
      BY <1>b, <1>c, <2>3, Joins
    <3>2. channel \o ((feedback \o events) \o more) = (channel \o (feedback \o events)) \o more
      BY <1>a, <2>3, <3>1, Joins, SMTT(30)
    <3>3. QED BY <2>1, <3>1, <3>2 DEF Behind
  <2>7. pending \o (Behind \o more) = (pending \o Behind) \o more
        /\ pending \o Behind \in Seq(Byte)
    BY <1>2, <2>3, Joins
  <2>8. Leaving' = Feed(PanelIs, (pending \o Behind) \o more)
    <3>1. Leaving' = Feed(PanelIs', pending' \o Behind')
      BY DEF Leaving, Behind
    <3>2. PanelIs' = PanelIs
      BY <2>1 DEF PanelIs
    <3>3. QED BY <2>1, <2>6, <2>7, <3>1, <3>2
  <2>9. Leaving' = Feed(Leaving, more)
    BY <1>2, <2>3, <2>7, <2>8, FeedOn
  <2>10. QED BY <2>1, <2>5, <2>9 DEF OutUnderstood
<1>7. ASSUME Recv PROVE OutUnderstood'
  <2>1. /\ feedback' = events /\ events' = <<>>
        /\ UNCHANGED <<channel, pending, panel, shown, asked, failed>>
    BY <1>7 DEF Recv
  <2>2. feedback = <<>>
    BY <1>7 DEF Recv, Turn, Typed, TypeOK
  <2>3. events \o <<>> = events /\ <<>> \o events = events
    BY <1>1, Joins
  <2>4. Behind' = Behind
    BY <2>1, <2>2, <2>3 DEF Behind
  <2>5. QED BY <1>4, <2>1, <2>4
<1>8. ASSUME SendByte PROVE OutUnderstood'
  <2> DEFINE b == Head(feedback)
             rest == Tail(feedback)
             one == <<b>>
  <2>1. /\ feedback # <<>> /\ channel' = Append(channel, b) /\ feedback' = rest
        /\ UNCHANGED <<events, pending, panel, shown, asked, failed>>
    BY <1>8 DEF SendByte
  <2>2. b \in Byte /\ rest \in Seq(Byte)
    BY <1>1, <2>1
  <2>3. feedback = one \o rest /\ one \in Seq(Byte)
    <3>1. one \in Seq(Byte)
      BY <2>2
    <3>2. one \o rest \in Seq(Byte) /\ Len(one \o rest) = Len(feedback)
      BY <1>1, <2>1, <2>2
    <3>3. \A i \in 1..Len(feedback) : (one \o rest)[i] = feedback[i]
      BY <1>1, <2>1, <2>2
    <3>4. QED BY <1>1, <3>1, <3>2, <3>3
  <2>4. Append(channel, b) = channel \o one
    BY <1>1, <2>2, AppendIsConcat
  <2>a. rest \in Seq(Byte)
    BY <2>2
  <2>b. one \in Seq(Byte)
    BY <2>3
  <2> HIDE DEF one, rest, b
  <2>5. Behind' = Behind
    <3>1. /\ (channel \o one) \o (rest \o events) = channel \o (one \o (rest \o events))
          /\ one \o (rest \o events) = (one \o rest) \o events
      <4>1. rest \o events \in Seq(Byte)
        BY <1>c, <2>a, Joins
      <4>2. (channel \o one) \o (rest \o events) = channel \o (one \o (rest \o events))
        BY <1>a, <2>b, <4>1, Joins, SMTT(30)
      <4>3. one \o (rest \o events) = (one \o rest) \o events
        BY <1>c, <2>a, <2>b, Joins
      <4>4. QED BY <4>2, <4>3
    <3>2. Behind' = (channel \o one) \o (rest \o events)
      BY <2>1, <2>4 DEF Behind
    <3>3. QED BY <2>3, <3>1, <3>2 DEF Behind
  <2>6. QED BY <1>4, <2>1, <2>5
<1>9. ASSUME Collect PROVE OutUnderstood'
  <2>1. /\ pending' = pending \o channel /\ channel' = <<>>
        /\ UNCHANGED <<feedback, events, panel, shown, asked, failed>>
    BY <1>9 DEF Collect
  <2>2. feedback \o events \in Seq(Byte)
    BY <1>1, Joins
  <2>3. <<>> \o (feedback \o events) = feedback \o events
    BY <2>2, Joins
  <2>4. (pending \o channel) \o (feedback \o events) = pending \o (channel \o (feedback \o events))
    BY <1>a, <1>d, <2>2, Joins, SMTT(30)
  <2>5. pending' \o Behind' = pending \o Behind
    BY <2>1, <2>3, <2>4 DEF Behind
  <2>6. QED BY <1>4, <2>1, <2>5
<1>10. Taken \in 0..Len(pending) /\ Stripped(Framed) = SubSeq(pending, 1, Taken)
  BY Takes
<1> DEFINE first == SubSeq(pending, 1, Taken)
           rest == SubSeq(pending, Taken + 1, Len(pending))
<1>11. first \in Seq(Byte) /\ rest \in Seq(Byte) /\ first \o rest = pending
  <2> HIDE DEF Taken
  <2>1. QED BY <1>2, <1>10, CutInTwo
<1>12. Stripped(Framed) = first
  BY <1>10
<1>13. pending \o Behind = first \o (rest \o Behind)
  <2> HIDE DEF first, rest
  <2>1. first \in Seq(Byte)
    BY <1>11
  <2>2. rest \in Seq(Byte)
    BY <1>11
  <2>3. (first \o rest) \o Behind = first \o (rest \o Behind)
    BY <1>e, <2>1, <2>2, Joins
  <2>4. QED BY <1>11, <2>3
(* The device reads some bytes. *)
<1>14. ASSUME NEW bytes \in Seq(Byte), Reads(bytes)
       PROVE  PanelIs' = Feed(PanelIs, bytes)
  <2> DEFINE got == Feed(PanelIs, bytes)
  <2>1. panel' = got.parser /\ shown' = got.made
    BY <1>14 DEF Reads, PanelIs
  <2>2. got \in Reader
    BY <1>2, FeedReads
  <2> HIDE DEF got
  <2>3. PanelIs' = got
    BY <2>1, <2>2, ReaderHas DEF PanelIs
  <2>4. QED BY <2>3 DEF got
<1>15. ASSUME Write PROVE OutUnderstood'
  <2>1. /\ Reads(first) /\ pending' = rest
        /\ UNCHANGED <<channel, feedback, events, asked, failed>>
    BY <1>12, <1>15 DEF Write, KeepRest
  <2> HIDE DEF first, rest
  <2>2. PanelIs' = Feed(PanelIs, first)
    BY <1>11, <1>14, <2>1
  <2>3. rest \o Behind \in Seq(Byte)
    BY <1>2, <1>11, Joins
  <2>4. Leaving' = Feed(Feed(PanelIs, first), rest \o Behind)
    BY <2>1, <2>2 DEF Leaving, Behind
  <2>5. Leaving' = Leaving
    <3>1. first \in Seq(Byte)
      BY <1>11
    <3>2. Feed(PanelIs, first \o (rest \o Behind)) = Feed(Feed(PanelIs, first), rest \o Behind)
      BY <2>3, <3>1, FeedOn
    <3>3. QED BY <1>2, <1>13, <2>4, <3>2
  <2>6. QED BY <2>1, <2>5 DEF OutUnderstood
<1>16. ASSUME WriteFails PROVE OutUnderstood'
  <2>1. /\ pending' = <<>> /\ failed' = failed + 1
        /\ UNCHANGED <<channel, feedback, events, asked>>
    BY <1>16 DEF WriteFails, GiveUp
  <2>2. PICK arrived \in {<<>>, first} : Reads(Append(arrived, Gap))
    BY <1>12, <1>16 DEF WriteFails
  <2> HIDE DEF first, rest
  <2>3. Gap \in Byte
    BY BytesAre
  <2>4. \E missed \in Seq(Byte) : pending \o Behind = arrived \o (missed \o Behind)
    <3>1. CASE arrived = first
      BY <1>11, <1>13, <3>1
    <3>2. CASE arrived = <<>>
      <4>1. pending \o Behind \in Seq(Byte)
        BY <1>2, Joins
      <4>2. <<>> \o (pending \o Behind) = pending \o Behind
        BY <4>1, Joins
      <4>3. QED BY <1>2, <3>2, <4>2
    <3>3. QED BY <2>2, <3>1, <3>2
  <2>5. PICK missed \in Seq(Byte) : pending \o Behind = arrived \o (missed \o Behind)
    BY <2>4
  <2>6. arrived \in Seq(Byte) /\ Append(arrived, Gap) \in Seq(Byte)
    <3>1. first \in Seq(Byte) /\ <<>> \in Seq(Byte)
      BY <1>11
    <3>2. arrived \in Seq(Byte)
      BY <2>2, <3>1, Zenon
    <3>3. QED BY <2>3, <3>2
  <2>7. Understood(Feed(PanelIs, arrived \o (missed \o Behind)), asked, failed = 0)
    BY <1>2, <1>3, <2>5
  <2>8. Understood(Feed(PanelIs, Append(arrived, Gap) \o Behind), asked, FALSE)
    BY <1>2, <2>5, <2>6, <2>7, LosesSome
  <2>9. PanelIs' = Feed(PanelIs, Append(arrived, Gap))
    BY <1>14, <2>2, <2>6
  <2>10. <<>> \o Behind = Behind /\ Behind' = Behind
    <3>1. <<>> \o Behind = Behind
      BY <1>2, Joins
    <3>2. QED BY <2>1, <3>1 DEF Behind
  <2>11. Leaving' = Feed(PanelIs', pending' \o Behind')
    BY DEF Leaving, Behind
  <2>12. Leaving' = Feed(Feed(PanelIs, Append(arrived, Gap)), Behind)
    BY <2>1, <2>9, <2>10, <2>11
  <2>13. Leaving' = Feed(PanelIs, Append(arrived, Gap) \o Behind)
    BY <1>2, <2>6, <2>12, FeedOn
  <2>14. (failed' = 0) = FALSE
    BY <1>1, <2>1
  <2>15. QED BY <2>1, <2>8, <2>13, <2>14 DEF OutUnderstood, Understood
<1>17. QED
  BY <1>5, <1>6, <1>7, <1>8, <1>9, <1>15, <1>16
  DEF Next, Main, MidiOut, Moves, Packet, PacketLost, Drain, Again, vars

-----------------------------------------------------------------------------
(* What has been made out so far is where the whole stream's messages begin. *)
LEMMA SentSoFar ==
  ASSUME NEW got \in Reader, NEW bytes \in Seq(Byte), NEW sent, NEW whole,
         Understood(Feed(got, bytes), sent, whole)
  PROVE  OnlyWhatWasSent(got.made, sent)
<1> DEFINE new == Feed(got, bytes)
<1>1. new \in Reader /\ Grows(got.made, new.made)
  BY FeedReads, FeedGrows
<1>2. AllSent(new.made, sent) /\ InOrder(new.made)
  BY SentInOrder DEF Understood
<1> HIDE DEF new
<1>3. got.made \in Seq(Message) /\ new.made \in Seq(Message)
  BY <1>1, ReaderHas
<1>4. InOrder(got.made)
  BY <1>1, <1>2, <1>3, EarlierInOrder
<1>5. \A k \in DOMAIN got.made : k \in DOMAIN new.made /\ new.made[k] = got.made[k]
  BY <1>1, <1>3 DEF Grows
<1>6. AllSent(got.made, sent)
  BY <1>2, <1>5 DEF AllSent
<1>7. QED BY <1>4, <1>6, SentInOrder

LEMMA MidiInvariant == Spec => []MidiInv
<1>1. Init => MidiInv
  BY TypedInit, UnderstoodInit DEF MidiInv
<1>2. MidiInv /\ [Next]_vars => MidiInv'
  BY TypedStep, InStep, OutStep DEF MidiInv
<1>3. QED BY <1>1, <1>2, PTL DEF Spec

(* Surface makes out what the panel sent and the device what the host sent, each
   message once and in order, however the streams are cut, drained and collected,
   and again so after a loss from the next status on. *)
THEOREM ReadAsSent == Spec => []AsSent
<1>1. MidiInv => AsSent
  <2> SUFFICES ASSUME MidiInv PROVE AsSent
    OBVIOUS
  <2>1. Typed
    BY DEF MidiInv
  <2>2. midiIn \o line \in Seq(Byte)
    BY <2>1, Joins DEF Typed, TypeOK
  <2>3. OnlyWhatWasSent(heard, moved)
    BY <2>1, <2>2, Readers, SentSoFar DEF MidiInv, InUnderstood, Arriving
  <2>4. pending \o Behind \in Seq(Byte)
    BY <2>1, LeavingIs, Joins
  <2>5. Understood(Feed(PanelIs, pending \o Behind), asked, failed = 0)
    BY <2>1, LeavingIs DEF MidiInv, OutUnderstood
  <2>6. OnlyWhatWasSent(shown, asked)
    BY <2>1, <2>4, <2>5, Readers, SentSoFar
  <2>7. QED BY <2>3, <2>6 DEF AsSent
<1>2. QED BY <1>1, MidiInvariant, PTL

(* Nothing stays behind: a stream that is empty and has lost nothing has brought
   every control's message. *)
THEOREM NothingIsLeft == Spec => []NothingLeftBehind
<1>1. MidiInv => NothingLeftBehind
  <2> SUFFICES ASSUME MidiInv PROVE NothingLeftBehind
    OBVIOUS
  <2>1. Typed
    BY DEF MidiInv
  <2>2. /\ line \in Seq(Byte) /\ midiIn \in Seq(Byte) /\ events \in Seq(Byte)
        /\ feedback \in Seq(Byte) /\ channel \in Seq(Byte) /\ pending \in Seq(Byte)
    BY <2>1 DEF Typed, TypeOK
  <2>3. ASSUME line \o midiIn = <<>>, lost = 0
        PROVE  Len(heard) = Cardinality(Controls(moved))
    <3>1. line = <<>> /\ midiIn = <<>>
      BY <2>2, <2>3, ConcatEqualIffEmpty
    <3>2. midiIn \o line = <<>>
      BY <3>1
    <3>3. Arriving = SurfaceIs
      BY <3>2, FeedNothing DEF Arriving
    <3>4. Understood(SurfaceIs, moved, TRUE)
      BY <2>3, <3>3 DEF MidiInv, InUnderstood, Understood
    <3>5. QED BY <2>1, <3>4, Readers DEF Understood
  <2>4. ASSUME events \o feedback \o channel \o pending = <<>>, failed = 0
        PROVE  Len(shown) = Cardinality(Controls(asked))
    <3>1. events = <<>> /\ feedback = <<>> /\ channel = <<>> /\ pending = <<>>
      <4>1. events \o feedback \in Seq(Byte) /\ (events \o feedback) \o channel \in Seq(Byte)
        BY <2>2, ConcatProperties
      <4>2. (events \o feedback) \o channel = <<>> /\ pending = <<>>
        BY <2>2, <2>4, <4>1, ConcatEqualIffEmpty
      <4>3. events \o feedback = <<>> /\ channel = <<>>
        BY <2>2, <4>1, <4>2, ConcatEqualIffEmpty
      <4>4. events = <<>> /\ feedback = <<>>
        BY <2>2, <4>3, ConcatEqualIffEmpty
      <4>5. QED BY <4>2, <4>3, <4>4
    <3>2. pending \o (channel \o (feedback \o events)) = <<>>
      BY <3>1
    <3>3. Leaving = PanelIs
      BY <3>2, FeedNothing DEF Leaving
    <3>4. Understood(PanelIs, asked, TRUE)
      BY <2>4, <3>3 DEF MidiInv, OutUnderstood, Understood
    <3>5. QED BY <2>1, <3>4, Readers DEF Understood
  <2>5. QED BY <2>3, <2>4 DEF NothingLeftBehind
<1>2. QED BY <1>1, MidiInvariant, PTL
=============================================================================
