---------------------------- MODULE SessionProofs ----------------------------
(***************************************************************************)
(* The log of a session is the tape, whatever the WebSocket and REST show; *)
(* its alarms are true; and every connection is verified before it is      *)
(* used.                                                                   *)
(***************************************************************************)
EXTENDS SessionProperties, SequenceTheorems, FiniteSetTheorems, NatSetLemmas, TLAPS

Line == {"tick", "time"} \X Nat

\* The candles of some minutes.
Held == UNION {[minutes -> SUBSET Nat] : minutes \in SUBSET Int}

Memory ==
    [pc : {"take", "advance", "drain", "close", "stopped"}, aggregate : SUBSET Nat,
     pending : SUBSET Nat, candles : Held, watermark : Int, forward : Int, closing : Int,
     verified : {0, 1, 2}]
Messages == [connected : BOOLEAN, source : {0, 1}]

Types ==
    /\ tape \in Seq(Nat) /\ mode \in {"bars", "range", "fence", "aggregate"}
    /\ source \in {0, 1} /\ queue \in Seq(Messages)
    /\ log \in Seq(Line) /\ predecessor \in Nat /\ mem \in Memory
    /\ proofs \in [Minutes -> SUBSET Nat] /\ trailed \in SUBSET Int

\* The lines of a kind before the n-th, and what they say.
Before(lines, n, kind) == {k \in OfKind(lines, kind) : k < n}
Told(lines, n, kind) == {lines[k][2] : k \in Before(lines, n, kind)}

\* The minutes that may lack a print: it is behind the fence, and either the candle is not the
\* sum of the prints, or the row that judged the minute trailed.
Excused(m, late) ==
    \/ mode = "bars"
    \/ ~ Chronological /\ (mode = "aggregate" \/ m \in late)

\* What precedes the n-th line is a run of ids from the predecessor on, whose matched time does
\* not go back, and a run of minutes from the start on, all whose prints are among the ids.
Chain(lines, p, n, late) ==
    /\ Told(lines, n, "tick") = p + 1 .. p + Cardinality(Before(lines, n, "tick"))
    /\ Told(lines, n, "time") = Start .. Start + Cardinality(Before(lines, n, "time")) - 1
    /\ \A i, j \in Told(lines, n, "tick") : i <= j => Ts(i) <= Ts(j)
    /\ \A m \in Told(lines, n, "time") : Excused(m, late) \/ Candle(m) \subseteq Told(lines, n, "tick")

\* The n-th line goes on with the runs: a print of the open minute, or its end.
Extends(lines, p, n) ==
    LET open == Start + Cardinality(Before(lines, n, "time"))
    IN  /\ lines[n][1] = "tick" =>
               /\ lines[n][2] = p + 1 + Cardinality(Before(lines, n, "tick"))
               /\ lines[n][2] \in Ids /\ MinuteOf(lines[n][2]) = open
        /\ lines[n][1] = "time" => lines[n][2] = open

Sound(lines, p, late) ==
    /\ \A n \in 1..Len(lines) + 1 : Chain(lines, p, n, late)
    /\ \A n \in 1..Len(lines) : Extends(lines, p, n)

Count(lines, kind) == Cardinality(OfKind(lines, kind))
CutOf(lines) == Start + Count(lines, "time")
NextOf(lines, p) == p + Count(lines, "tick") + 1

\* The predecessor is the last print before the start.
Anchored(lines, p) ==
    /\ p # 0 =>
           \/ p \in Predecessors
           \/ mode = "range" /\ Candle(Start) # {} /\ p = Min(Candle(Start)) - 1
    /\ p = 0 /\ mode # "bars" => lines = <<>>

\* What the process has in hand belongs to the open minute and to its session.
InHand(new, lines, p) ==
    /\ new.pc = "advance" => mode \in Fences
    /\ new.pc = "drain" => mode = "range"
    /\ new.pc = "close" => mode \in {"range", "bars"} /\ new.closing \in CutOf(lines)..LastMinute
    /\ new.pending \subseteq Ids /\ (new.pending # {} => p # 0)
    /\ new.pc # "stopped" /\ mode # "bars" => new.aggregate = Ticks(lines) \cap Candle(CutOf(lines))
    /\ Chronological => \A i \in new.pending : i >= NextOf(lines, p)

\* A row that is not the minute's candle was one that trailed: among what each closed minute was
\* closed with, and among the candles in hand.
Right(m, row, late) == m \in Start..LastMinute /\ (row = Candle(m) \/ m \in late)
Kept(lines, closed, late) == \A m \in Start..CutOf(lines) - 1 : Right(m, closed[m], late)
InStock(candles, late) == \A m \in DOMAIN candles : Right(m, candles[m], late)

SessionInv ==
    /\ Types /\ Sound(log, predecessor, trailed) /\ Anchored(log, predecessor)
    /\ InHand(mem, log, predecessor) /\ Kept(log, proofs, trailed)
    /\ InStock(mem.candles, trailed) /\ AlarmsAreTrue

----------------------------------------------------------------------------
(* Arithmetic.                                                             *)

\* A minute is not left backwards while time goes on.
LEMMA MinutesGrow ==
  ASSUME NEW a \in Nat, NEW b \in Nat, a <= b
  PROVE  a \div Minute <= b \div Minute /\ a \div Minute \in Nat
<1>1. Minute \in Nat \ {0}
  BY VenueAssumption
<1>2. a = Minute * (a \div Minute) + (a % Minute) /\ a % Minute \in 0..(Minute - 1) /\ a \div Minute \in Int
  BY <1>1
<1>3. b = Minute * (b \div Minute) + (b % Minute) /\ b % Minute \in 0..(Minute - 1) /\ b \div Minute \in Int
  BY <1>1
<1> DEFINE q == a \div Minute
           p == b \div Minute
<1>4. q \in Int /\ p \in Int /\ Minute * q <= a /\ b < Minute * p + Minute
  BY <1>1, <1>2, <1>3
<1>5. q \in Nat
  BY <1>1
<1> HIDE DEF q, p
<1>6. ASSUME q >= p + 1 PROVE FALSE
  <2>1. Minute * q >= Minute * (p + 1) /\ Minute * (p + 1) = Minute * p + Minute
    BY <1>1, <1>4, <1>6
  <2> QED BY <1>1, <1>4, <2>1
<1> QED BY <1>4, <1>5, <1>6 DEF q, p

\* The numbers of an interval.
LEMMA Interval ==
  ASSUME NEW a \in Int, NEW b \in Int, a <= b + 1
  PROVE  IsFiniteSet(a..b) /\ Cardinality(a..b) = b - a + 1
BY FS_Interval

\* The greatest of some numbers, if it is known.
LEMMA MaxIs ==
  ASSUME NEW S \in SUBSET Int, NEW x \in S, \A y \in S : y <= x
  PROVE  Max(S) = x
<1>1. \A z \in S : (\A y \in S : z >= y) <=> z = x
  OBVIOUS
<1> QED BY <1>1 DEF Max

LEMMA MinIs ==
  ASSUME NEW S \in SUBSET Int, NEW x \in S, \A y \in S : x <= y
  PROVE  Min(S) = x
<1>1. \A z \in S : (\A y \in S : z <= y) <=> z = x
  OBVIOUS
<1> QED BY <1>1 DEF Min

----------------------------------------------------------------------------
(* Lines.                                                                  *)

\* What precedes a line is finite, and is the same in what goes on in the same way.
LEMMA BeforeFacts ==
  ASSUME NEW lines \in Seq(Line), NEW n \in Nat, NEW kind
  PROVE  /\ Before(lines, n, kind) = {k \in 1..Len(lines) : k < n /\ lines[k][1] = kind}
         /\ IsFiniteSet(Before(lines, n, kind)) /\ Cardinality(Before(lines, n, kind)) \in Nat
         /\ n = Len(lines) + 1 => Before(lines, n, kind) = OfKind(lines, kind)
<1>1. DOMAIN lines = 1..Len(lines) /\ Len(lines) \in Nat
  BY LenProperties
<1>2. Before(lines, n, kind) = {k \in 1..Len(lines) : k < n /\ lines[k][1] = kind}
  BY <1>1 DEF Before, OfKind
<1>3. IsFiniteSet(1..Len(lines)) /\ Before(lines, n, kind) \in SUBSET (1..Len(lines))
  BY <1>1, <1>2, FS_Interval
<1>4. IsFiniteSet(Before(lines, n, kind))
  BY <1>3, FS_Subset
<1>5. Cardinality(Before(lines, n, kind)) \in Nat
  BY <1>4, FS_CardinalityType
<1>6. n = Len(lines) + 1 => Before(lines, n, kind) = OfKind(lines, kind)
  BY <1>1 DEF Before, OfKind
<1> QED BY <1>2, <1>4, <1>5, <1>6

LEMMA BeforeSame ==
  ASSUME NEW lines \in Seq(Line), NEW more \in Seq(Line), NEW m \in Nat,
         m <= Len(lines), m <= Len(more), \A k \in 1..m : lines[k] = more[k],
         NEW n \in 1..m + 1, NEW kind
  PROVE  Before(lines, n, kind) = Before(more, n, kind) /\ Told(lines, n, kind) = Told(more, n, kind)
<1>1. Len(lines) \in Nat /\ Len(more) \in Nat
  BY LenProperties
<1>2. Before(lines, n, kind) = {k \in 1..Len(lines) : k < n /\ lines[k][1] = kind}
  BY BeforeFacts
<1>3. Before(more, n, kind) = {k \in 1..Len(more) : k < n /\ more[k][1] = kind}
  BY BeforeFacts
<1>4. \A k \in 1..Len(lines) : k < n => k \in 1..m
  BY <1>1
<1>5. \A k \in 1..Len(more) : k < n => k \in 1..m
  BY <1>1
<1>6. Before(lines, n, kind) = Before(more, n, kind)
  BY <1>1, <1>2, <1>3, <1>4, <1>5
<1>7. \A k \in Before(lines, n, kind) : lines[k] = more[k]
  BY <1>2, <1>4
<1> QED BY <1>6, <1>7 DEF Told

\* What is sound of lines is of their beginning.
LEMMA SoundSame ==
  ASSUME NEW lines \in Seq(Line), NEW more \in Seq(Line), NEW m \in Nat, NEW p, NEW late,
         m <= Len(lines), m <= Len(more), \A k \in 1..m : lines[k] = more[k]
  PROVE  /\ \A n \in 1..m + 1 : Chain(lines, p, n, late) <=> Chain(more, p, n, late)
         /\ \A n \in 1..m : Extends(lines, p, n) <=> Extends(more, p, n)
<1>1. \A n \in 1..m + 1 : /\ Before(lines, n, "tick") = Before(more, n, "tick")
                          /\ Before(lines, n, "time") = Before(more, n, "time")
                          /\ Told(lines, n, "tick") = Told(more, n, "tick")
                          /\ Told(lines, n, "time") = Told(more, n, "time")
  BY BeforeSame
<1>2. \A n \in 1..m : n \in 1..m + 1 /\ lines[n] = more[n]
  OBVIOUS
<1> QED BY <1>1, <1>2 DEF Chain, Extends

\* What is sound stays so if more minutes were judged by rows that trailed.
LEMMA SoundLater ==
  ASSUME NEW lines, NEW p, NEW late, NEW more, late \subseteq more, Sound(lines, p, late)
  PROVE  Sound(lines, p, more)
<1>1. \A m : Excused(m, late) => Excused(m, more)
  BY DEF Excused
<1>2. \A n \in 1..Len(lines) + 1 : Chain(lines, p, n, more)
  BY <1>1 DEF Sound, Chain
<1> QED BY <1>2 DEF Sound

LEMMA SoundBeginning ==
  ASSUME NEW lines \in Seq(Line), NEW p, NEW late, Sound(lines, p, late), NEW m \in 0..Len(lines)
  PROVE  /\ SubSeq(lines, 1, m) \in Seq(Line) /\ Sound(SubSeq(lines, 1, m), p, late)
         /\ Count(SubSeq(lines, 1, m), "time") \in Nat /\ Count(lines, "time") \in Nat
         /\ Count(SubSeq(lines, 1, m), "time") <= Count(lines, "time")
<1>1. Len(lines) \in Nat /\ \A k \in 1..Len(lines) : lines[k] \in Line
  BY LenProperties, ElementOfSeq
<1> DEFINE short == SubSeq(lines, 1, m)
<1>2. short \in Seq(Line) /\ Len(short) = m /\ \A k \in 1..m : short[k] = lines[k]
  BY <1>1, SubSeqProperties
<1> HIDE DEF short
<1>3. /\ \A n \in 1..m + 1 : Chain(lines, p, n, late) <=> Chain(short, p, n, late)
      /\ \A n \in 1..m : Extends(lines, p, n) <=> Extends(short, p, n)
  BY <1>1, <1>2, SoundSame
<1>4. \A n \in 1..m : n \in 1..Len(lines) /\ n \in 1..Len(lines) + 1
  BY <1>1
<1>5. \A n \in 1..m + 1 : n \in 1..Len(lines) + 1
  BY <1>1
<1>6. Sound(short, p, late)
  BY <1>2, <1>3, <1>4, <1>5 DEF Sound
<1>7. /\ OfKind(lines, "time") = Before(lines, Len(lines) + 1, "time")
      /\ OfKind(short, "time") = Before(short, m + 1, "time")
      /\ IsFiniteSet(Before(lines, Len(lines) + 1, "time"))
      /\ Count(lines, "time") \in Nat /\ Count(short, "time") \in Nat
  BY <1>1, <1>2, BeforeFacts DEF Count
<1>8. OfKind(short, "time") \in SUBSET OfKind(lines, "time")
  <2>1. OfKind(short, "time") = {k \in 1..m : k < m + 1 /\ short[k][1] = "time"}
    <3>1. short \in Seq(Line) /\ m + 1 \in Nat
      BY <1>2
    <3>2. Before(short, m + 1, "time") = {k \in 1..Len(short) : k < m + 1 /\ short[k][1] = "time"}
      BY <3>1, BeforeFacts
    <3> QED BY <1>2, <1>7, <3>2
  <2>2. OfKind(lines, "time") = {k \in 1..Len(lines) : k < Len(lines) + 1 /\ lines[k][1] = "time"}
    <3>1. Len(lines) + 1 \in Nat
      BY <1>1
    <3>2. Before(lines, Len(lines) + 1, "time") = {k \in 1..Len(lines) : k < Len(lines) + 1 /\ lines[k][1] = "time"}
      BY <3>1, BeforeFacts
    <3> QED BY <1>7, <3>2
  <2> QED BY <1>1, <1>2, <2>1, <2>2
<1>9. Count(short, "time") <= Count(lines, "time")
  BY <1>7, <1>8, FS_Subset DEF Count
<1> QED BY <1>2, <1>6, <1>7, <1>9 DEF short

\* What the whole of some sound lines says.
LEMMA WholeFacts ==
  ASSUME NEW lines \in Seq(Line), NEW p \in Nat, NEW late, Sound(lines, p, late)
  PROVE  /\ Len(lines) \in Nat /\ Count(lines, "tick") \in Nat /\ Count(lines, "time") \in Nat
         /\ Ticks(lines) = p + 1 .. p + Count(lines, "tick")
         /\ Told(lines, Len(lines) + 1, "time") = Start .. Start + Count(lines, "time") - 1
         /\ \A i, j \in Ticks(lines) : i <= j => Ts(i) <= Ts(j)
         /\ \A m \in Start .. Start + Count(lines, "time") - 1 : Excused(m, late) \/ Candle(m) \subseteq Ticks(lines)
         /\ \A i \in Ticks(lines) : i \in Ids /\ MinuteOf(i) \in Start .. Start + Count(lines, "time")
<1> DEFINE n == Len(lines) + 1
<1>1. Len(lines) \in Nat /\ n \in Nat /\ n \in 1..Len(lines) + 1
  BY LenProperties
<1>2. Chain(lines, p, n, late)
  BY <1>1 DEF Sound
<1>3. /\ Before(lines, n, "tick") = OfKind(lines, "tick")
      /\ Before(lines, n, "time") = OfKind(lines, "time")
      /\ Count(lines, "tick") \in Nat /\ Count(lines, "time") \in Nat
      /\ IsFiniteSet(OfKind(lines, "time"))
  BY <1>1, BeforeFacts DEF Count
<1>4. Told(lines, n, "tick") = Ticks(lines)
  BY <1>3 DEF Told, Ticks
<1>5. ASSUME NEW i \in Ticks(lines)
      PROVE  i \in Ids /\ MinuteOf(i) \in Start .. Start + Count(lines, "time")
  <2>1. PICK k \in OfKind(lines, "tick") : lines[k][2] = i
    BY DEF Ticks
  <2>2. k \in 1..Len(lines) /\ lines[k][1] = "tick" /\ k \in Nat
    BY <2>1, LenProperties DEF OfKind
  <2>3. i \in Ids /\ MinuteOf(i) = Start + Cardinality(Before(lines, k, "time"))
    BY <2>1, <2>2 DEF Sound, Extends
  <2>4. Before(lines, k, "time") \in SUBSET OfKind(lines, "time") /\ Cardinality(Before(lines, k, "time")) \in Nat
    BY <2>2, BeforeFacts DEF Before
  <2>5. Cardinality(Before(lines, k, "time")) <= Count(lines, "time")
    BY <1>3, <2>4, FS_Subset DEF Count
  <2> QED BY <1>3, <2>3, <2>4, <2>5, VenueAssumption
<1> HIDE DEF n
<1>6. /\ Ticks(lines) = p + 1 .. p + Count(lines, "tick")
      /\ Told(lines, n, "time") = Start .. Start + Count(lines, "time") - 1
      /\ \A i, j \in Ticks(lines) : i <= j => Ts(i) <= Ts(j)
      /\ \A m \in Told(lines, n, "time") : Excused(m, late) \/ Candle(m) \subseteq Ticks(lines)
  BY <1>2, <1>3, <1>4 DEF Chain, Count
<1> QED BY <1>1, <1>3, <1>5, <1>6 DEF n

\* One line more.
LEMMA OneMore ==
  ASSUME NEW lines \in Seq(Line), NEW x \in Line, NEW kind
  PROVE  LET more == Append(lines, x)
             l == Len(lines)
         IN  /\ more \in Seq(Line) /\ Len(more) = l + 1 /\ l \in Nat /\ more[l + 1] = x
             /\ \A k \in 1..l : more[k] = lines[k]
             /\ Before(more, l + 1, kind) = OfKind(lines, kind)
             /\ Told(more, l + 1, kind) = Told(lines, l + 1, kind)
             /\ x[1] # kind => /\ Before(more, l + 2, kind) = OfKind(lines, kind)
                               /\ Told(more, l + 2, kind) = Told(lines, l + 1, kind)
                               /\ Count(more, kind) = Count(lines, kind)
             /\ x[1] = kind => /\ Cardinality(Before(more, l + 2, kind)) = Count(lines, kind) + 1
                               /\ Told(more, l + 2, kind) = Told(lines, l + 1, kind) \cup {x[2]}
                               /\ Count(more, kind) = Count(lines, kind) + 1
<1> DEFINE more == Append(lines, x)
           l == Len(lines)
<1>1. more \in Seq(Line) /\ Len(more) = l + 1 /\ l \in Nat /\ more[l + 1] = x /\ \A k \in 1..l : more[k] = lines[k]
  BY AppendProperties, LenProperties
<1> HIDE DEF more, l
<1>2. l = Len(lines)
  BY DEF l
<1>3. /\ Before(lines, l + 1, kind) = OfKind(lines, kind)
      /\ Before(lines, l + 1, kind) = {k \in 1..l : lines[k][1] = kind}
      /\ IsFiniteSet(Before(lines, l + 1, kind))
  BY <1>1, <1>2, BeforeFacts
<1>4. /\ Before(more, l + 2, kind) = {k \in 1..l + 1 : more[k][1] = kind}
      /\ Before(more, l + 2, kind) = OfKind(more, kind)
      /\ Before(more, l + 1, kind) = {k \in 1..l + 1 : k < l + 1 /\ more[k][1] = kind}
  <2>1. l + 2 \in Nat /\ l + 1 \in Nat /\ l + 2 = Len(more) + 1
    BY <1>1
  <2>2. Before(more, l + 2, kind) = {k \in 1..l + 1 : k < l + 2 /\ more[k][1] = kind}
    BY <1>1, <2>1, BeforeFacts
  <2>3. Before(more, l + 2, kind) = OfKind(more, kind)
    BY <1>1, <2>1, BeforeFacts
  <2>4. Before(more, l + 1, kind) = {k \in 1..l + 1 : k < l + 1 /\ more[k][1] = kind}
    BY <1>1, <2>1, BeforeFacts
  <2> QED BY <1>1, <2>2, <2>3, <2>4
<1>5. Before(more, l + 1, kind) = Before(lines, l + 1, kind)
  <2>1. \A k : (k \in 1..l + 1 /\ k < l + 1) <=> k \in 1..l
    BY <1>1
  <2>2. \A k : k \in Before(more, l + 1, kind) <=> k \in Before(lines, l + 1, kind)
    BY <1>1, <1>3, <1>4, <2>1
  <2> QED BY <2>2
<1>6. Told(more, l + 1, kind) = Told(lines, l + 1, kind)
  <2>1. \A k \in Before(lines, l + 1, kind) : more[k] = lines[k]
    BY <1>1, <1>3
  <2> QED BY <1>5, <2>1 DEF Told
<1>7. CASE x[1] # kind
  <2>1. Before(more, l + 2, kind) = Before(lines, l + 1, kind)
    <3>1. \A k : k \in 1..l + 1 <=> (k \in 1..l \/ k = l + 1)
      BY <1>1
    <3>2. \A k : k \in Before(more, l + 2, kind) <=> k \in Before(lines, l + 1, kind)
      BY <1>1, <1>3, <1>4, <1>7, <3>1
    <3> QED BY <3>2
  <2>2. Told(more, l + 2, kind) = Told(lines, l + 1, kind)
    <3>1. \A k \in Before(lines, l + 1, kind) : more[k] = lines[k]
      BY <1>1, <1>3
    <3> QED BY <2>1, <3>1 DEF Told
  <2> QED BY <1>1, <1>3, <1>4, <1>5, <1>6, <1>7, <2>1, <2>2 DEF Count, more, l
<1>8. CASE x[1] = kind
  <2>1. Before(more, l + 2, kind) = Before(lines, l + 1, kind) \cup {l + 1} /\ l + 1 \notin Before(lines, l + 1, kind)
    <3>1. (\A k : k \in 1..l + 1 <=> (k \in 1..l \/ k = l + 1)) /\ l + 1 \notin 1..l
      BY <1>1
    <3>2. \A k : k \in Before(more, l + 2, kind) <=> k \in Before(lines, l + 1, kind) \/ k = l + 1
      BY <1>1, <1>3, <1>4, <1>8, <3>1
    <3> QED BY <1>3, <3>1, <3>2
  <2>2. Told(more, l + 2, kind) = Told(lines, l + 1, kind) \cup {x[2]}
    <3>1. \A k \in Before(lines, l + 1, kind) : more[k] = lines[k]
      BY <1>1, <1>3
    <3> QED BY <1>1, <2>1, <3>1 DEF Told
  <2>3. Cardinality(Before(more, l + 2, kind)) = Cardinality(Before(lines, l + 1, kind)) + 1
    BY <1>3, <2>1, FS_AddElement
  <2> QED BY <1>1, <1>3, <1>4, <1>5, <1>6, <1>8, <2>2, <2>3 DEF Count, more, l
<1> QED BY <1>7, <1>8

LEMMA AppendTick ==
  ASSUME tape \in Seq(Nat), NEW lines \in Seq(Line), NEW p \in Nat, NEW late, Sound(lines, p, late), NEW i \in Ids,
         i = p + 1 + Count(lines, "tick"), MinuteOf(i) = Start + Count(lines, "time"),
         Count(lines, "tick") = 0 \/ Ts(i - 1) <= Ts(i)
  PROVE  LET more == Append(lines, <<"tick", i>>)
         IN  /\ more \in Seq(Line) /\ Sound(more, p, late)
             /\ Count(more, "tick") = Count(lines, "tick") + 1
             /\ Count(more, "time") = Count(lines, "time")
<1> DEFINE x == <<"tick", i>>
           more == Append(lines, x)
           l == Len(lines)
           t == Count(lines, "tick")
           c == Count(lines, "time")
<1>1. i \in Nat /\ \A j \in Ids : j \in Nat /\ Ts(j) \in Nat
  BY LenProperties, ElementOfSeq DEF Ids, Ts
<1>2. x \in Line /\ x[1] = "tick" /\ x[2] = i
  BY <1>1 DEF Line
<1>3. /\ l \in Nat /\ t \in Nat /\ c \in Nat
      /\ Ticks(lines) = p + 1 .. p + t /\ Told(lines, l + 1, "time") = Start .. Start + c - 1
      /\ \A j, k \in Ticks(lines) : j <= k => Ts(j) <= Ts(k)
      /\ \A j \in Ticks(lines) : j \in Ids
  BY WholeFacts
<1>4. /\ more \in Seq(Line) /\ Len(more) = l + 1 /\ more[l + 1] = x /\ \A k \in 1..l : more[k] = lines[k]
      /\ Before(more, l + 1, "tick") = OfKind(lines, "tick") /\ Before(more, l + 1, "time") = OfKind(lines, "time")
      /\ Before(more, l + 2, "time") = OfKind(lines, "time")
      /\ Told(more, l + 2, "time") = Told(lines, l + 1, "time")
      /\ Count(more, "time") = c
      /\ Cardinality(Before(more, l + 2, "tick")) = t + 1
      /\ Told(more, l + 2, "tick") = Told(lines, l + 1, "tick") \cup {i}
      /\ Count(more, "tick") = t + 1
  BY <1>2, OneMore, SMTT(40)
<1>5. Told(lines, l + 1, "tick") = Ticks(lines)
  <2>1. Before(lines, l + 1, "tick") = OfKind(lines, "tick")
    <3>1. l + 1 \in Nat /\ l + 1 = Len(lines) + 1
      BY <1>3
    <3> QED BY <3>1, BeforeFacts
  <2> QED BY <2>1 DEF Told, Ticks
<1>6. Chain(lines, p, l + 1, late)
  BY <1>3 DEF Sound
<1>0. i = p + 1 + t
  OBVIOUS
<1> HIDE DEF x, more, l, t, c
<1>7. /\ \A n \in 1..l + 1 : Chain(lines, p, n, late) <=> Chain(more, p, n, late)
      /\ \A n \in 1..l : Extends(lines, p, n) <=> Extends(more, p, n)
  <2>1. l <= Len(lines) /\ l <= Len(more)
    BY <1>3, <1>4 DEF l
  <2> QED BY <1>3, <1>4, <2>1, SoundSame
<1>8. Extends(more, p, l + 1)
  BY <1>2, <1>4 DEF Extends, Count, t, c
<1>9. Chain(more, p, l + 2, late)
  <2>1. Told(more, l + 2, "tick") = p + 1 .. p + (t + 1)
    <3>1. p + 1 .. p + (t + 1) = (p + 1 .. p + t) \cup {p + 1 + t}
      BY <1>3
    <3> QED BY <1>0, <1>3, <1>4, <1>5, <3>1
  <2>2. Told(more, l + 2, "time") = Start .. Start + Cardinality(Before(more, l + 2, "time")) - 1
    BY <1>3, <1>4 DEF Count, c
  <2>3. ASSUME NEW j \in Told(more, l + 2, "tick"), NEW k \in Told(more, l + 2, "tick"), j <= k
        PROVE  Ts(j) <= Ts(k)
    <3>1. CASE k # i
      <4>1. j \in Ticks(lines) /\ k \in Ticks(lines)
        BY <1>0, <1>1, <1>3, <1>4, <1>5, <2>1, <2>3, <3>1, SMTT(40)
      <4> QED BY <1>3, <2>3, <4>1
    <3>2. CASE k = i /\ j # i
      <4>1. t # 0 /\ j \in Ticks(lines) /\ i - 1 \in Ticks(lines) /\ j <= i - 1
        BY <1>0, <1>1, <1>3, <2>1, <2>3, <3>2
      <4>2. Ts(j) <= Ts(i - 1) /\ Ts(i - 1) <= Ts(i) /\ Ts(j) \in Nat /\ Ts(i - 1) \in Nat /\ Ts(i) \in Nat
        BY <1>1, <1>3, <4>1 DEF t
      <4> QED BY <3>2, <4>2
    <3>3. CASE k = i /\ j = i
      BY <1>1, <3>3
    <3> QED BY <3>1, <3>2, <3>3
  <2>4. \A m \in Told(more, l + 2, "time") : Excused(m, late) \/ Candle(m) \subseteq Told(more, l + 2, "tick")
    BY <1>4, <1>6 DEF Chain
  <2> QED BY <1>4, <2>1, <2>2, <2>3, <2>4 DEF Chain
<1>10. Sound(more, p, late)
  <2>1. \A n \in 1..Len(more) + 1 : n \in 1..l + 1 \/ n = l + 2
    BY <1>3, <1>4
  <2>2. \A n \in 1..Len(more) : n \in 1..l \/ n = l + 1
    BY <1>3, <1>4
  <2>3. /\ \A n \in 1..l + 1 : Chain(lines, p, n, late)
        /\ \A n \in 1..l : Extends(lines, p, n)
    BY DEF Sound, l
  <2> QED BY <1>7, <1>8, <1>9, <2>1, <2>2, <2>3 DEF Sound
<1> QED BY <1>4, <1>10 DEF more, x, t, c

LEMMA AppendTime ==
  ASSUME NEW lines \in Seq(Line), NEW p \in Nat, NEW late, Sound(lines, p, late), NEW m \in Nat,
         m = Start + Count(lines, "time"),
         Excused(m, late) \/ Candle(m) \subseteq Ticks(lines)
  PROVE  LET more == Append(lines, <<"time", m>>)
         IN  /\ more \in Seq(Line) /\ Sound(more, p, late)
             /\ Count(more, "tick") = Count(lines, "tick")
             /\ Count(more, "time") = Count(lines, "time") + 1
<1> DEFINE x == <<"time", m>>
           more == Append(lines, x)
           l == Len(lines)
           t == Count(lines, "tick")
           c == Count(lines, "time")
<1>1. x \in Line /\ x[1] = "time" /\ x[2] = m
  BY DEF Line
<1>2. /\ l \in Nat /\ t \in Nat /\ c \in Nat /\ Start \in Nat
      /\ Ticks(lines) = p + 1 .. p + t /\ Told(lines, l + 1, "time") = Start .. Start + c - 1
  BY WholeFacts, VenueAssumption
<1>3. /\ more \in Seq(Line) /\ Len(more) = l + 1 /\ more[l + 1] = x /\ \A k \in 1..l : more[k] = lines[k]
      /\ Before(more, l + 1, "tick") = OfKind(lines, "tick") /\ Before(more, l + 1, "time") = OfKind(lines, "time")
      /\ Before(more, l + 2, "tick") = OfKind(lines, "tick")
      /\ Told(more, l + 2, "tick") = Told(lines, l + 1, "tick")
      /\ Count(more, "tick") = t
      /\ Cardinality(Before(more, l + 2, "time")) = c + 1
      /\ Told(more, l + 2, "time") = Told(lines, l + 1, "time") \cup {m}
      /\ Count(more, "time") = c + 1
  <2>1. "tick" # "time"
    OBVIOUS
  <2> DEFINE Facts(kind) ==
               /\ more \in Seq(Line) /\ Len(more) = l + 1 /\ l \in Nat /\ more[l + 1] = x
               /\ \A k \in 1..l : more[k] = lines[k]
               /\ Before(more, l + 1, kind) = OfKind(lines, kind)
               /\ Told(more, l + 1, kind) = Told(lines, l + 1, kind)
               /\ x[1] # kind => /\ Before(more, l + 2, kind) = OfKind(lines, kind)
                                 /\ Told(more, l + 2, kind) = Told(lines, l + 1, kind)
                                 /\ Count(more, kind) = Count(lines, kind)
               /\ x[1] = kind => /\ Cardinality(Before(more, l + 2, kind)) = Count(lines, kind) + 1
                                 /\ Told(more, l + 2, kind) = Told(lines, l + 1, kind) \cup {x[2]}
                                 /\ Count(more, kind) = Count(lines, kind) + 1
  <2>2. \A kind : Facts(kind)
    <3> HIDE DEF x
    <3> QED BY <1>1, OneMore
  <2>3. Facts("tick") /\ Facts("time")
    <3> HIDE DEF Facts
    <3> QED BY <2>2
  <2>4. x[1] # "tick" /\ x[1] = "time" /\ x[2] = m
    BY <1>1, <2>1
  <2> HIDE DEF x, more, l
  <2> QED BY <2>3, <2>4
<1>4. Told(lines, l + 1, "tick") = Ticks(lines)
  <2>1. Before(lines, l + 1, "tick") = OfKind(lines, "tick")
    BY <1>2, BeforeFacts
  <2> QED BY <2>1 DEF Told, Ticks
<1>5. Chain(lines, p, l + 1, late)
  BY <1>2 DEF Sound
<1>0. m = Start + c
  OBVIOUS
<1> HIDE DEF x, more, l, t, c
<1>6. /\ \A n \in 1..l + 1 : Chain(lines, p, n, late) <=> Chain(more, p, n, late)
      /\ \A n \in 1..l : Extends(lines, p, n) <=> Extends(more, p, n)
  <2>1. l <= Len(lines) /\ l <= Len(more)
    BY <1>2, <1>3 DEF l
  <2> QED BY <1>2, <1>3, <2>1, SoundSame
<1>7. Extends(more, p, l + 1)
  BY <1>1, <1>3 DEF Extends, Count, c
<1>8. Chain(more, p, l + 2, late)
  <2>1. Told(more, l + 2, "time") = Start .. Start + (c + 1) - 1
    <3>1. Start .. Start + (c + 1) - 1 = (Start .. Start + c - 1) \cup {Start + c}
      BY <1>2
    <3> QED BY <1>0, <1>2, <1>3, <3>1
  <2>2. Told(more, l + 2, "tick") = p + 1 .. p + Cardinality(Before(more, l + 2, "tick"))
    BY <1>2, <1>3, <1>4 DEF Count, t
  <2>3. \A i, j \in Told(more, l + 2, "tick") : i <= j => Ts(i) <= Ts(j)
    BY <1>3, <1>5 DEF Chain
  <2>4. \A k \in Told(more, l + 2, "time") : Excused(k, late) \/ Candle(k) \subseteq Told(more, l + 2, "tick")
    BY <1>3, <1>4, <1>5 DEF Chain
  <2> QED BY <1>3, <2>1, <2>2, <2>3, <2>4 DEF Chain
<1>9. Sound(more, p, late)
  <2>1. \A n \in 1..Len(more) + 1 : n \in 1..l + 1 \/ n = l + 2
    BY <1>2, <1>3
  <2>2. \A n \in 1..Len(more) : n \in 1..l \/ n = l + 1
    BY <1>2, <1>3
  <2>3. /\ \A n \in 1..l + 1 : Chain(lines, p, n, late)
        /\ \A n \in 1..l : Extends(lines, p, n)
    BY DEF Sound, l
  <2> QED BY <1>6, <1>7, <1>8, <2>1, <2>2, <2>3 DEF Sound
<1> QED BY <1>3, <1>9 DEF more, x, t, c
\* No lines are sound, whatever the predecessor is.
LEMMA SoundEmpty ==
  ASSUME NEW p \in Nat, NEW late
  PROVE  /\ <<>> \in Seq(Line) /\ Sound(<<>>, p, late)
         /\ Count(<<>>, "tick") = 0 /\ Count(<<>>, "time") = 0 /\ Ticks(<<>>) = {}
<1>1. <<>> \in Seq(Line) /\ Len(<<>>) = 0 /\ \A kind : OfKind(<<>>, kind) = {}
  BY DEF OfKind
<1>2. Cardinality({}) = 0
  BY FS_EmptySet
<1>3. \A kind : Before(<<>>, 1, kind) = {} /\ Told(<<>>, 1, kind) = {}
  BY <1>1 DEF Before, Told
<1>4. p + 1 .. p + 0 = {} /\ Start .. Start + 0 - 1 = {}
  BY VenueAssumption
<1>5. Chain(<<>>, p, 1, late)
  BY <1>2, <1>3, <1>4 DEF Chain
<1>6. \A n \in 1..Len(<<>>) + 1 : n = 1
  BY <1>1
<1>7. 1..Len(<<>>) = {}
  BY <1>1
<1> QED BY <1>1, <1>2, <1>5, <1>6, <1>7 DEF Sound, Count, Ticks

\* A run of lines behind others is one line behind a shorter run.
LEMMA LongerRun ==
  ASSUME NEW lines \in Seq(Line), NEW b \in Nat, NEW s \in Seq(Line), Len(s) = b + 1
  PROVE  lines \o s = Append(lines \o SubSeq(s, 1, b), s[b + 1]) /\ s[b + 1] \in Line
<1>1. \A k \in 1..b + 1 : s[k] \in Line
  BY ElementOfSeq
<1>2. b + 1 \in 1..b + 1 /\ s[b + 1] \in Line /\ Len(lines) \in Nat
  BY <1>1, LenProperties
<1> DEFINE short == SubSeq(s, 1, b)
           half == lines \o short
           whole == Append(half, s[b + 1])
           l == Len(lines)
<1>3. short \in Seq(Line) /\ Len(short) = b /\ \A k \in 1..b : short[k] = s[k]
  BY <1>1, SubSeqProperties
<1>4. half \in Seq(Line) /\ Len(half) = l + b
  BY <1>3, ConcatProperties
<1>5. \A k \in 1..l : half[k] = lines[k]
  BY <1>2, <1>3, ConcatProperties
<1>6. \A k \in 1..b : half[l + k] = short[k]
  BY <1>2, <1>3, ConcatProperties
<1>7. /\ whole \in Seq(Line) /\ Len(whole) = l + b + 1 /\ whole[l + b + 1] = s[b + 1]
      /\ \A k \in 1..l + b : whole[k] = half[k]
  <2> HIDE DEF half, l
  <2> QED BY <1>2, <1>4, AppendProperties, LenProperties DEF l
<1> DEFINE full == lines \o s
<1>8. full \in Seq(Line) /\ Len(full) = l + (b + 1)
  <2>1. full \in Seq(Line) /\ Len(full) = Len(lines) + Len(s)
    BY ConcatProperties
  <2> HIDE DEF full
  <2> QED BY <2>1
<1>9. \A k \in 1..l : full[k] = lines[k]
  BY <1>2, ConcatProperties
<1>10. \A k \in 1..b + 1 : full[l + k] = s[k]
  BY <1>2, ConcatProperties
<1> HIDE DEF short, half, whole, l, full
<1>11. ASSUME NEW k \in 1..l + b + 1 PROVE whole[k] = full[k]
  <2>1. l \in Nat
    BY <1>2 DEF l
  <2>2. CASE k \in 1..l
    BY <1>5, <1>7, <1>9, <2>1, <2>2
  <2>3. CASE k \in l + 1..l + b
    <3>1. k - l \in 1..b /\ k - l \in 1..b + 1 /\ k = l + (k - l) /\ k \in 1..l + b
      BY <2>1, <2>3
    <3> QED BY <1>3, <1>6, <1>7, <1>10, <3>1
  <2>4. CASE k = l + b + 1
    <3>1. b + 1 \in 1..b + 1 /\ k = l + (b + 1)
      BY <2>1, <2>4
    <3>2. full[l + (b + 1)] = s[b + 1]
      BY <1>10, <3>1
    <3> QED BY <1>7, <2>4, <3>1, <3>2
  <2> QED BY <2>1, <2>2, <2>3, <2>4
<1>12. whole = full
  <2>1. l \in Nat /\ Len(whole) = Len(full) /\ Len(whole) = l + b + 1
    BY <1>2, <1>7, <1>8 DEF l
  <2> QED BY <1>7, <1>8, <1>11, <2>1, SeqEqual
<1> QED BY <1>2, <1>12 DEF whole, full, half, short

\* Prints that go on with the chain within the open minute.
LEMMA AppendTicks ==
  ASSUME tape \in Seq(Nat), NEW lines \in Seq(Line), NEW p \in Nat, NEW late, Sound(lines, p, late), NEW b \in Nat,
         \A i \in NextOf(lines, p) .. NextOf(lines, p) + b - 1 :
             /\ i \in Ids /\ MinuteOf(i) = CutOf(lines)
             /\ (Count(lines, "tick") = 0 /\ i = NextOf(lines, p)) \/ Ts(i - 1) <= Ts(i)
  PROVE  LET more == lines \o [n \in 1..b |-> <<"tick", NextOf(lines, p) + n - 1>>]
         IN  /\ more \in Seq(Line) /\ Sound(more, p, late)
             /\ Count(more, "tick") = Count(lines, "tick") + b
             /\ Count(more, "time") = Count(lines, "time")
<1> DEFINE next == NextOf(lines, p)
           t == Count(lines, "tick")
           c == Count(lines, "time")
           Run(n) == [k \in 1..n |-> <<"tick", next + k - 1>>]
           Good(n) == LET more == lines \o Run(n)
                      IN  /\ more \in Seq(Line) /\ Sound(more, p, late)
                          /\ Count(more, "tick") = t + n /\ Count(more, "time") = c
           Bad == {n \in 0..b : ~ Good(n)}
<1>1. t \in Nat /\ c \in Nat /\ next = p + t + 1 /\ next \in Nat /\ CutOf(lines) = Start + c
  BY WholeFacts DEF NextOf, CutOf
<1>2. \A n \in Nat : Run(n) \in Seq(Line) /\ Len(Run(n)) = n /\ \A k \in 1..n : Run(n)[k] = <<"tick", next + k - 1>>
  <2> HIDE DEF next
  <2> QED BY <1>1 DEF Line
<1>3. Good(0)
  <2>1. Run(0) = <<>>
    BY <1>2
  <2>2. lines \o <<>> = lines
    BY ConcatEmptySeq
  <2>3. lines \o Run(0) = lines
    BY <2>1, <2>2
  <2>4. t + 0 = t /\ c + 0 = c
    BY <1>1
  <2>5. Count(lines, "tick") = t /\ Count(lines, "time") = c
    OBVIOUS
  <2> HIDE DEF Run, t, c
  <2> QED BY <2>3, <2>4, <2>5
<1>4. ASSUME NEW n \in 0..b - 1, Good(n) PROVE Good(n + 1)
  <2> DEFINE half == lines \o Run(n)
  <2>1. n \in Nat /\ n + 1 \in Nat
    OBVIOUS
  <2>2. SubSeq(Run(n + 1), 1, n) = Run(n)
    <3> HIDE DEF Run
    <3>1. \A k \in 1..n : k \in 1..n + 1
      BY <2>1
    <3>2. /\ SubSeq(Run(n + 1), 1, n) \in Seq(Line) /\ Len(SubSeq(Run(n + 1), 1, n)) = n
          /\ \A k \in 1..n : SubSeq(Run(n + 1), 1, n)[k] = Run(n + 1)[k]
      <4>1. \A k \in 1..n : Run(n + 1)[k] \in Line
        BY <1>2, <2>1, <3>1, ElementOfSeq
      <4> QED BY <1>2, <2>1, <4>1, SubSeqProperties
    <3>3. \A k \in 1..n : SubSeq(Run(n + 1), 1, n)[k] = Run(n)[k]
      BY <1>2, <2>1, <3>1, <3>2
    <3>4. Run(n) \in Seq(Line) /\ Len(Run(n)) = n
      BY <1>2, <2>1
    <3> QED BY <3>2, <3>3, <3>4, SeqEqual
  <2>3. Run(n + 1)[n + 1] = <<"tick", next + n>>
    <3>1. n + 1 \in 1..n + 1 /\ next + (n + 1) - 1 = next + n
      BY <1>1, <2>1
    <3>2. Run(n + 1)[n + 1] = <<"tick", next + (n + 1) - 1>>
      BY <1>2, <2>1, <3>1
    <3> HIDE DEF Run, next
    <3> QED BY <3>1, <3>2
  <2>4. lines \o Run(n + 1) = Append(half, <<"tick", next + n>>)
    <3>1. lines \o Run(n + 1) = Append(lines \o SubSeq(Run(n + 1), 1, n), Run(n + 1)[n + 1])
      <4> HIDE DEF Run
      <4> QED BY <1>2, <2>1, LongerRun
    <3> HIDE DEF Run, next
    <3> QED BY <2>2, <2>3, <3>1
  <2>5. /\ half \in Seq(Line) /\ Sound(half, p, late)
        /\ Count(half, "tick") = t + n /\ Count(half, "time") = c
    BY <1>4
  <2>6. /\ next + n \in next .. next + b - 1 /\ next + n = p + 1 + (t + n)
        /\ (t = 0 /\ next + n = next) => t + n = 0
    <3> HIDE DEF next, t
    <3> QED BY <1>1
  <2>7. /\ next + n \in Ids /\ MinuteOf(next + n) = Start + c
        /\ t + n = 0 \/ Ts(next + n - 1) <= Ts(next + n)
    BY <1>1, <2>6, SMTT(40)
  <2> HIDE DEF half, next, t, c, Run
  <2>8. PICK i \in Ids : i = next + n
    BY <2>7
  <2> DEFINE more == Append(half, <<"tick", i>>)
  <2>9. /\ i = p + 1 + Count(half, "tick") /\ MinuteOf(i) = Start + Count(half, "time")
        /\ Count(half, "tick") = 0 \/ Ts(i - 1) <= Ts(i)
    <3>1. i = p + 1 + Count(half, "tick")
      BY <2>5, <2>6, <2>8
    <3>2. MinuteOf(i) = Start + Count(half, "time")
      BY <2>5, <2>7, <2>8
    <3>3. Count(half, "tick") = 0 \/ Ts(i - 1) <= Ts(i)
      <4>1. Ts(i - 1) = Ts(next + n - 1) /\ Ts(i) = Ts(next + n)
        BY <1>1, <2>1, <2>8
      <4>2. Count(half, "tick") = t + n
        BY <2>5
      <4>3. t + n = 0 \/ Ts(next + n - 1) <= Ts(next + n)
        BY <2>7
      <4> QED BY <4>1, <4>2, <4>3
    <3> QED BY <3>1, <3>2, <3>3
  <2>10. /\ more \in Seq(Line) /\ Sound(more, p, late)
         /\ Count(more, "tick") = Count(half, "tick") + 1
         /\ Count(more, "time") = Count(half, "time")
    BY <2>5, <2>9, AppendTick
  <2>11. lines \o Run(n + 1) = more
    BY <2>4, <2>8
  <2>12. Count(half, "tick") + 1 = t + (n + 1)
    BY <1>1, <2>1, <2>5
  <2> HIDE DEF more
  <2> QED BY <2>5, <2>10, <2>11, <2>12
<1> HIDE DEF Good, next, t, c, Run
<1>5. Bad = {}
  <2> SUFFICES ASSUME Bad # {} PROVE FALSE
    OBVIOUS
  <2>1. Bad \in SUBSET Nat
    OBVIOUS
  <2>2. Min(Bad) \in Bad /\ \A y \in Bad : Min(Bad) <= y
    BY <2>1, MinOfNats
  <2>3. PICK m \in 0..b : m \in Bad /\ ~ Good(m) /\ \A y \in Bad : m <= y
    BY <2>2
  <2>4. m # 0
    BY <1>3, <2>3
  <2>5. m - 1 \in 0..b /\ m - 1 \in 0..b - 1 /\ ~ (m <= m - 1) /\ (m - 1) + 1 = m
    BY <2>4
  <2>6. Good(m - 1)
    BY <2>3, <2>5
  <2> QED BY <1>4, <2>3, <2>5, <2>6
<1>6. Good(b)
  <2>1. b \in 0..b
    OBVIOUS
  <2> QED BY <1>5, <2>1
<1> QED BY <1>6 DEF Good, Run, next, t, c

\* Bars close one minute after the other.
LEMMA AppendTimes ==
  ASSUME NEW lines \in Seq(Line), NEW p \in Nat, NEW late, Sound(lines, p, late), NEW b \in Nat, mode = "bars"
  PROVE  LET more == lines \o [n \in 1..b |-> <<"time", CutOf(lines) + n - 1>>]
         IN  /\ more \in Seq(Line) /\ Sound(more, p, late)
             /\ Count(more, "tick") = Count(lines, "tick")
             /\ Count(more, "time") = Count(lines, "time") + b
<1> DEFINE open == CutOf(lines)
           t == Count(lines, "tick")
           c == Count(lines, "time")
           Run(n) == [k \in 1..n |-> <<"time", open + k - 1>>]
           Good(n) == LET more == lines \o Run(n)
                      IN  /\ more \in Seq(Line) /\ Sound(more, p, late)
                          /\ Count(more, "tick") = t /\ Count(more, "time") = c + n
           Bad == {n \in 0..b : ~ Good(n)}
<1>1. t \in Nat /\ c \in Nat /\ open = Start + c /\ open \in Nat
  BY WholeFacts, VenueAssumption DEF CutOf
<1>2. \A n \in Nat : Run(n) \in Seq(Line) /\ Len(Run(n)) = n /\ \A k \in 1..n : Run(n)[k] = <<"time", open + k - 1>>
  <2> HIDE DEF open
  <2> QED BY <1>1 DEF Line
<1>3. Good(0)
  <2>1. Run(0) = <<>>
    BY <1>2
  <2>2. lines \o <<>> = lines
    BY ConcatEmptySeq
  <2>3. lines \o Run(0) = lines
    BY <2>1, <2>2
  <2>4. t + 0 = t /\ c + 0 = c
    BY <1>1
  <2>5. Count(lines, "tick") = t /\ Count(lines, "time") = c
    OBVIOUS
  <2> HIDE DEF Run, t, c
  <2> QED BY <2>3, <2>4, <2>5
<1>4. ASSUME NEW n \in 0..b - 1, Good(n) PROVE Good(n + 1)
  <2> DEFINE half == lines \o Run(n)
  <2>1. n \in Nat /\ n + 1 \in Nat
    OBVIOUS
  <2>2. SubSeq(Run(n + 1), 1, n) = Run(n)
    <3> HIDE DEF Run
    <3>1. \A k \in 1..n : k \in 1..n + 1
      BY <2>1
    <3>2. /\ SubSeq(Run(n + 1), 1, n) \in Seq(Line) /\ Len(SubSeq(Run(n + 1), 1, n)) = n
          /\ \A k \in 1..n : SubSeq(Run(n + 1), 1, n)[k] = Run(n + 1)[k]
      <4>1. \A k \in 1..n : Run(n + 1)[k] \in Line
        BY <1>2, <2>1, <3>1, ElementOfSeq
      <4> QED BY <1>2, <2>1, <4>1, SubSeqProperties
    <3>3. \A k \in 1..n : SubSeq(Run(n + 1), 1, n)[k] = Run(n)[k]
      BY <1>2, <2>1, <3>1, <3>2
    <3>4. Run(n) \in Seq(Line) /\ Len(Run(n)) = n
      BY <1>2, <2>1
    <3> QED BY <3>2, <3>3, <3>4, SeqEqual
  <2>3. Run(n + 1)[n + 1] = <<"time", open + n>>
    <3>1. n + 1 \in 1..n + 1 /\ open + (n + 1) - 1 = open + n
      BY <1>1, <2>1
    <3>2. Run(n + 1)[n + 1] = <<"time", open + (n + 1) - 1>>
      BY <1>2, <2>1, <3>1
    <3> HIDE DEF Run, open
    <3> QED BY <3>1, <3>2
  <2>4. lines \o Run(n + 1) = Append(half, <<"time", open + n>>)
    <3>1. lines \o Run(n + 1) = Append(lines \o SubSeq(Run(n + 1), 1, n), Run(n + 1)[n + 1])
      <4> HIDE DEF Run
      <4> QED BY <1>2, <2>1, LongerRun
    <3> HIDE DEF Run, open
    <3> QED BY <2>2, <2>3, <3>1
  <2>5. /\ half \in Seq(Line) /\ Sound(half, p, late)
        /\ Count(half, "tick") = t /\ Count(half, "time") = c + n
    BY <1>4
  <2>6. open + n \in Nat /\ open + n = Start + (c + n)
    <3> HIDE DEF open, c
    <3> QED BY <1>1, VenueAssumption
  <2> HIDE DEF half, open, t, c, Run
  <2>7. LET more == Append(half, <<"time", open + n>>)
        IN  /\ more \in Seq(Line) /\ Sound(more, p, late)
            /\ Count(more, "tick") = Count(half, "tick")
            /\ Count(more, "time") = Count(half, "time") + 1
    <3>1. Excused(open + n, late)
      BY DEF Excused
    <3> QED BY <2>5, <2>6, <3>1, AppendTime
  <2> DEFINE more == Append(half, <<"time", open + n>>)
  <2>8. lines \o Run(n + 1) = more
    BY <2>4
  <2>9. Count(half, "time") + 1 = c + (n + 1)
    BY <1>1, <2>1, <2>5
  <2> QED BY <2>5, <2>7, <2>8, <2>9
<1> HIDE DEF Good, open, t, c, Run
<1>5. Bad = {}
  <2> SUFFICES ASSUME Bad # {} PROVE FALSE
    OBVIOUS
  <2>1. Bad \in SUBSET Nat
    OBVIOUS
  <2>2. Min(Bad) \in Bad /\ \A y \in Bad : Min(Bad) <= y
    BY <2>1, MinOfNats
  <2>3. PICK m \in 0..b : m \in Bad /\ ~ Good(m) /\ \A y \in Bad : m <= y
    BY <2>2
  <2>4. m # 0
    BY <1>3, <2>3
  <2>5. m - 1 \in 0..b /\ m - 1 \in 0..b - 1 /\ ~ (m <= m - 1) /\ (m - 1) + 1 = m
    BY <2>4
  <2>6. Good(m - 1)
    BY <2>3, <2>5
  <2> QED BY <1>4, <2>3, <2>5, <2>6
<1>6. Good(b)
  <2>1. b \in 0..b
    OBVIOUS
  <2> QED BY <1>5, <2>1
<1> QED BY <1>6 DEF Good, Run, open, t, c
----------------------------------------------------------------------------
(* The tape, and what the cursor says of it.                               *)

LEMMA TapeFacts ==
  ASSUME tape \in Seq(Nat)
  PROVE  /\ Ids = 1..Len(tape) /\ Len(tape) \in Nat
         /\ \A i \in Ids : i \in Nat /\ i >= 1 /\ Ts(i) \in Nat /\ MinuteOf(i) \in Nat
         /\ Chronological => \A i, j \in Ids : i <= j => Ts(i) <= Ts(j) /\ MinuteOf(i) <= MinuteOf(j)
         /\ \A m : Candle(m) \in SUBSET Ids /\ \A i \in Ids : i \in Candle(m) <=> MinuteOf(i) = m
<1>1. Ids = 1..Len(tape) /\ Len(tape) \in Nat
  BY LenProperties DEF Ids
<1>2. \A i \in Ids : Ts(i) \in Nat
  BY ElementOfSeq, LenProperties DEF Ids, Ts
<1>3. \A i \in Ids : MinuteOf(i) = Ts(i) \div Minute
  BY DEF MinuteOf, Ts
<1>4. \A i \in Ids : MinuteOf(i) \in Nat
  BY <1>2, <1>3, MinutesGrow
<1>5. ASSUME Chronological, NEW i \in Ids, NEW j \in Ids, i <= j
      PROVE  Ts(i) <= Ts(j) /\ MinuteOf(i) <= MinuteOf(j)
  <2>1. Ts(i) <= Ts(j)
    BY <1>1, <1>2, <1>5 DEF Chronological
  <2> QED BY <1>2, <1>3, <2>1, MinutesGrow
<1>6. \A m : Candle(m) \in SUBSET Ids /\ \A i \in Ids : i \in Candle(m) <=> MinuteOf(i) = m
  BY DEF Candle
<1> QED BY <1>1, <1>2, <1>4, <1>5, <1>6

\* While time goes on, the predecessor separates the prints before the start from the others.
LEMMA AnchorFacts ==
  ASSUME tape \in Seq(Nat), Chronological, NEW p \in Nat, p # 0, NEW lines, Anchored(lines, p)
  PROVE  \A i \in Ids : MinuteOf(i) >= Start <=> i > p
<1> SUFFICES ASSUME NEW i \in Ids PROVE MinuteOf(i) >= Start <=> i > p
  OBVIOUS
<1> USE VenueAssumption
<1>1. /\ \A k \in Ids : k \in Nat /\ k >= 1 /\ MinuteOf(k) \in Nat
      /\ \A k, j \in Ids : k <= j => MinuteOf(k) <= MinuteOf(j)
      /\ Ids = 1..Len(tape) /\ Len(tape) \in Nat
  BY TapeFacts
<1>2. CASE p \in Predecessors
  <2>1. p \in Ids /\ p + 1 \in Ids /\ MinuteOf(p) < Start /\ MinuteOf(p + 1) >= Start
    BY <1>2 DEF Predecessors
  <2>2. i <= p => MinuteOf(i) < Start
    BY <1>1, <2>1
  <2>3. i > p => MinuteOf(i) >= Start
    <3>1. i > p => MinuteOf(p + 1) <= MinuteOf(i)
      BY <1>1, <2>1
    <3> QED BY <1>1, <2>1, <3>1
  <2> QED BY <1>1, <2>2, <2>3
<1>3. CASE Candle(Start) # {} /\ p = Min(Candle(Start)) - 1
  <2>1. /\ Candle(Start) \in SUBSET Nat /\ Candle(Start) \in SUBSET Ids
        /\ \A k \in Ids : k \in Candle(Start) <=> MinuteOf(k) = Start
    BY <1>1, TapeFacts
  <2>2. Min(Candle(Start)) \in Candle(Start) /\ \A k \in Candle(Start) : Min(Candle(Start)) <= k
    BY <1>3, <2>1, MinOfNats
  <2>3. PICK f \in Ids : f = Min(Candle(Start)) /\ MinuteOf(f) = Start /\ \A k \in Candle(Start) : f <= k
    BY <2>1, <2>2
  <2>4. f = p + 1
    BY <1>1, <1>3, <2>3
  <2>5. i >= f => MinuteOf(i) >= Start
    BY <1>1, <2>3
  <2>6. ASSUME i < f, MinuteOf(i) >= Start PROVE FALSE
    <3>1. MinuteOf(i) = Start
      BY <1>1, <2>3, <2>6
    <3> QED BY <1>1, <2>1, <2>3, <2>6, <3>1
  <2>7. i > p <=> i >= f
    BY <1>1, <2>4
  <2>8. i \in Nat /\ f \in Nat
    BY <1>1
  <2>9. ~ (i >= f) => i < f
    BY <2>8
  <2> QED BY <2>5, <2>6, <2>7, <2>9
<1> QED BY <1>2, <1>3 DEF Anchored

LEMMA CursorFacts ==
  ASSUME Types, Sound(log, predecessor, trailed)
  PROVE  /\ Count(log, "tick") \in Nat /\ Count(log, "time") \in Nat
         /\ CutOf(log) = Cut /\ Cut \in Nat /\ Cut >= Start
         /\ NextOf(log, predecessor) = NextId
         /\ NextId \in Nat /\ NextId = predecessor + Count(log, "tick") + 1
         /\ LastId = IF Count(log, "tick") = 0 THEN 0 ELSE NextId - 1
         /\ Ticks(log) = predecessor + 1 .. NextId - 1
         /\ \A i \in Ticks(log) : i \in Ids /\ MinuteOf(i) \in Start..Cut
         /\ \A m \in Start..Cut - 1 : Excused(m, trailed) \/ (Candle(m) \subseteq Ticks(log) /\ Emitted(m) = Candle(m))
<1> DEFINE t == Count(log, "tick")
<1>1. log \in Seq(Line) /\ predecessor \in Nat
  BY DEF Types
<1>2. /\ t \in Nat /\ Count(log, "time") \in Nat
      /\ Ticks(log) = predecessor + 1 .. predecessor + t
      /\ \A i \in Ticks(log) : i \in Ids /\ MinuteOf(i) \in Start .. Start + Count(log, "time")
      /\ \A m \in Start .. Start + Count(log, "time") - 1 : Excused(m, trailed) \/ Candle(m) \subseteq Ticks(log)
  BY <1>1, WholeFacts
<1>3. CutOf(log) = Cut /\ Cut = Start + Count(log, "time") /\ Cut \in Nat /\ Cut >= Start
  BY <1>2, VenueAssumption DEF CutOf, Cut, Count
<1>4. LastId = IF t = 0 THEN 0 ELSE predecessor + t
  <2> HIDE DEF t
  <2>1. CASE t = 0
    <3>1. {0} \cup Ticks(log) = {0}
      BY <1>1, <1>2, <2>1
    <3>2. Max({0}) = 0
      BY MaxIs
    <3> QED BY <2>1, <3>1, <3>2 DEF LastId
  <2>2. CASE t # 0
    <3>1. predecessor + t \in {0} \cup Ticks(log) /\ \A y \in {0} \cup Ticks(log) : y <= predecessor + t
      BY <1>1, <1>2, <2>2
    <3>2. {0} \cup Ticks(log) \in SUBSET Int
      BY <1>1, <1>2
    <3>3. Max({0} \cup Ticks(log)) = predecessor + t
      BY <3>1, <3>2, MaxIs
    <3> QED BY <2>2, <3>3 DEF LastId
  <2> QED BY <2>1, <2>2
<1>5. NextId = predecessor + t + 1 /\ NextId \in Nat /\ NextOf(log, predecessor) = NextId
  <2>1. NextOf(log, predecessor) = predecessor + t + 1
    BY DEF NextOf
  <2> HIDE DEF t
  <2>2. NextId = predecessor + t + 1
    BY <1>1, <1>2, <1>4 DEF NextId
  <2> QED BY <1>1, <1>2, <2>1, <2>2
<1>6. LastId = IF t = 0 THEN 0 ELSE NextId - 1
  <2> HIDE DEF t
  <2> QED BY <1>1, <1>2, <1>4, <1>5
<1>7. Ticks(log) = predecessor + 1 .. NextId - 1
  <2> HIDE DEF t
  <2>1. NextId - 1 = predecessor + t
    BY <1>1, <1>2, <1>5
  <2> QED BY <1>2, <2>1
<1>8. \A m \in Start..Cut - 1 : Excused(m, trailed) \/ (Candle(m) \subseteq Ticks(log) /\ Emitted(m) = Candle(m))
  <2>1. \A m \in Start..Cut - 1 : Excused(m, trailed) \/ Candle(m) \subseteq Ticks(log)
    <3>1. Start .. Start + Count(log, "time") - 1 = Start..Cut - 1
      BY <1>2, <1>3, VenueAssumption
    <3> HIDE DEF t
    <3> QED BY <1>2, <3>1
  <2>2. \A m : Candle(m) \subseteq Ticks(log) => Emitted(m) = Candle(m)
    BY DEF Emitted
  <2> QED BY <2>1, <2>2
<1> QED BY <1>2, <1>3, <1>5, <1>6, <1>7, <1>8

\* While time goes on, a print that was not emitted and is not of a later minute goes on with
\* the chain in the open minute.
LEMMA NextFits ==
  ASSUME Types, Sound(log, predecessor, trailed), Anchored(log, predecessor), Chronological,
         mode # "bars", predecessor # 0, NEW i \in Ids, i >= NextId, MinuteOf(i) <= Cut
  PROVE  Fits(i)
<1>1. tape \in Seq(Nat) /\ predecessor \in Nat
  BY DEF Types
<1>2. /\ \A k \in Ids : k \in Nat /\ k >= 1 /\ MinuteOf(k) \in Nat
      /\ \A k, j \in Ids : k <= j => Ts(k) <= Ts(j)
      /\ Ids = 1..Len(tape) /\ Len(tape) \in Nat
      /\ \A m : \A k \in Ids : k \in Candle(m) <=> MinuteOf(k) = m
  BY <1>1, TapeFacts
<1>3. /\ Cut \in Nat /\ NextId \in Nat /\ NextId >= predecessor + 1
      /\ Ticks(log) = predecessor + 1 .. NextId - 1
      /\ \A m \in Start..Cut - 1 : Candle(m) \subseteq Ticks(log)
  BY <1>1, CursorFacts DEF Excused
<1>4. MinuteOf(i) >= Start
  BY <1>1, <1>2, <1>3, AnchorFacts
<1>5. MinuteOf(i) = Cut
  <2>1. MinuteOf(i) \notin Start..Cut - 1
    BY <1>2, <1>3
  <2> QED BY <1>2, <1>3, <1>4, <2>1, VenueAssumption
<1>6. Ts(i - 1) <= Ts(i)
  <2>1. i - 1 \in Ids /\ i - 1 <= i
    BY <1>1, <1>2, <1>3
  <2> QED BY <1>2, <2>1
<1> QED BY <1>5, <1>6 DEF Fits, Rises

\* While time goes on, the prints of the open minute before the next id were emitted.
LEMMA OpenMinute ==
  ASSUME Types, Sound(log, predecessor, trailed), Anchored(log, predecessor), Chronological,
         predecessor # 0, NEW i \in Candle(Cut), i < NextId
  PROVE  i \in Emitted(Cut)
<1>1. tape \in Seq(Nat) /\ predecessor \in Nat
  BY DEF Types
<1>2. i \in Ids /\ i \in Nat /\ MinuteOf(i) = Cut
  BY <1>1, TapeFacts DEF Candle
<1>3. /\ Cut \in Nat /\ Cut >= Start /\ NextId \in Nat
      /\ Ticks(log) = predecessor + 1 .. NextId - 1
  BY CursorFacts
<1>4. i > predecessor
  BY <1>1, <1>2, <1>3, AnchorFacts
<1> QED BY <1>1, <1>2, <1>3, <1>4 DEF Emitted

\* A page is a run of ids, and so is what it has up to some id.
LEMMA PageFacts ==
  ASSUME tape \in Seq(Nat), NEW from \in Nat, from >= 1, NEW ids \in History(from)
  PROVE  /\ ids \in SUBSET Ids /\ \A i \in ids : i >= from
         /\ \E b \in Nat : ids = from .. from + b - 1
         /\ \A last \in Int : \E b \in Nat : UpTo(ids, last) = from .. from + b - 1
<1>1. Ids = 1..Len(tape) /\ Len(tape) \in Nat
  BY TapeFacts
<1> DEFINE B == {from + PageLimit - 1, Len(tape)}
<1>2. Min(B) \in Nat /\ Min(B) <= Len(tape)
  <2>1. B \in SUBSET Nat /\ B # {} /\ Len(tape) \in B
    BY <1>1, VenueAssumption
  <2> HIDE DEF B
  <2> QED BY <2>1, MinOfNats
<1>3. PICK to \in from - 1 .. Min(B) : ids = from..to
  BY DEF History
<1> HIDE DEF B
<1>4. to \in Int /\ from - 1 <= to /\ to <= Len(tape)
  BY <1>1, <1>2, <1>3
<1>5. ids \in SUBSET Ids /\ \A i \in ids : i >= from
  BY <1>1, <1>3, <1>4
<1>6. to - from + 1 \in Nat /\ ids = from .. from + (to - from + 1) - 1
  BY <1>3, <1>4
<1>7. ASSUME NEW last \in Int PROVE \E b \in Nat : UpTo(ids, last) = from .. from + b - 1
  <2>7. CASE last >= to
    <3>1. UpTo(ids, last) = ids
      BY <1>3, <1>4, <2>7 DEF UpTo
    <3> QED BY <1>5, <1>6, <3>1
  <2>8. CASE last < from
    <3>1. UpTo(ids, last) = {}
      BY <1>3, <1>4, <2>8 DEF UpTo
    <3>2. from .. from + 0 - 1 = {}
      OBVIOUS
    <3> QED BY <1>5, <1>6, <3>1, <3>2
  <2>9. CASE from <= last /\ last < to
    <3>1. UpTo(ids, last) = from..last
      BY <1>3, <1>4, <2>9 DEF UpTo
    <3>2. last - from + 1 \in Nat /\ from + (last - from + 1) - 1 = last
      BY <2>9
    <3>3. UpTo(ids, last) = from .. from + (last - from + 1) - 1
      BY <3>1, <3>2
    <3> QED BY <1>5, <1>6, <3>2, <3>3
  <2>10. last >= to \/ last < from \/ (from <= last /\ last < to)
    BY <1>4
  <2> QED BY <2>7, <2>8, <2>9, <2>10
<1> QED BY <1>5, <1>6, <1>7

\* The rows that REST shows of some minutes, those that are in hand with them, and one of them.
LEMMA TrailingFacts ==
  ASSUME NEW rows \in Held
  PROVE  /\ DOMAIN rows \in SUBSET Int /\ Trailing(rows) \in SUBSET Int
         /\ \A m \in DOMAIN rows : rows[m] \in SUBSET Nat /\ (rows[m] = Candle(m) \/ m \in Trailing(rows))
BY DEF Held, Trailing

LEMMA AnswersFacts ==
  ASSUME tape \in Seq(Nat), NEW minutes \in SUBSET Int, NEW rows \in Answers(minutes)
  PROVE  rows \in Held /\ DOMAIN rows = minutes
<1>1. PICK seen \in 0..Len(tape) : rows = [m \in minutes |-> {i \in Candle(m) : i <= seen}]
  BY DEF Answers
<1>2. \A m : Candle(m) \in SUBSET Nat
  BY TapeFacts
<1>3. rows \in [minutes -> SUBSET Nat]
  BY <1>1, <1>2
<1> QED BY <1>3 DEF Held

LEMMA RowsFacts ==
  ASSUME tape \in Seq(Nat), NEW from \in Int, NEW end \in Int, NEW rows \in Rows(from, end)
  PROVE  /\ rows \in Held
         /\ \E m \in Int : /\ DOMAIN rows = from..m /\ from <= m
                           /\ m <= end - 1 /\ m <= LastMinute
<1> DEFINE most == Min({end - 1, LastMinute})
<1>1. LastMinute \in Int /\ end - 1 \in Int /\ {end - 1, LastMinute} \in SUBSET Int
  BY VenueAssumption
<1>2. most \in Int /\ most <= end - 1 /\ most <= LastMinute
  <2>1. CASE end - 1 <= LastMinute
    <3>1. \A y \in {end - 1, LastMinute} : end - 1 <= y
      BY <1>1, <2>1
    <3>2. Min({end - 1, LastMinute}) = end - 1
      <4>1. end - 1 \in {end - 1, LastMinute}
        OBVIOUS
      <4> QED BY <1>1, <3>1, <4>1, MinIs
    <3> QED BY <1>1, <2>1, <3>2
  <2>2. CASE LastMinute <= end - 1
    <3>1. \A y \in {end - 1, LastMinute} : LastMinute <= y
      BY <1>1, <2>2
    <3>2. Min({end - 1, LastMinute}) = LastMinute
      <4>1. LastMinute \in {end - 1, LastMinute}
        OBVIOUS
      <4> QED BY <1>1, <3>1, <4>1, MinIs
    <3> QED BY <1>1, <2>2, <3>2
  <2> QED BY <1>1, <2>1, <2>2
<1>3. PICK m \in from..most : rows \in Answers(from..m)
  BY DEF Rows
<1> HIDE DEF most
<1>4. m \in Int /\ from <= m /\ m <= end - 1 /\ m <= LastMinute /\ from..m \in SUBSET Int
  BY <1>1, <1>2, <1>3
<1>5. rows \in Held /\ DOMAIN rows = from..m
  BY <1>3, <1>4, AnswersFacts
<1> QED BY <1>4, <1>5

LEMMA EmplacedFacts ==
  ASSUME NEW held \in Held, NEW rows \in Held
  PROVE  /\ Emplaced(held, rows) \in Held
         /\ DOMAIN Emplaced(held, rows) = DOMAIN held \cup DOMAIN rows
         /\ \A m \in DOMAIN held \cup DOMAIN rows :
                Emplaced(held, rows)[m] = IF m \in DOMAIN held THEN held[m] ELSE rows[m]
<1>1. /\ DOMAIN held \in SUBSET Int /\ DOMAIN rows \in SUBSET Int
      /\ \A m \in DOMAIN held : held[m] \in SUBSET Nat
      /\ \A m \in DOMAIN rows : rows[m] \in SUBSET Nat
  BY TrailingFacts
<1> DEFINE both == DOMAIN held \cup DOMAIN rows
<1>2. Emplaced(held, rows) \in [both -> SUBSET Nat]
  BY <1>1 DEF Emplaced
<1>3. both \in SUBSET Int
  BY <1>1
<1> QED BY <1>2, <1>3 DEF Held, Emplaced

LEMMA NoRowsFacts == NoRows \in Held /\ DOMAIN NoRows = {} /\ Trailing(NoRows) = {}
<1>1. NoRows \in [{} -> SUBSET Nat] /\ {} \in SUBSET Int
  BY DEF NoRows
<1> QED BY <1>1 DEF Held, NoRows, Trailing

LEMMA EndsWithFacts ==
  ASSUME Cut \in Int, NEW row \in SUBSET Nat
  PROVE  EndsWith(row) \in Held /\ DOMAIN EndsWith(row) = {Cut} /\ EndsWith(row)[Cut] = row
<1>1. EndsWith(row) \in [{Cut} -> SUBSET Nat] /\ {Cut} \in SUBSET Int
  BY DEF EndsWith
<1> QED BY <1>1 DEF Held, EndsWith

----------------------------------------------------------------------------
(* What the steps are made of.                                             *)

\* What is said of given lines and of what is in hand does not change with the step.
LEMMA Stays ==
  ASSUME tape' = tape, mode' = mode, NEW lines, NEW p, NEW new, NEW closed, NEW late,
         log' = lines, predecessor' = p, mem' = new, proofs' = closed, trailed' = late
  PROVE  /\ Sound(lines, p, late) => Sound(log, predecessor, trailed)'
         /\ Anchored(lines, p) => Anchored(log, predecessor)'
         /\ InHand(new, lines, p) => InHand(mem, log, predecessor)'
         /\ Kept(lines, closed, late) => Kept(log, proofs, trailed)'
         /\ InStock(new.candles, late) => InStock(mem.candles, trailed)'
<1>1. /\ Ids' = Ids /\ (\A i : Ts(i)' = Ts(i) /\ MinuteOf(i)' = MinuteOf(i))
      /\ (\A m : Candle(m)' = Candle(m)) /\ Predecessors' = Predecessors
      /\ Chronological' = Chronological
  BY DEF Ids, Ts, MinuteOf, Candle, Predecessors, Chronological
<1>2. Sound(lines, p, late) => Sound(log, predecessor, trailed)'
  BY <1>1 DEF Sound, Chain, Extends, Excused
<1>3. Anchored(lines, p) => Anchored(log, predecessor)'
  BY <1>1 DEF Anchored
<1>4. InHand(new, lines, p) => InHand(mem, log, predecessor)'
  BY <1>1 DEF InHand
<1>5. Kept(lines, closed, late) => Kept(log, proofs, trailed)'
  BY <1>1 DEF Kept, Right
<1>6. InStock(new.candles, late) => InStock(mem.candles, trailed)'
  BY <1>1 DEF InStock, Right
<1> QED BY <1>2, <1>3, <1>4, <1>5, <1>6

LEMMA AlarmsStay ==
  ASSUME AlarmsAreTrue, tape' = tape, trailed \subseteq trailed',
         stop' = stop \/ stop' \in {"none", "died", "source", "overrun"}
  PROVE  AlarmsAreTrue'
<1>1. (\A m : Candle(m)' = Candle(m)) /\ Chronological' = Chronological
  BY DEF Ids, Ts, MinuteOf, Candle, Chronological
<1>2. trailed # {} => trailed' # {}
  OBVIOUS
<1> QED BY <1>1, <1>2 DEF AlarmsAreTrue

\* A step of the process that closes no minute keeps the invariant if what it stages is sound and
\* what it has in hand belongs to it.
LEMMA StepKeeps ==
  ASSUME SessionInv, NEW new \in Memory, NEW lines \in Seq(Line), NEW p \in Nat,
         Becomes(new, lines, p), source' \in {0, 1}, queue' \in Seq(Messages),
         Sound(lines, p, trailed), Anchored(lines, p), InHand(new, lines, p),
         CutOf(lines) = CutOf(log), InStock(new.candles, trailed)
  PROVE  SessionInv'
<1>1. /\ tape' = tape /\ mode' = mode /\ stop' = stop /\ log' = lines /\ predecessor' = p /\ mem' = new
      /\ proofs' = proofs /\ trailed' = trailed
  BY DEF Becomes
<1>2. Types'
  <2>1. Minutes' = Minutes
    BY DEF Minutes
  <2> QED BY <1>1, <2>1 DEF SessionInv, Types
<1>3. AlarmsAreTrue'
  BY <1>1, AlarmsStay DEF SessionInv
<1>4. Kept(lines, proofs, trailed)
  BY DEF SessionInv, Kept
<1> QED BY <1>1, <1>2, <1>3, <1>4, Stays DEF SessionInv

\* So does one that closes minutes, if their candles are right, or judged by rows that trailed.
LEMMA EndsKeeps ==
  ASSUME SessionInv, NEW new \in Memory, NEW lines \in Seq(Line), NEW candles \in Held,
         NEW judged \in Held, Ends(new, lines, candles, judged),
         NEW late, late = trailed \cup Trailing(judged),
         Sound(lines, predecessor, late), Anchored(lines, predecessor),
         InHand(new, lines, predecessor), InStock(candles, late), InStock(new.candles, late),
         \A m \in Start..CutOf(lines) - 1 : m \in Start..CutOf(log) - 1 \/ m \in DOMAIN candles
  PROVE  SessionInv'
<1> DEFINE closed == [m \in Minutes |-> IF m \in DOMAIN candles THEN candles[m] ELSE proofs[m]]
<1>1. /\ tape' = tape /\ mode' = mode /\ stop' = stop /\ log' = lines /\ mem' = new
      /\ predecessor' = predecessor /\ proofs' = closed /\ trailed' = late
      /\ source' = source /\ queue' = queue
  BY DEF Ends, pumpVars
<1>2. /\ Types /\ Kept(log, proofs, trailed) /\ AlarmsAreTrue
      /\ proofs \in [Minutes -> SUBSET Nat] /\ trailed \in SUBSET Int
  BY DEF SessionInv, Types
<1>3. closed \in [Minutes -> SUBSET Nat]
  BY <1>2, TrailingFacts
<1>4. \A m \in Minutes : closed[m] = IF m \in DOMAIN candles THEN candles[m] ELSE proofs[m]
  OBVIOUS
<1> HIDE DEF closed
<1>5. late \in SUBSET Int /\ trailed \subseteq late
  BY <1>2, TrailingFacts
<1>6. Types'
  <2>1. Minutes' = Minutes
    BY DEF Minutes
  <2> QED BY <1>1, <1>2, <1>3, <1>5, <2>1 DEF Types
<1>7. AlarmsAreTrue'
  BY <1>1, <1>2, <1>5, AlarmsStay
<1>8. Kept(lines, closed, late)
  <2> SUFFICES ASSUME NEW m \in Start..CutOf(lines) - 1 PROVE Right(m, closed[m], late)
    BY DEF Kept
  <2>1. \A n \in Start..LastMinute : n \in Minutes
    BY VenueAssumption DEF Minutes
  <2>2. CASE m \in DOMAIN candles
    <3>1. Right(m, candles[m], late)
      BY <2>2 DEF InStock
    <3> QED BY <1>4, <2>1, <2>2, <3>1 DEF Right
  <2>3. CASE m \notin DOMAIN candles
    <3>1. Right(m, proofs[m], trailed)
      BY <1>2, <2>3 DEF Kept
    <3> QED BY <1>4, <1>5, <2>1, <2>3, <3>1 DEF Right
  <2> QED BY <2>2, <2>3
<1> QED BY <1>1, <1>6, <1>7, <1>8, Stays DEF SessionInv

\* A process that ends leaves a beginning of what was sound.
LEMMA StopKeeps ==
  ASSUME SessionInv, NEW why, NEW lines \in Seq(Line), NEW judged \in Held, StopsBy(why, lines, judged),
         Sound(lines, predecessor, trailed), lines = log \/ predecessor # 0 \/ mode = "bars",
         CutOf(lines) = CutOf(log),
         why \in {"conflict", "prefix"} => ~ Chronological \/ trailed # {} \/ Trailing(judged) # {},
         why = "regressed" => ~ Chronological,
         why = "ambiguous" => ~ Chronological \/ \E m \in Start..LastMinute : Candle(m) = {}
  PROVE  SessionInv'
<1> DEFINE new == [NewMem({}) EXCEPT !.pc = "stopped"]
           late == trailed \cup Trailing(judged)
           closed == [m \in Minutes |-> IF m < Cut' THEN proofs[m] ELSE {}]
<1>1. /\ tape' = tape /\ mode' = mode /\ predecessor' = predecessor /\ stop' = why /\ mem' = new
      /\ source' = source /\ queue' = <<>> /\ trailed' = late /\ proofs' = closed
  BY DEF StopsBy, PumpReset
<1>2. PICK n \in 0..Len(lines) : log' = SubSeq(lines, 1, n)
  BY DEF StopsBy
<1>0. /\ Types /\ Kept(log, proofs, trailed) /\ predecessor \in Nat
      /\ proofs \in [Minutes -> SUBSET Nat] /\ trailed \in SUBSET Int
      /\ trailed \subseteq late /\ Trailing(judged) \in SUBSET Int
  BY TrailingFacts DEF SessionInv, Types
<1> DEFINE short == SubSeq(lines, 1, n)
<1>3. /\ short \in Seq(Line) /\ Sound(short, predecessor, trailed)
      /\ Count(short, "time") \in Nat /\ Count(lines, "time") \in Nat
      /\ Count(short, "time") <= Count(lines, "time")
  BY SoundBeginning
<1>9. /\ Sound(short, predecessor, late) /\ CutOf(short) \in Int
      /\ CutOf(short) <= CutOf(log) /\ CutOf(log) \in Int
  <2>1. Sound(short, predecessor, late)
    BY <1>0, <1>3, SoundLater
  <2> HIDE DEF short
  <2> QED BY <1>3, <2>1, VenueAssumption DEF CutOf
<1>10. Cut' = CutOf(short)
  <2>1. Cut' = Start + Cardinality(OfKind(log', "time"))
    BY DEF Cut, OfKind
  <2> HIDE DEF short
  <2>2. log' = short
    BY <1>2 DEF short
  <2> QED BY <2>1, <2>2 DEF CutOf, Count
<1>4. new \in Memory /\ new.pc = "stopped" /\ new.pending = {} /\ new.candles = NoRows
  BY NoRowsFacts DEF Memory, NewMem
<1>11. /\ closed \in [Minutes -> SUBSET Nat]
       /\ \A m \in Minutes : m < CutOf(short) => closed[m] = proofs[m]
  BY <1>0, <1>10
<1> HIDE DEF new, closed, late
<1>12. late \in SUBSET Int
  BY <1>0 DEF late
<1>5. Types'
  <2>1. Minutes' = Minutes
    BY DEF Minutes
  <2> QED BY <1>0, <1>1, <1>2, <1>3, <1>4, <1>11, <1>12, <2>1 DEF Types
<1>6. Anchored(short, predecessor)
  <2>1. ASSUME predecessor = 0, mode # "bars" PROVE short = <<>>
    <3>1. lines = <<>>
      BY <2>1 DEF SessionInv, Anchored
    <3>2. Len(lines) = 0 /\ n = 0
      BY <1>2, <3>1
    <3> QED BY <3>2
  <2> QED BY <2>1 DEF SessionInv, Anchored
<1>7. InHand(new, short, predecessor)
  BY <1>4 DEF InHand
<1>8. AlarmsAreTrue'
  <2>1. (\A m : Candle(m)' = Candle(m)) /\ Chronological' = Chronological
    BY <1>1 DEF Ids, Ts, MinuteOf, Candle, Chronological
  <2>2. trailed # {} \/ Trailing(judged) # {} => trailed' # {}
    BY <1>1 DEF late
  <2> QED BY <1>1, <2>1, <2>2 DEF AlarmsAreTrue
<1>13. Kept(short, closed, late)
  <2> SUFFICES ASSUME NEW m \in Start..CutOf(short) - 1 PROVE Right(m, closed[m], late)
    BY DEF Kept
  <2> HIDE DEF short
  <2>1. m \in Start..CutOf(log) - 1 /\ m < CutOf(short)
    BY <1>9, VenueAssumption
  <2>2. Right(m, proofs[m], trailed)
    BY <1>0, <2>1 DEF Kept
  <2>3. m \in Minutes
    BY <2>2, VenueAssumption DEF Right, Minutes
  <2> QED BY <1>0, <1>11, <2>1, <2>2, <2>3 DEF Right
<1>14. InStock(new.candles, late)
  BY <1>4, NoRowsFacts DEF InStock
<1> HIDE DEF short
<1>15. log' = short
  BY <1>2 DEF short
<1> QED BY <1>1, <1>5, <1>6, <1>7, <1>8, <1>9, <1>13, <1>14, <1>15, Stays DEF SessionInv

\* The prints that fit are a beginning of the run, and the log with them is sound.
LEMMA FittingRun ==
  ASSUME Types, Sound(log, predecessor, trailed), NEW b \in Nat, NextId .. NextId + b - 1 \in SUBSET Ids,
         NEW ids, ids = NextId .. NextId + b - 1
  PROVE  \E c \in 0..b :
             LET more == log \o Lines(Fitting(ids))
             IN  /\ Fitting(ids) = NextId .. NextId + c - 1
                 /\ more \in Seq(Line) /\ Sound(more, predecessor, trailed)
                 /\ CutOf(more) = Cut /\ NextOf(more, predecessor) = NextId + c
                 /\ Ticks(more) = Ticks(log) \cup Fitting(ids)
                 /\ Fitting(ids) \subseteq Candle(Cut)
<1>1. /\ tape \in Seq(Nat) /\ log \in Seq(Line) /\ predecessor \in Nat
      /\ NextId \in Nat /\ NextId = NextOf(log, predecessor) /\ CutOf(log) = Cut
      /\ Count(log, "tick") \in Nat
      /\ LastId = IF Count(log, "tick") = 0 THEN 0 ELSE NextId - 1
      /\ NextId = predecessor + Count(log, "tick") + 1
  BY CursorFacts DEF Types
<1>0. NextId \in Nat /\ (LastId = 0 => Count(log, "tick") = 0)
  <2>1. ASSUME Count(log, "tick") # 0 PROVE LastId # 0
    <3>1. LastId = NextId - 1
      BY <1>1, <2>1
    <3>2. NextId - 1 = predecessor + Count(log, "tick")
      BY <1>1
    <3>3. predecessor + Count(log, "tick") # 0
      BY <1>1, <2>1
    <3> QED BY <3>1, <3>2, <3>3
  <2> QED BY <1>1, <2>1
<1>2. \E c \in 0..b : Fitting(ids) = NextId .. NextId + c - 1
  <2>1. \A i \in Fitting(ids) : i \in ids /\ \A j \in ids : j <= i => j \in Fitting(ids)
    BY <1>1 DEF Fitting
  <2>2. CASE Fitting(ids) = {}
    <3>1. NextId .. NextId + 0 - 1 = {} /\ 0 \in 0..b
      BY <1>1
    <3> QED BY <2>2, <3>1
  <2>3. CASE Fitting(ids) # {}
    <3> DEFINE top == Max(Fitting(ids))
    <3>1. Fitting(ids) \in SUBSET Nat /\ \A i \in Fitting(ids) : i <= NextId + b - 1
      BY <1>1, <2>1
    <3>2. NextId + b - 1 \in Nat
      BY <1>1, <2>1, <2>3
    <3>3. top \in Fitting(ids) /\ \A i \in Fitting(ids) : top >= i
      BY <2>3, <3>1, <3>2, MaxOfNats
    <3> HIDE DEF top
    <3>4. top \in Nat /\ top >= NextId /\ top <= NextId + b - 1
      BY <1>1, <2>1, <3>1, <3>3
    <3>5. \A j : j \in Fitting(ids) <=> j \in NextId..top
      BY <1>1, <2>1, <3>1, <3>3, <3>4
    <3>6. top - NextId + 1 \in 0..b /\ NextId + (top - NextId + 1) - 1 = top
      <4>1. /\ top - NextId + 1 \in Int /\ 0 <= top - NextId + 1 /\ top - NextId + 1 <= b
            /\ NextId + (top - NextId + 1) - 1 = top
        BY <1>0, <3>4
      <4> QED BY <4>1
    <3>7. Fitting(ids) = NextId .. NextId + (top - NextId + 1) - 1
      BY <3>5, <3>6
    <3> QED BY <3>6, <3>7
  <2> QED BY <2>2, <2>3
<1>3. PICK c \in 0..b : Fitting(ids) = NextId .. NextId + c - 1
  BY <1>2
<1> DEFINE s == [n \in 1..c |-> <<"tick", NextOf(log, predecessor) + n - 1>>]
<1>4. Lines(Fitting(ids)) = s
  <2>1. Cardinality(Fitting(ids)) = c
    <3>1. NextId <= (NextId + c - 1) + 1 /\ (NextId + c - 1) - NextId + 1 = c /\ NextId + c - 1 \in Int
      BY <1>1, SMTT(40)
    <3> QED BY <1>1, <1>3, <3>1, Interval
  <2>2. c # 0 => Min(Fitting(ids)) = NextId
    <3>1. c # 0 => NextId \in Fitting(ids) /\ \A y \in Fitting(ids) : NextId <= y
      BY <1>0, <1>3
    <3>2. Fitting(ids) \in SUBSET Int
      BY <1>0, <1>3
    <3> QED BY <3>1, <3>2, MinIs
  <2>3. \A n \in 1..c : Min(Fitting(ids)) + n - 1 = NextOf(log, predecessor) + n - 1
    BY <1>1, <2>2
  <2> QED BY <2>1, <2>3 DEF Lines
<1>5. \A i \in NextId .. NextId + c - 1 :
          /\ i \in Ids /\ MinuteOf(i) = CutOf(log)
          /\ (Count(log, "tick") = 0 /\ i = NextId) \/ Ts(i - 1) <= Ts(i)
  <2> SUFFICES ASSUME NEW i \in NextId .. NextId + c - 1
               PROVE  /\ i \in Ids /\ MinuteOf(i) = CutOf(log)
                      /\ (Count(log, "tick") = 0 /\ i = NextId) \/ Ts(i - 1) <= Ts(i)
    OBVIOUS
  <2>1. i \in Fitting(ids) /\ i \in ids /\ i <= i
    BY <1>1, <1>3, SMTT(40) DEF Fitting
  <2>2. Fits(i) /\ i \in Ids
    BY <2>1 DEF Fitting
  <2> QED BY <1>0, <1>1, <2>2 DEF Fits, Rises
<1>6. LET more == log \o s
      IN  /\ more \in Seq(Line) /\ Sound(more, predecessor, trailed)
          /\ Count(more, "tick") = Count(log, "tick") + c
          /\ Count(more, "time") = Count(log, "time")
  <2>1. \A i \in NextOf(log, predecessor) .. NextOf(log, predecessor) + c - 1 :
            /\ i \in Ids /\ MinuteOf(i) = CutOf(log)
            /\ (Count(log, "tick") = 0 /\ i = NextOf(log, predecessor)) \/ Ts(i - 1) <= Ts(i)
    BY <1>1, <1>5
  <2>2. c \in Nat
    OBVIOUS
  <2> QED BY <1>1, <2>1, <2>2, AppendTicks
<1> HIDE DEF s
<1> DEFINE more == log \o s
<1>7. more \in Seq(Line) /\ Sound(more, predecessor, trailed) /\ CutOf(more) = Cut
  BY <1>1, <1>6 DEF CutOf
<1>8. Count(more, "tick") = Count(log, "tick") + c
  BY <1>6
<1> HIDE DEF more
<1>9. NextOf(more, predecessor) = NextId + c /\ predecessor + Count(more, "tick") = NextId + c - 1
  <2>1. NextId = predecessor + Count(log, "tick") + 1 /\ Count(log, "tick") \in Nat /\ predecessor \in Nat
    BY <1>1
  <2>2. predecessor + Count(more, "tick") = NextId + c - 1
    BY <1>8, <2>1, SMTT(40)
  <2>3. NextOf(more, predecessor) = predecessor + Count(more, "tick") + 1
    BY DEF NextOf
  <2> QED BY <1>0, <1>8, <2>1, <2>2, <2>3
<1>10. Ticks(more) = predecessor + 1 .. predecessor + Count(more, "tick")
  BY <1>1, <1>7, WholeFacts
<1>11. Ticks(log) = predecessor + 1 .. NextId - 1 /\ NextId >= predecessor + 1
  BY <1>1, CursorFacts
<1>12. Ticks(more) = Ticks(log) \cup Fitting(ids)
  <2>1. predecessor + 1 .. NextId + c - 1 = (predecessor + 1 .. NextId - 1) \cup (NextId .. NextId + c - 1)
    <3>1. c \in Nat /\ predecessor \in Nat
      BY <1>1
    <3> QED BY <1>0, <1>11, <3>1
  <2> QED BY <1>3, <1>9, <1>10, <1>11, <2>1
<1>13. Fitting(ids) \subseteq Candle(Cut)
  BY <1>1, <1>3, <1>5, TapeFacts
<1> QED BY <1>3, <1>4, <1>7, <1>9, <1>12, <1>13 DEF more
\* emit_trade(), one print after the other.
LEMMA EmitsKeeps ==
  ASSUME SessionInv, mode # "bars", predecessor # 0, NEW b \in Nat, NEW ids,
         ids = NextId .. NextId + b - 1, ids \in SUBSET Ids, mem.pc # "stopped",
         Chronological => Fitting(ids) = ids, Emits(ids)
  PROVE  SessionInv'
<1>1. /\ Types /\ Sound(log, predecessor, trailed) /\ Anchored(log, predecessor)
      /\ InHand(mem, log, predecessor) /\ mem \in Memory /\ predecessor \in Nat
      /\ tape \in Seq(Nat) /\ source \in {0, 1} /\ queue \in Seq(Messages)
  BY DEF SessionInv, Types
<1>2. NextId \in Nat /\ CutOf(log) = Cut /\ NextOf(log, predecessor) = NextId
  BY <1>1, CursorFacts
<1> DEFINE more == log \o Lines(Fitting(ids))
<1>3. PICK c \in 0..b :
          /\ Fitting(ids) = NextId .. NextId + c - 1
          /\ more \in Seq(Line) /\ Sound(more, predecessor, trailed)
          /\ CutOf(more) = Cut /\ NextOf(more, predecessor) = NextId + c
          /\ Ticks(more) = Ticks(log) \cup Fitting(ids)
          /\ Fitting(ids) \subseteq Candle(Cut)
  BY <1>1, FittingRun
<1> HIDE DEF more
<1>4. CASE Fitting(ids) = ids
  <2> DEFINE new == [mem EXCEPT !.aggregate = @ \cup ids, !.pending = @ \ ids]
  <2>1. Becomes(new, more, predecessor) /\ source' = source /\ queue' = queue
    BY <1>4 DEF Emits, Works, pumpVars, more
  <2>2. ids \in SUBSET Nat
    BY <1>1, TapeFacts
  <2>3. /\ new \in Memory /\ new.pc = mem.pc /\ new.closing = mem.closing
        /\ new.aggregate = mem.aggregate \cup ids /\ new.pending = mem.pending \ ids
        /\ new.candles = mem.candles
    BY <1>1, <2>2 DEF Memory
  <2> HIDE DEF new
  <2>4. Anchored(more, predecessor)
    BY <1>1 DEF Anchored
  <2>5. mem.aggregate \cup ids = Ticks(more) \cap Candle(Cut)
    BY <1>1, <1>2, <1>3, <1>4 DEF InHand
  <2>6. ASSUME Chronological, NEW i \in new.pending PROVE i >= NextOf(more, predecessor)
    <3>1. i \in mem.pending /\ i \notin ids /\ i >= NextId
      BY <1>1, <1>2, <2>3, <2>6 DEF InHand
    <3>2. i \in Nat
      BY <1>1, <3>1 DEF Memory
    <3> QED BY <1>2, <1>3, <1>4, <3>1, <3>2
  <2>7. InHand(new, more, predecessor)
    BY <1>1, <1>2, <1>3, <2>3, <2>5, <2>6 DEF InHand
  <2> QED BY <1>1, <1>2, <1>3, <2>1, <2>3, <2>4, <2>7, StepKeeps DEF SessionInv
<1>5. CASE Fitting(ids) # ids
  <2>1. StopsWith(Misfit(ids), more)
    BY <1>5 DEF Emits, more
  <2>2. Misfit(ids) # "ambiguous"
    BY DEF Misfit
  <2>3. StopsBy(Misfit(ids), more, NoRows)
    BY <2>1 DEF StopsWith
  <2> QED BY <1>1, <1>2, <1>3, <1>5, <2>2, <2>3, NoRowsFacts, StopKeeps
<1> QED BY <1>4, <1>5

\* Prints that are put aside behind the predecessor: they wait for the next id.
LEMMA BufferKeeps ==
  ASSUME SessionInv, NEW p \in Anchors, mode # "bars", NEW ids \in SUBSET Ids,
         Chronological => \A i \in ids : i > p,
         NEW new \in Memory, new.pending = Buffered(ids), new.aggregate = mem.aggregate,
         new.pc = "drain" => mode = "range", new.pc = "advance" => mode \in Fences,
         new.pc # "close", mem.pc # "stopped", source' \in {0, 1}, queue' \in Seq(Messages),
         new.candles = mem.candles, Becomes(new, log, p)
  PROVE  SessionInv'
<1>1. /\ Types /\ Sound(log, predecessor, trailed) /\ Anchored(log, predecessor)
      /\ InHand(mem, log, predecessor) /\ mem \in Memory /\ predecessor \in Nat
      /\ tape \in Seq(Nat) /\ log \in Seq(Line)
  BY DEF SessionInv, Types
<1>2. p \in Nat /\ (predecessor = 0 => p \in Predecessors /\ p # 0) /\ (predecessor # 0 => p = predecessor)
  BY <1>1, TapeFacts DEF Anchors, Predecessors
<1>3. predecessor = 0 => log = <<>>
  BY <1>1 DEF Anchored
<1>4. Sound(log, p, trailed)
  BY <1>1, <1>2, <1>3, SoundEmpty
<1>5. Anchored(log, p)
  BY <1>1, <1>2 DEF Anchored
<1>6. /\ NextId \in Nat /\ NextOf(log, predecessor) = NextId /\ CutOf(log) = Cut
      /\ Count(log, "tick") \in Nat
      /\ LastId = IF Count(log, "tick") = 0 THEN 0 ELSE NextId - 1
  BY <1>1, CursorFacts
<1>7. new.pending \subseteq Ids /\ p # 0
  BY <1>1, <1>2 DEF InHand, Buffered
<1>8. ASSUME Chronological, NEW i \in new.pending PROVE i >= NextOf(log, p)
  <2>1. i \in Nat
    BY <1>1, <1>7, TapeFacts
  <2>2. CASE i \in mem.pending
    <3>1. predecessor # 0 /\ i >= NextId
      BY <1>1, <1>6, <1>8, <2>2 DEF InHand
    <3> QED BY <1>2, <1>6, <3>1
  <2>3. CASE i \in ids /\ i > LastId
    <3>1. CASE Count(log, "tick") = 0
      <4>1. i > p /\ NextOf(log, p) = p + 0 + 1
        BY <1>8, <2>3, <3>1 DEF NextOf
      <4> QED BY <1>2, <2>1, <4>1
    <3>2. CASE Count(log, "tick") # 0
      <4>1. log # <<>>
        BY <3>2, SoundEmpty
      <4>2. p = predecessor /\ i > NextId - 1
        BY <1>2, <1>3, <1>6, <2>3, <3>2, <4>1
      <4> QED BY <1>6, <2>1, <4>2
    <3> QED BY <3>1, <3>2
  <2> QED BY <2>2, <2>3 DEF Buffered
<1>9. InHand(new, log, p)
  BY <1>1, <1>7, <1>8 DEF InHand, Memory
<1> QED BY <1>1, <1>2, <1>4, <1>5, <1>9, StepKeeps DEF SessionInv
----------------------------------------------------------------------------
(* The steps.                                                              *)

LEMMA InvFacts ==
  ASSUME SessionInv
  PROVE  /\ Types /\ Sound(log, predecessor, trailed) /\ Anchored(log, predecessor)
         /\ InHand(mem, log, predecessor) /\ AlarmsAreTrue
         /\ Kept(log, proofs, trailed) /\ InStock(mem.candles, trailed) /\ mem.candles \in Held
         /\ tape \in Seq(Nat) /\ log \in Seq(Line) /\ predecessor \in Nat /\ mem \in Memory
         /\ source \in {0, 1} /\ queue \in Seq(Messages)
         /\ mode \in {"bars", "range", "fence", "aggregate"}
BY DEF SessionInv, Types, Memory

\* What a message leaves of the queue.
LEMMA HandleFacts ==
  ASSUME SessionInv, Takes, NEW new, NEW p, Handles(new, p)
  PROVE  /\ Becomes(new, log, p) /\ source' \in {0, 1} /\ queue' \in Seq(Messages)
<1>1. queue \in Seq(Messages) /\ queue # <<>> /\ source \in {0, 1}
  BY InvFacts DEF Takes
<1>2. Tail(queue) \in Seq(Messages)
  BY <1>1, HeadTailProperties
<1> QED BY <1>1, <1>2 DEF Handles

LEMMA AnchorsFacts ==
  ASSUME SessionInv, mode # "bars", NEW p \in Anchors
  PROVE  /\ p \in Nat /\ p # 0 /\ Anchored(log, p) /\ (mode \in Fences => p \in Predecessors)
         /\ Chronological => \A i \in Ids : MinuteOf(i) >= Start <=> i > p
<1>1. tape \in Seq(Nat) /\ predecessor \in Nat /\ Anchored(log, predecessor)
  BY InvFacts
<1>2. p \in Nat /\ p # 0 /\ (predecessor = 0 => p \in Predecessors) /\ (predecessor # 0 => p = predecessor)
  BY <1>1, TapeFacts DEF Anchors, Predecessors
<1>3. Anchored(log, p)
  BY <1>1, <1>2 DEF Anchored
<1>4. mode \in Fences => p \in Predecessors
  BY <1>1, <1>2 DEF Anchored, Fences
<1> QED BY <1>1, <1>2, <1>3, <1>4, AnchorFacts

\* What the open minute is, and what the closed ones were closed with.
LEMMA ClosedFacts ==
  ASSUME SessionInv
  PROVE  /\ Cut \in Nat /\ Cut >= Start /\ CutOf(log) = Cut
         /\ Proven \in SUBSET (Start..Cut - 1) /\ Proven \in SUBSET Int
         /\ \A m \in Start..Cut - 1 :
                /\ m \in Start..LastMinute
                /\ proofs[m] = Candle(m) \/ m \in trailed
                /\ mode = "range" => Emitted(m) = Candle(m) \/ ~ Chronological
                /\ mode = "fence" => Emitted(m) = Candle(m) \/ ~ Chronological
<1>1. /\ Cut \in Nat /\ Cut >= Start /\ CutOf(log) = Cut /\ Kept(log, proofs, trailed)
      /\ \A m \in Start..Cut - 1 : Excused(m, trailed) \/ (Candle(m) \subseteq Ticks(log) /\ Emitted(m) = Candle(m))
  BY InvFacts, CursorFacts
<1>2. Proven \in SUBSET (Start..Cut - 1)
  <2> DEFINE first == Max({Start, Cut - MaxProofs})
  <2>1. Start \in Int /\ Cut - MaxProofs \in Int /\ {Start, Cut - MaxProofs} \in SUBSET Int
    BY <1>1, VenueAssumption, SessionAssumption
  <2>2. first \in Int /\ first >= Start
    <3>1. CASE Start >= Cut - MaxProofs
      <4>1. Start \in {Start, Cut - MaxProofs} /\ \A y \in {Start, Cut - MaxProofs} : y <= Start
        BY <2>1, <3>1
      <4>2. first = Start
        BY <2>1, <4>1, MaxIs
      <4> QED BY <2>1, <4>2
    <3>2. CASE Cut - MaxProofs >= Start
      <4>1. /\ Cut - MaxProofs \in {Start, Cut - MaxProofs}
            /\ \A y \in {Start, Cut - MaxProofs} : y <= Cut - MaxProofs
        BY <2>1, <3>2
      <4>2. first = Cut - MaxProofs
        BY <2>1, <4>1, MaxIs
      <4> QED BY <2>1, <3>2, <4>2
    <3> QED BY <2>1, <3>1, <3>2
  <2>3. Proven = first..Cut - 1
    BY DEF Proven
  <2> HIDE DEF first
  <2> QED BY <1>1, <2>1, <2>2, <2>3
<1>3. ASSUME NEW m \in Start..Cut - 1
      PROVE  /\ m \in Start..LastMinute
             /\ proofs[m] = Candle(m) \/ m \in trailed
             /\ mode = "range" => Emitted(m) = Candle(m) \/ ~ Chronological
             /\ mode = "fence" => Emitted(m) = Candle(m) \/ ~ Chronological
  BY <1>1, <1>3 DEF Kept, Right, Excused
<1>4. \A m \in Start..Cut - 1 : m \in Int
  BY <1>1, VenueAssumption
<1> QED BY <1>1, <1>2, <1>3, <1>4

\* A stop whose reason accuses nobody, or truly.
LEMMA StopsKeeps ==
  ASSUME SessionInv, NEW why, Stops(why),
         why \in {"conflict", "prefix"} => ~ Chronological \/ trailed # {},
         why = "regressed" => ~ Chronological,
         why = "ambiguous" => ~ Chronological \/ \E m \in Start..LastMinute : Candle(m) = {}
  PROVE  SessionInv'
<1>1. StopsBy(why, log, NoRows)
  BY DEF Stops, StopsWith
<1> QED BY <1>1, InvFacts, NoRowsFacts, StopKeeps

\* The process goes on with the log and the predecessor it has, and with the same prints in hand.
LEMMA GoesOn ==
  ASSUME SessionInv, NEW new \in Memory, Becomes(new, log, predecessor),
         source' \in {0, 1}, queue' \in Seq(Messages), mem.pc # "stopped",
         new.pending = mem.pending, new.aggregate = mem.aggregate, InStock(new.candles, trailed),
         new.pc = "advance" => mode \in Fences, new.pc = "drain" => mode = "range",
         new.pc = "close" => mode \in {"range", "bars"} /\ new.closing \in Cut..LastMinute
  PROVE  SessionInv'
<1>1. InHand(new, log, predecessor)
  BY InvFacts, ClosedFacts DEF InHand
<1> QED BY <1>1, InvFacts, StepKeeps

LEMMA ConnectedKeeps ==
  ASSUME SessionInv, Connected
  PROVE  SessionInv'
<1>1. Takes /\ mem.pc = "take" /\ mem \in Memory /\ queue \in Seq(Messages) /\ queue # <<>>
  BY InvFacts DEF Connected, Takes
<1>2. Head(queue) \in Messages
  BY <1>1, HeadTailProperties
<1>3. PICK rows \in Answers(Proven) :
        IF \A m \in Proven : rows[m] = proofs[m] /\ (mode = "range" => rows[m] = Emitted(m))
        THEN Handles([mem EXCEPT !.verified = Head(queue).source], predecessor)
        ELSE StopsBy("conflict", log, rows)
  BY DEF Connected
<1>4. rows \in Held /\ DOMAIN rows = Proven
  BY <1>3, InvFacts, ClosedFacts, AnswersFacts
<1>5. CASE \A m \in Proven : rows[m] = proofs[m] /\ (mode = "range" => rows[m] = Emitted(m))
  <2> DEFINE new == [mem EXCEPT !.verified = Head(queue).source]
  <2>1. Handles(new, predecessor)
    BY <1>3, <1>5
  <2>2. /\ new \in Memory /\ new.pc = "take" /\ new.candles = mem.candles
        /\ new.pending = mem.pending /\ new.aggregate = mem.aggregate
    BY <1>1, <1>2 DEF Memory, Messages
  <2> HIDE DEF new
  <2> QED BY <1>1, <2>1, <2>2, InvFacts, HandleFacts, GoesOn
<1>6. CASE ~ \A m \in Proven : rows[m] = proofs[m] /\ (mode = "range" => rows[m] = Emitted(m))
  <2>1. PICK m \in Proven : ~ (rows[m] = proofs[m] /\ (mode = "range" => rows[m] = Emitted(m)))
    BY <1>6
  <2>2. /\ m \in Start..Cut - 1 /\ (proofs[m] = Candle(m) \/ m \in trailed)
        /\ mode = "range" => Emitted(m) = Candle(m) \/ ~ Chronological
    BY ClosedFacts
  <2>3. rows[m] = Candle(m) \/ m \in Trailing(rows)
    BY <1>4, TrailingFacts
  <2>4. ~ Chronological \/ trailed # {} \/ Trailing(rows) # {}
    BY <2>1, <2>2, <2>3
  <2>5. StopsBy("conflict", log, rows)
    BY <1>3, <1>6
  <2> QED BY <1>4, <2>4, <2>5, InvFacts, StopKeeps
<1> QED BY <1>5, <1>6

LEMMA RaisedFacts ==
  ASSUME mem \in Memory, NEW m \in Int
  PROVE  /\ Raised(m) \in Memory /\ Raised(m).pc = mem.pc /\ Raised(m).candles = mem.candles
         /\ Raised(m).pending = mem.pending /\ Raised(m).aggregate = mem.aggregate
<1> DEFINE w == Max({mem.watermark, m + 1})
<1>1. mem.watermark \in Int /\ m + 1 \in Int
  BY DEF Memory
<1>2. w \in Int
  <2>1. CASE mem.watermark >= m + 1
    <3>1. \A y \in {mem.watermark, m + 1} : y <= mem.watermark
      BY <1>1, <2>1
    <3>2. w = mem.watermark
      BY <1>1, <3>1, MaxIs
    <3> QED BY <1>1, <3>2
  <2>2. CASE mem.watermark <= m + 1
    <3>1. \A y \in {mem.watermark, m + 1} : y <= m + 1
      BY <1>1, <2>2
    <3>2. w = m + 1
      BY <1>1, <3>1, MaxIs
    <3> QED BY <1>1, <3>2
  <2> QED BY <1>1, <2>1, <2>2
<1> HIDE DEF w
<1>3. Raised(m) = [mem EXCEPT !.watermark = w]
  BY DEF Raised, w
<1> QED BY <1>2, <1>3 DEF Memory

LEMMA FenceTakesPrintKeeps ==
  ASSUME SessionInv, FenceTakesPrint
  PROVE  SessionInv'
<1>1. /\ Takes /\ mem.pc = "take" /\ mem \in Memory /\ mode \in Fences /\ mode # "bars"
      /\ tape \in Seq(Nat)
  BY InvFacts DEF FenceTakesPrint, TakesData, Takes, Fences
<1>2. PICK i \in Ids :
       \/ MinuteOf(i) < Start /\ Handles(mem, predecessor)
       \/ /\ MinuteOf(i) >= Start
          /\ \E p \in Anchors :
             \/ i = p /\ Stops("conflict")
             \/ i < p /\ Stops("regressed")
             \/ i > p /\ Overrun({i}) /\ Stops("overrun")
             \/ /\ i > p /\ ~ Overrun({i})
                /\ Handles([mem EXCEPT !.pending = Buffered({i}), !.pc = "advance"], p)
  BY DEF FenceTakesPrint
<1>3. i \in Nat /\ MinuteOf(i) \in Nat /\ \A j \in Ids : j \in Nat /\ MinuteOf(j) \in Nat
  BY <1>1, TapeFacts
<1>4. CASE MinuteOf(i) < Start /\ Handles(mem, predecessor)
  BY <1>1, <1>4, InvFacts, HandleFacts, GoesOn
<1>5. CASE MinuteOf(i) >= Start /\ ~ (MinuteOf(i) < Start /\ Handles(mem, predecessor))
  <2>1. PICK p \in Anchors :
             \/ i = p /\ Stops("conflict")
             \/ i < p /\ Stops("regressed")
             \/ i > p /\ Overrun({i}) /\ Stops("overrun")
             \/ /\ i > p /\ ~ Overrun({i})
                /\ Handles([mem EXCEPT !.pending = Buffered({i}), !.pc = "advance"], p)
    BY <1>2, <1>5
  <2>2. /\ p \in Nat /\ p \in Predecessors
        /\ Chronological => \A j \in Ids : MinuteOf(j) >= Start <=> j > p
    BY <1>1, AnchorsFacts
  <2>3. CASE i = p /\ Stops("conflict")
    <3>1. MinuteOf(p) < Start
      BY <2>2 DEF Predecessors
    <3> QED BY <1>3, <1>5, <2>3, <3>1, VenueAssumption
  <2>4. CASE i < p /\ Stops("regressed")
    <3>1. ~ Chronological
      BY <1>3, <1>5, <2>2, <2>4
    <3> QED BY <2>4, <3>1, StopsKeeps
  <2>5. CASE i > p /\ Overrun({i}) /\ Stops("overrun")
    BY <2>5, StopsKeeps
  <2>6. CASE i > p /\ Handles([mem EXCEPT !.pending = Buffered({i}), !.pc = "advance"], p)
    <3> DEFINE new == [mem EXCEPT !.pending = Buffered({i}), !.pc = "advance"]
    <3>1. Buffered({i}) \in SUBSET Nat
      BY <1>1, <1>3 DEF Buffered, Memory
    <3>2. /\ new \in Memory /\ new.pc = "advance" /\ new.candles = mem.candles
          /\ new.pending = Buffered({i}) /\ new.aggregate = mem.aggregate
      BY <1>1, <3>1 DEF Memory
    <3>3. Handles(new, p)
      BY <2>6
    <3> HIDE DEF new
    <3>4. {i} \in SUBSET Ids /\ \A j \in {i} : j > p
      BY <2>6
    <3> QED BY <1>1, <3>2, <3>3, <3>4, HandleFacts, BufferKeeps
  <2> QED BY <2>1, <2>3, <2>4, <2>5, <2>6
<1> QED BY <1>2, <1>4, <1>5

LEMMA FenceTakesCandleKeeps ==
  ASSUME SessionInv, FenceTakesCandle
  PROVE  SessionInv'
<1>1. Takes /\ mem.pc = "take" /\ mem \in Memory /\ mode \in Fences
  BY InvFacts DEF FenceTakesCandle, TakesData, Takes
<1>2. PICK m \in Minutes :
        IF \/ m \in Start..Cut - 1 /\ ~ Agrees(m)
           \/ m \in DOMAIN mem.candles /\ mem.candles[m] # Candle(m)
        THEN Stops("conflict")
        ELSE Handles([Raised(m) EXCEPT !.pc = "advance",
                          !.candles = IF m < Cut THEN @
                                      ELSE Emplaced(@, [n \in {m} |-> Candle(n)])], predecessor)
  BY DEF FenceTakesCandle
<1>3. m \in Int /\ m <= LastMinute /\ Cut \in Int /\ Start <= Cut
  BY ClosedFacts, VenueAssumption DEF Minutes
<1>4. CASE m \in Start..Cut - 1 /\ ~ Agrees(m)
  <2>1. ~ Chronological \/ trailed # {}
    <3>1. /\ proofs[m] = Candle(m) \/ m \in trailed
          /\ mode = "fence" => Emitted(m) = Candle(m) \/ ~ Chronological
      BY <1>4, ClosedFacts
    <3>2. mode = "fence" \/ mode = "aggregate"
      BY <1>1 DEF Fences
    <3> QED BY <1>4, <3>1, <3>2 DEF Agrees
  <2>2. Stops("conflict")
    BY <1>2, <1>4
  <2> QED BY <2>1, <2>2, StopsKeeps
<1>5. CASE m \in DOMAIN mem.candles /\ mem.candles[m] # Candle(m)
  <2>1. trailed # {}
    BY <1>5, InvFacts DEF InStock, Right
  <2>2. Stops("conflict")
    BY <1>2, <1>5
  <2> QED BY <2>1, <2>2, StopsKeeps
<1>6. CASE ~ (m \in Start..Cut - 1 /\ ~ Agrees(m)) /\ ~ (m \in DOMAIN mem.candles /\ mem.candles[m] # Candle(m))
  <2> DEFINE row == [n \in {m} |-> Candle(n)]
             more == IF m < Cut THEN mem.candles ELSE Emplaced(mem.candles, row)
             new == [Raised(m) EXCEPT !.pc = "advance", !.candles = more]
  <2>1. row \in Held /\ DOMAIN row = {m} /\ row[m] = Candle(m)
    <3>1. row \in [{m} -> SUBSET Nat] /\ {m} \in SUBSET Int
      BY <1>3, InvFacts, TapeFacts
    <3> QED BY <3>1 DEF Held
  <2> HIDE DEF row
  <2>2. more \in Held /\ InStock(more, trailed)
    <3>1. CASE m < Cut
      BY <3>1, InvFacts
    <3>2. CASE ~ (m < Cut)
      <4>1. m \in Start..LastMinute
        BY <1>3, <3>2, VenueAssumption
      <4>2. /\ Emplaced(mem.candles, row) \in Held
            /\ DOMAIN Emplaced(mem.candles, row) = DOMAIN mem.candles \cup {m}
            /\ \A n \in DOMAIN mem.candles \cup {m} :
                  Emplaced(mem.candles, row)[n] = IF n \in DOMAIN mem.candles THEN mem.candles[n] ELSE row[n]
        <5>1. mem.candles \in Held
          BY InvFacts
        <5>2. /\ Emplaced(mem.candles, row) \in Held
              /\ DOMAIN Emplaced(mem.candles, row) = DOMAIN mem.candles \cup DOMAIN row
              /\ \A n \in DOMAIN mem.candles \cup DOMAIN row :
                    Emplaced(mem.candles, row)[n] = IF n \in DOMAIN mem.candles THEN mem.candles[n] ELSE row[n]
          BY <2>1, <5>1, EmplacedFacts
        <5> QED BY <2>1, <5>2
      <4> QED BY <2>1, <3>2, <4>1, <4>2, InvFacts DEF InStock, Right
    <3> QED BY <3>1, <3>2
  <2>3. Handles(new, predecessor)
    <3>1. new = [Raised(m) EXCEPT !.pc = "advance",
                     !.candles = IF m < Cut THEN @ ELSE Emplaced(@, [n \in {m} |-> Candle(n)])]
      BY <1>1, <1>3, RaisedFacts DEF row
    <3> QED BY <1>2, <1>6, <3>1
  <2> HIDE DEF more
  <2>4. /\ new \in Memory /\ new.pc = "advance" /\ new.candles = more
        /\ new.pending = mem.pending /\ new.aggregate = mem.aggregate
    BY <1>1, <1>3, <2>2, RaisedFacts DEF Memory
  <2> HIDE DEF new
  <2> QED BY <1>1, <2>2, <2>3, <2>4, HandleFacts, GoesOn
<1> QED BY <1>4, <1>5, <1>6

\* put() of prints that REST shows.
LEMMA PutsHealedKeeps ==
  ASSUME SessionInv, mode \in Fences, mem.pc # "stopped", NEW p \in Anchors,
         NEW ids \in SUBSET Ids, \A i \in ids : i > p,
         NEW new \in Memory, new.aggregate = mem.aggregate, new.pc = "advance",
         new.candles = mem.candles, PutsHealed(new, ids, p)
  PROVE  SessionInv'
<1>1. mode # "bars" /\ tape \in Seq(Nat) /\ source \in {0, 1} /\ queue \in Seq(Messages)
  BY InvFacts DEF Fences
<1>2. \A i \in Ids : i \in Nat /\ MinuteOf(i) \in Nat
  BY <1>1, TapeFacts
<1>3. CASE (\E i \in ids : MinuteOf(i) < Start) /\ Stops("regressed")
  <2>1. ~ Chronological
    BY <1>1, <1>2, <1>3, AnchorsFacts, VenueAssumption
  <2> QED BY <1>3, <2>1, StopsKeeps
<1>4. CASE Stops("overrun")
  BY <1>4, StopsKeeps
<1>5. CASE Becomes([new EXCEPT !.pending = Buffered(ids)], log, p) /\ UNCHANGED pumpVars
  <2> DEFINE put == [new EXCEPT !.pending = Buffered(ids)]
  <2>1. Buffered(ids) \in SUBSET Nat
    BY <1>2, InvFacts DEF Buffered, Memory
  <2>2. /\ put \in Memory /\ put.pc = "advance" /\ put.candles = mem.candles
        /\ put.pending = Buffered(ids) /\ put.aggregate = mem.aggregate
    BY <2>1 DEF Memory
  <2>3. Becomes(put, log, p) /\ source' = source /\ queue' = queue
    BY <1>5 DEF pumpVars
  <2> HIDE DEF put
  <2> QED BY <1>1, <2>2, <2>3, BufferKeeps
<1> QED BY <1>3, <1>4, <1>5 DEF PutsHealed

LEMMA ReturnsKeeps ==
  ASSUME SessionInv, mem.pc # "stopped", Returns
  PROVE  SessionInv'
<1> DEFINE new == [mem EXCEPT !.pc = "take"]
<1>1. Becomes(new, log, predecessor) /\ source' = source /\ queue' = queue
  BY DEF Returns, Works, pumpVars
<1>2. /\ new \in Memory /\ new.pc = "take" /\ new.candles = mem.candles
      /\ new.pending = mem.pending /\ new.aggregate = mem.aggregate
  BY InvFacts DEF Memory
<1> HIDE DEF new
<1> QED BY <1>1, <1>2, InvFacts, GoesOn

LEMMA LooksAheadKeeps ==
  ASSUME SessionInv, LooksAhead
  PROVE  SessionInv'
<1> DEFINE looked == [mem EXCEPT !.forward = mem.watermark]
           back == [looked EXCEPT !.pc = "take"]
<1>1. /\ mem.pc = "advance" /\ mem \in Memory /\ mode \in Fences /\ mode # "bars"
      /\ tape \in Seq(Nat) /\ source \in {0, 1} /\ queue \in Seq(Messages)
  BY InvFacts DEF LooksAhead, InHand, Fences
<1>2. /\ looked \in Memory /\ looked.pc = "advance" /\ looked.candles = mem.candles
      /\ looked.pending = mem.pending /\ looked.aggregate = mem.aggregate
  BY <1>1 DEF Memory
<1>3. /\ back \in Memory /\ back.pc = "take" /\ back.candles = mem.candles
      /\ back.pending = mem.pending /\ back.aggregate = mem.aggregate
  BY <1>1 DEF Memory
<1>4. \/ Returns \/ Works(back, log)
      \/ \E p \in Anchors :
          \E ids \in History(IF predecessor = 0 THEN p + 1 ELSE NextId) :
             IF ids = {}
             THEN Becomes(back, log, p) /\ UNCHANGED pumpVars
             ELSE PutsHealed(looked, ids, p)
  BY DEF LooksAhead
<1> HIDE DEF looked, back
<1>5. CASE Returns
  BY <1>1, <1>5, ReturnsKeeps
<1>6. CASE Works(back, log)
  BY <1>1, <1>3, <1>6, InvFacts, GoesOn DEF Works, pumpVars
<1>7. ASSUME NEW p \in Anchors,
             NEW ids \in History(IF predecessor = 0 THEN p + 1 ELSE NextId),
             IF ids = {}
             THEN Becomes(back, log, p) /\ UNCHANGED pumpVars
             ELSE PutsHealed(looked, ids, p)
      PROVE  SessionInv'
  <2> DEFINE from == IF predecessor = 0 THEN p + 1 ELSE NextId
  <2>1. p \in Nat /\ (predecessor # 0 => p = predecessor) /\ predecessor \in Nat
    BY <1>1, AnchorsFacts, InvFacts DEF Anchors
  <2>2. from \in Nat /\ from >= p + 1
    <3>1. NextId \in Nat /\ NextId >= predecessor + 1
      BY <2>1, InvFacts, CursorFacts
    <3> QED BY <2>1, <3>1
  <2>3. ids \in History(from)
    BY <1>7
  <2> HIDE DEF from
  <2>0. from >= 1
    BY <2>1, <2>2
  <2>4. ids \in SUBSET Ids /\ \A i \in ids : i >= from
    BY <1>1, <2>0, <2>2, <2>3, PageFacts
  <2>5. \A i \in ids : i > p
    <3>1. \A i \in ids : i \in Nat
      BY <1>1, <2>4, TapeFacts
    <3> QED BY <2>1, <2>2, <2>4, <3>1
  <2>6. CASE ids = {}
    <3>1. Becomes(back, log, p) /\ source' = source /\ queue' = queue
      BY <1>7, <2>6 DEF pumpVars
    <3>2. Buffered({}) = mem.pending
      BY DEF Buffered
    <3> QED BY <1>1, <1>3, <3>1, <3>2, BufferKeeps
  <2>7. CASE ids # {}
    BY <1>1, <1>2, <1>7, <2>4, <2>5, <2>7, PutsHealedKeeps
  <2> QED BY <2>6, <2>7
<1> QED BY <1>4, <1>5, <1>6, <1>7

\* The least of what is pending.
LEMMA FirstFacts ==
  ASSUME SessionInv, mem.pending # {}
  PROVE  /\ First \in Ids /\ First \in Nat /\ MinuteOf(First) \in Nat
         /\ First \in mem.pending /\ predecessor # 0
         /\ Chronological => First >= NextId
<1>1. mem.pending \in SUBSET Nat /\ mem.pending \subseteq Ids /\ predecessor # 0
  BY InvFacts DEF Memory, InHand
<1>2. First \in mem.pending
  BY <1>1, MinOfNats DEF First
<1>3. First \in Ids /\ First \in Nat /\ MinuteOf(First) \in Nat
  BY <1>1, <1>2, InvFacts, TapeFacts
<1>4. Chronological => First >= NextId
  BY <1>2, InvFacts, CursorFacts DEF InHand
<1> QED BY <1>1, <1>2, <1>3, <1>4

LEMMA FenceHealsKeeps ==
  ASSUME SessionInv, FenceHeals
  PROVE  SessionInv'
<1>1. /\ mem.pc = "advance" /\ mem.pending # {} /\ mode \in Fences /\ mem \in Memory
      /\ tape \in Seq(Nat) /\ predecessor \in Nat /\ predecessor # 0
  BY InvFacts, FirstFacts DEF FenceHeals, Advances, InHand
<1>2. PICK ids \in Pages : PutsHealed(mem, UpTo(ids, First - 1), predecessor)
  BY DEF FenceHeals
<1>3. NextId \in Nat /\ NextId >= predecessor + 1
  BY <1>1, InvFacts, CursorFacts
<1>4. ids \in SUBSET Ids /\ \A i \in ids : i >= NextId
  <2>1. ids \in History(NextId) /\ NextId >= 1
    BY <1>1, <1>3 DEF Pages
  <2> QED BY <1>1, <1>3, <2>1, PageFacts
<1>5. UpTo(ids, First - 1) \in SUBSET Ids /\ \A i \in UpTo(ids, First - 1) : i > predecessor
  <2>1. \A i \in ids : i \in Nat
    BY <1>1, <1>4, TapeFacts
  <2> QED BY <1>1, <1>3, <1>4, <2>1 DEF UpTo
<1>6. predecessor \in Anchors
  BY <1>1 DEF Anchors
<1> QED BY <1>1, <1>2, <1>5, <1>6, PutsHealedKeeps

\* Under a fence the next print alone.
LEMMA NextAlone ==
  ASSUME SessionInv, mem.pending # {}, First = NextId, MinuteOf(First) <= Cut, mode # "bars",
         mem.pc # "stopped", Emits({First})
  PROVE  SessionInv'
<1>1. First \in Ids /\ predecessor # 0 /\ NextId \in Nat
  BY InvFacts, FirstFacts, CursorFacts
<1>2. {First} = NextId .. NextId + 1 - 1 /\ {First} \in SUBSET Ids
  BY <1>1
<1>3. Chronological => Fitting({First}) = {First}
  <2>1. Chronological => Fits(First)
    BY <1>1, InvFacts, NextFits
  <2> QED BY <2>1 DEF Fitting
<1> QED BY <1>1, <1>2, <1>3, EmitsKeeps

LEMMA FenceEmitsKeeps ==
  ASSUME SessionInv, FenceEmits
  PROVE  SessionInv'
<1>1. mem.pc = "advance" /\ mode # "bars"
  BY InvFacts DEF FenceEmits, Advances, InHand, Fences
<1> QED BY <1>1, NextAlone DEF FenceEmits, Advances

\* What is in hand of later minutes stays when one closes.
LEMMA ClosedStock ==
  ASSUME NEW held \in Held, NEW new \in Memory, NEW late
  PROVE  LET after == Closed([new EXCEPT !.candles = held])
         IN  /\ after \in Memory /\ after.pc = new.pc /\ after.closing = new.closing
             /\ after.aggregate = {} /\ after.pending = new.pending /\ after.verified = new.verified
             /\ InStock(held, late) => InStock(after.candles, late)
<1> DEFINE less == [m \in {n \in DOMAIN held : n > Cut} |-> held[m]]
<1>1. less \in Held
  <2>1. DOMAIN held \in SUBSET Int /\ \A m \in DOMAIN held : held[m] \in SUBSET Nat
    BY TrailingFacts
  <2>2. less \in [{n \in DOMAIN held : n > Cut} -> SUBSET Nat] /\ {n \in DOMAIN held : n > Cut} \in SUBSET Int
    BY <2>1
  <2> HIDE DEF less
  <2> QED BY <2>2 DEF Held
<1>2. Closed([new EXCEPT !.candles = held]) = [new EXCEPT !.aggregate = {}, !.candles = less]
  BY DEF Closed, Memory
<1>3. InStock(held, late) => InStock(less, late)
  BY DEF InStock
<1> HIDE DEF less
<1> QED BY <1>1, <1>2, <1>3 DEF Memory

\* A minute closes behind its prints.
LEMMA ClosesKeeps ==
  ASSUME SessionInv, mode # "bars", predecessor # 0, NEW more \in Seq(Line),
         Sound(more, predecessor, trailed), CutOf(more) = Cut, Cut <= LastMinute,
         NEW judged \in Held, NEW late, late = trailed \cup Trailing(judged),
         Excused(Cut, late) \/ Candle(Cut) \subseteq Ticks(more),
         NEW row \in SUBSET Nat, row = Candle(Cut) \/ Cut \in late,
         NEW new \in Memory, new.aggregate = {}, new.pending \subseteq Ids, InStock(new.candles, late),
         Chronological => \A i \in new.pending : i >= NextOf(more, predecessor),
         new.pc = "advance" => mode \in Fences, new.pc = "drain" => mode = "range",
         new.pc = "close" => mode = "range" /\ new.closing \in Cut + 1..LastMinute,
         Ends(new, Append(more, <<"time", Cut>>), EndsWith(row), judged)
  PROVE  SessionInv'
<1> DEFINE lines == Append(more, <<"time", Cut>>)
<1>1. predecessor \in Nat /\ Anchored(log, predecessor) /\ tape \in Seq(Nat)
  BY InvFacts
<1>2. Cut = Start + Count(more, "time") /\ Cut \in Nat /\ CutOf(log) = Cut /\ Cut >= Start
  BY ClosedFacts DEF CutOf
<1>11. Sound(more, predecessor, late)
  BY SoundLater
<1>3. /\ lines \in Seq(Line) /\ Sound(lines, predecessor, late)
      /\ Count(lines, "tick") = Count(more, "tick") /\ Count(lines, "time") = Count(more, "time") + 1
  BY <1>1, <1>2, <1>11, AppendTime
<1> HIDE DEF lines
<1>4. /\ Count(more, "time") \in Nat
      /\ Ticks(more) = predecessor + 1 .. predecessor + Count(more, "tick")
      /\ \A i \in Ticks(more) : i \in Ids /\ MinuteOf(i) \in Start..Cut
  BY <1>1, <1>2, <1>11, WholeFacts
<1>5. Ticks(lines) = Ticks(more)
  BY <1>1, <1>3, <1>4, WholeFacts
<1>6. CutOf(lines) = Cut + 1
  BY <1>2, <1>3, <1>4, VenueAssumption DEF CutOf
<1>7. Ticks(lines) \cap Candle(Cut + 1) = {}
  <2>1. \A i \in Ticks(lines) : MinuteOf(i) # Cut + 1 /\ i \in Ids
    BY <1>2, <1>4, <1>5, VenueAssumption
  <2> QED BY <2>1 DEF Candle
<1>8. NextOf(lines, predecessor) = NextOf(more, predecessor)
  BY <1>3 DEF NextOf
<1>9. InHand(new, lines, predecessor)
  BY <1>6, <1>7, <1>8 DEF InHand
<1>10. Anchored(lines, predecessor)
  BY <1>1 DEF Anchored
<1>12. EndsWith(row) \in Held /\ DOMAIN EndsWith(row) = {Cut} /\ EndsWith(row)[Cut] = row
  <2>1. Cut \in Int /\ row \in SUBSET Nat
    BY <1>2
  <2> QED BY <2>1, EndsWithFacts
<1>13. InStock(EndsWith(row), late)
  BY <1>2, <1>12, VenueAssumption DEF InStock, Right
<1>14. \A m \in Start..CutOf(lines) - 1 : m \in Start..CutOf(log) - 1 \/ m \in DOMAIN EndsWith(row)
  BY <1>2, <1>6, <1>12, VenueAssumption
<1> QED BY <1>3, <1>9, <1>10, <1>12, <1>13, <1>14, EndsKeeps DEF lines

\* While time goes on, nothing of the open minute is missing behind the first print of a later
\* one.
LEMMA FenceCompletes ==
  ASSUME SessionInv, mode # "bars", Fenced, Chronological
  PROVE  Emitted(Cut) = Candle(Cut)
<1>1. mem.pending # {} /\ First = NextId /\ MinuteOf(First) > Cut
  BY DEF Fenced, Advances
<1>2. First \in Ids /\ predecessor # 0 /\ Cut \in Nat /\ NextId \in Nat
  BY <1>1, InvFacts, FirstFacts, CursorFacts
<1>3. /\ \A i \in Ids : i \in Nat /\ MinuteOf(i) \in Nat
      /\ \A i, j \in Ids : i <= j => MinuteOf(i) <= MinuteOf(j)
      /\ \A i \in Candle(Cut) : i \in Ids /\ MinuteOf(i) = Cut
  BY InvFacts, TapeFacts DEF Candle
<1>4. ASSUME NEW i \in Candle(Cut) PROVE i \in Emitted(Cut)
  <2>1. ~ (First <= i)
    BY <1>1, <1>2, <1>3
  <2>2. i < NextId
    BY <1>1, <1>2, <1>3, <2>1
  <2> QED BY <1>2, <2>2, InvFacts, OpenMinute
<1> QED BY <1>4 DEF Emitted

LEMMA FenceClosesKeeps ==
  ASSUME SessionInv, FenceCloses
  PROVE  SessionInv'
<1>1. /\ Fenced /\ mem.pc = "advance" /\ mem.pending # {} /\ mode \in Fences /\ mode # "bars"
      /\ mem \in Memory /\ predecessor # 0 /\ log \in Seq(Line) /\ tape \in Seq(Nat)
      /\ mem.candles \in Held /\ InStock(mem.candles, trailed) /\ mem.watermark \in Int
  BY InvFacts, FirstFacts DEF FenceCloses, Fenced, Advances, InHand, Fences, Memory
<1>2. PICK rows \in IF Cut \in DOMAIN mem.candles THEN {NoRows}
                    ELSE IF mem.watermark > Cut + 1 THEN Rows(Cut, mem.watermark) ELSE {} :
        LET candles == Emplaced(mem.candles, rows) IN
        IF Disagrees(candles[Cut], mem.aggregate)
        THEN StopsBy("conflict", log, candles)
        ELSE Ends(Closed([mem EXCEPT !.candles = candles]), Append(log, <<"time", Cut>>),
                  EndsWith(candles[Cut]), candles)
  BY DEF FenceCloses
<1>3. Cut \in Nat /\ CutOf(log) = Cut /\ NextOf(log, predecessor) = NextId /\ Cut >= Start
  BY InvFacts, CursorFacts
<1>4. mem.aggregate = Emitted(Cut)
  BY <1>1, <1>3, InvFacts DEF InHand, Emitted
<1>5. Chronological => Emitted(Cut) = Candle(Cut)
  BY <1>1, FenceCompletes
<1>6. /\ rows \in Held /\ Cut \in DOMAIN mem.candles \cup DOMAIN rows
      /\ \A m \in DOMAIN rows : m \in Start..LastMinute
  <2>1. CASE Cut \in DOMAIN mem.candles
    BY <1>2, <2>1, NoRowsFacts
  <2>2. CASE Cut \notin DOMAIN mem.candles
    <3>1. rows \in Rows(Cut, mem.watermark)
      BY <1>2, <2>2
    <3>2. PICK m \in Int : /\ DOMAIN rows = Cut..m /\ Cut <= m
                           /\ m <= mem.watermark - 1 /\ m <= LastMinute
      BY <1>1, <1>3, <3>1, RowsFacts
    <3>3. rows \in Held
      BY <1>1, <1>3, <3>1, RowsFacts
    <3> QED BY <1>3, <3>2, <3>3, VenueAssumption
  <2> QED BY <2>1, <2>2
<1> DEFINE candles == Emplaced(mem.candles, rows)
           late == trailed \cup Trailing(candles)
<1>7. /\ candles \in Held /\ DOMAIN candles = DOMAIN mem.candles \cup DOMAIN rows
      /\ \A m \in DOMAIN candles : m \in Start..LastMinute
  <2>1. candles \in Held /\ DOMAIN candles = DOMAIN mem.candles \cup DOMAIN rows
    BY <1>1, <1>6, EmplacedFacts
  <2> HIDE DEF candles
  <2> QED BY <1>1, <1>6, <2>1 DEF InStock, Right
<1>8. IF Disagrees(candles[Cut], mem.aggregate)
      THEN StopsBy("conflict", log, candles)
      ELSE Ends(Closed([mem EXCEPT !.candles = candles]), Append(log, <<"time", Cut>>),
                EndsWith(candles[Cut]), candles)
  BY <1>2
<1> HIDE DEF candles
<1>9. /\ Cut \in DOMAIN candles /\ candles[Cut] \in SUBSET Nat
      /\ candles[Cut] = Candle(Cut) \/ Cut \in Trailing(candles)
      /\ Cut <= LastMinute
  BY <1>3, <1>6, <1>7, TrailingFacts, VenueAssumption
<1>10. CASE Disagrees(candles[Cut], mem.aggregate)
  <2>1. ~ Chronological \/ Trailing(candles) # {}
    BY <1>4, <1>5, <1>9, <1>10 DEF Disagrees
  <2> QED BY <1>7, <1>8, <1>10, <2>1, InvFacts, StopKeeps
<1>11. CASE ~ Disagrees(candles[Cut], mem.aggregate)
  <2>1. Excused(Cut, late) \/ Candle(Cut) \subseteq Ticks(log)
    BY <1>1, <1>4, <1>5, <1>9, <1>11 DEF Disagrees, Emitted, Excused
  <2>2. InStock(candles, late)
    <3>1. \A m \in DOMAIN candles : candles[m] = Candle(m) \/ m \in Trailing(candles)
      BY <1>7, TrailingFacts
    <3> QED BY <1>7, <3>1 DEF InStock, Right
  <2> DEFINE new == Closed([mem EXCEPT !.candles = candles])
  <2>3. /\ new \in Memory /\ new.pc = "advance" /\ new.aggregate = {}
        /\ new.pending = mem.pending /\ InStock(new.candles, late)
    BY <1>1, <1>7, <2>2, ClosedStock
  <2>4. Ends(new, Append(log, <<"time", Cut>>), EndsWith(candles[Cut]), candles)
    BY <1>8, <1>11
  <2> HIDE DEF new
  <2>5. new.pending \subseteq Ids /\ (Chronological => \A i \in new.pending : i >= NextOf(log, predecessor))
    BY <2>3, InvFacts DEF InHand
  <2>6. candles[Cut] = Candle(Cut) \/ Cut \in late
    BY <1>9
  <2> DEFINE row == candles[Cut]
  <2>7. row \in SUBSET Nat
    BY <1>9
  <2> HIDE DEF late
  <2> QED BY <1>1, <1>3, <1>7, <1>9, <2>1, <2>3, <2>4, <2>5, <2>6, <2>7, InvFacts, ClosesKeeps DEF late
<1> QED BY <1>10, <1>11
LEMMA RangeTakesPrintKeeps ==
  ASSUME SessionInv, RangeTakesPrint
  PROVE  SessionInv'
<1>1. /\ Takes /\ mem.pc = "take" /\ mem \in Memory /\ mode = "range" /\ mode # "bars"
      /\ tape \in Seq(Nat)
  BY InvFacts DEF RangeTakesPrint, TakesData, Takes
<1>2. PICK i \in Ids :
       \/ MinuteOf(i) < Start /\ Handles(mem, predecessor)
       \/ /\ MinuteOf(i) >= Start
          /\ \/ predecessor = 0 /\ Candle(Start) = {} /\ Stops("ambiguous")
             \/ Overrun({i}) /\ Stops("overrun")
             \/ /\ predecessor = 0 => Candle(Start) # {}
                /\ ~ Overrun({i})
                /\ \E p \in Anchors :
                       Handles([mem EXCEPT !.pending = Buffered({i}), !.pc = "drain"], p)
  BY DEF RangeTakesPrint
<1>3. i \in Nat
  BY <1>1, TapeFacts
<1>4. CASE Handles(mem, predecessor)
  BY <1>1, <1>4, InvFacts, HandleFacts, GoesOn
<1>5. CASE Candle(Start) = {} /\ Stops("ambiguous")
  <2>1. Start \in Start..LastMinute
    BY VenueAssumption
  <2> QED BY <1>5, <2>1, StopsKeeps
<1>6. CASE Stops("overrun")
  BY <1>6, StopsKeeps
<1>7. ASSUME MinuteOf(i) >= Start, NEW p \in Anchors,
             Handles([mem EXCEPT !.pending = Buffered({i}), !.pc = "drain"], p)
      PROVE  SessionInv'
  <2> DEFINE new == [mem EXCEPT !.pending = Buffered({i}), !.pc = "drain"]
  <2>1. Buffered({i}) \in SUBSET Nat
    BY <1>1, <1>3 DEF Buffered, Memory
  <2>2. /\ new \in Memory /\ new.pc = "drain" /\ new.candles = mem.candles
        /\ new.pending = Buffered({i}) /\ new.aggregate = mem.aggregate
    BY <1>1, <2>1 DEF Memory
  <2>3. Handles(new, p)
    BY <1>7
  <2> HIDE DEF new
  <2>4. {i} \in SUBSET Ids /\ (Chronological => \A j \in {i} : j > p)
    BY <1>1, <1>7, AnchorsFacts
  <2> QED BY <1>1, <2>2, <2>3, <2>4, HandleFacts, BufferKeeps
<1> QED BY <1>2, <1>4, <1>5, <1>6, <1>7

LEMMA TakesClosedKeeps ==
  ASSUME SessionInv, TakesClosed
  PROVE  SessionInv'
<1>1. Takes /\ mem.pc = "take" /\ mem \in Memory /\ mode \in {"range", "bars"}
  BY InvFacts DEF TakesClosed, TakesData, Takes
<1>2. PICK m \in Minutes :
       \/ m < Start /\ Handles(Raised(m), predecessor)
       \/ /\ m \in Start..Cut - 1
          /\ IF Agrees(m) THEN Handles(Raised(m), predecessor) ELSE Stops("conflict")
       \/ m >= Cut /\ Handles([Raised(m) EXCEPT !.pc = "close", !.closing = m], predecessor)
  BY DEF TakesClosed
<1>3. m \in Int /\ Cut \in Nat /\ Cut >= Start
  BY InvFacts, CursorFacts, VenueAssumption DEF Minutes
<1>4. CASE Handles(Raised(m), predecessor)
  BY <1>1, <1>3, <1>4, RaisedFacts, InvFacts, HandleFacts, GoesOn
<1>5. CASE m \in Start..Cut - 1 /\ ~ Agrees(m) /\ Stops("conflict")
  <2>1. /\ proofs[m] = Candle(m) \/ m \in trailed
        /\ mode = "range" => Emitted(m) = Candle(m) \/ ~ Chronological
    BY <1>5, ClosedFacts
  <2>2. ~ Chronological \/ trailed # {}
    BY <1>1, <1>5, <2>1 DEF Agrees
  <2> QED BY <1>5, <2>2, StopsKeeps
<1>6. CASE m >= Cut /\ Handles([Raised(m) EXCEPT !.pc = "close", !.closing = m], predecessor)
  <2> DEFINE new == [Raised(m) EXCEPT !.pc = "close", !.closing = m]
  <2>1. /\ new \in Memory /\ new.pc = "close" /\ new.closing = m /\ new.candles = mem.candles
        /\ new.pending = mem.pending /\ new.aggregate = mem.aggregate
    BY <1>1, <1>3, RaisedFacts DEF Memory
  <2>2. m \in Cut..LastMinute
    BY <1>3, <1>6, VenueAssumption DEF Minutes
  <2>3. Handles(new, predecessor)
    BY <1>6
  <2> HIDE DEF new
  <2> QED BY <1>1, <2>1, <2>2, <2>3, InvFacts, HandleFacts, GoesOn
<1> QED BY <1>2, <1>4, <1>5, <1>6

LEMMA BarsCloseKeeps ==
  ASSUME SessionInv, BarsClose
  PROVE  SessionInv'
<1>1. /\ mode = "bars" /\ mem.pc = "close" /\ mem \in Memory /\ log \in Seq(Line)
      /\ predecessor \in Nat /\ tape \in Seq(Nat) /\ trailed \in SUBSET Int
      /\ Sound(log, predecessor, trailed) /\ Anchored(log, predecessor) /\ InHand(mem, log, predecessor)
      /\ InStock(mem.candles, trailed)
  BY InvFacts DEF BarsClose, Closes, Types
<1>2. /\ Cut \in Nat /\ Cut >= Start /\ CutOf(log) = Cut
      /\ Cut = Start + Count(log, "time") /\ Count(log, "time") \in Nat
      /\ mem.closing \in Cut..LastMinute /\ LastMinute \in Nat /\ Start \in Nat
  BY <1>1, InvFacts, CursorFacts, VenueAssumption DEF CutOf, InHand
<1>3. ASSUME NEW lines \in Seq(Line), NEW candles \in Held, NEW judged \in Held,
             NEW late, late = trailed \cup Trailing(judged), Sound(lines, predecessor, late),
             Count(lines, "tick") = Count(log, "tick"), NEW last \in Int, last >= Cut,
             CutOf(lines) = last + 1, DOMAIN candles = Cut..last, last <= LastMinute,
             \A m \in Cut..last : candles[m] = Candle(m) \/ m \in late,
             NEW new \in Memory, new.pending = mem.pending, new.candles = mem.candles,
             new.pc = "take" \/ (new.pc = "close" /\ new.closing = mem.closing /\ last < mem.closing),
             Ends(new, lines, candles, judged)
      PROVE  SessionInv'
  <2>1. Anchored(lines, predecessor)
    BY <1>1 DEF Anchored
  <2>2. NextOf(lines, predecessor) = NextOf(log, predecessor)
    BY <1>3 DEF NextOf
  <2>3. InHand(new, lines, predecessor)
    BY <1>1, <1>2, <1>3, <2>2 DEF InHand
  <2>4. InStock(candles, late)
    BY <1>2, <1>3 DEF InStock, Right
  <2>5. InStock(new.candles, late)
    BY <1>1, <1>3 DEF InStock, Right
  <2>6. \A m \in Start..CutOf(lines) - 1 : m \in Start..CutOf(log) - 1 \/ m \in DOMAIN candles
    BY <1>2, <1>3
  <2> QED BY <1>3, <2>1, <2>3, <2>4, <2>5, <2>6, EndsKeeps
<1>4. CASE Cut < mem.closing
  <2>1. PICK rows \in Rows(Cut, mem.closing) :
            Ends(mem, log \o [n \in 1..Cardinality(DOMAIN rows) |-> <<"time", Cut + n - 1>>], rows, rows)
    BY <1>1, <1>4 DEF BarsClose
  <2>2. PICK m \in Int : /\ DOMAIN rows = Cut..m /\ Cut <= m
                         /\ m <= mem.closing - 1 /\ m <= LastMinute
    BY <1>1, <1>2, <2>1, RowsFacts
  <2>3. rows \in Held
    BY <1>1, <1>2, <2>1, RowsFacts
  <2>4. Cardinality(DOMAIN rows) = m - Cut + 1 /\ m - Cut + 1 \in Nat
    <3>1. Cut <= m + 1
      BY <1>2, <2>2
    <3>2. Cardinality(Cut..m) = m - Cut + 1
      BY <1>2, <2>2, <3>1, Interval
    <3> QED BY <1>2, <2>2, <3>2
  <2> DEFINE b == m - Cut + 1
             lines == log \o [n \in 1..b |-> <<"time", Cut + n - 1>>]
             late == trailed \cup Trailing(rows)
  <2>5. Sound(log, predecessor, late)
    BY <1>1, SoundLater
  <2>6. /\ lines \in Seq(Line) /\ Sound(lines, predecessor, late)
        /\ Count(lines, "tick") = Count(log, "tick")
        /\ Count(lines, "time") = Count(log, "time") + b
    <3>1. lines = log \o [n \in 1..b |-> <<"time", CutOf(log) + n - 1>>] /\ b \in Nat
      BY <1>2, <2>4
    <3> HIDE DEF lines, b
    <3> QED BY <1>1, <2>5, <3>1, AppendTimes
  <2>7. Ends(mem, lines, rows, rows)
    BY <2>1, <2>4
  <2>8. \A n \in Cut..m : rows[n] = Candle(n) \/ n \in late
    BY <2>2, <2>3, TrailingFacts
  <2> HIDE DEF lines, late
  <2>9. CutOf(lines) = m + 1
    BY <1>2, <2>2, <2>6 DEF CutOf
  <2>10. m < mem.closing /\ m >= Cut
    BY <1>2, <2>2
  <2> HIDE DEF b
  <2> QED BY <1>1, <1>3, <2>2, <2>3, <2>6, <2>7, <2>8, <2>9, <2>10 DEF late
<1>5. CASE ~ (Cut < mem.closing)
  <2> DEFINE new == [mem EXCEPT !.pc = "take", !.closing = 0]
             lines == Append(log, <<"time", Cut>>)
             row == Candle(Cut)
             late == trailed \cup Trailing(NoRows)
  <2>1. Ends(new, lines, EndsWith(row), NoRows)
    BY <1>1, <1>5 DEF BarsClose
  <2>2. new \in Memory /\ new.pc = "take" /\ new.pending = mem.pending /\ new.candles = mem.candles
    <3>1. 0 \in Int /\ mem \in Memory
      BY <1>1
    <3> QED BY <3>1 DEF Memory
  <2>3. late = trailed
    BY NoRowsFacts
  <2>4. Excused(Cut, trailed)
    BY <1>1 DEF Excused
  <2>5. /\ lines \in Seq(Line) /\ Sound(lines, predecessor, trailed)
        /\ Count(lines, "tick") = Count(log, "tick") /\ Count(lines, "time") = Count(log, "time") + 1
    BY <1>1, <1>2, <2>4, AppendTime
  <2>6. row \in SUBSET Nat
    BY <1>1, TapeFacts
  <2>7. EndsWith(row) \in Held /\ DOMAIN EndsWith(row) = {Cut} /\ EndsWith(row)[Cut] = row
    <3>1. Cut \in Int
      BY <1>2
    <3> HIDE DEF row
    <3> QED BY <2>6, <3>1, EndsWithFacts
  <2> HIDE DEF new, lines, late
  <2>8. CutOf(lines) = Cut + 1 /\ Cut \in Int /\ Cut <= LastMinute /\ Cut..Cut = {Cut}
    BY <1>2, <2>5 DEF CutOf
  <2>9. \A m \in Cut..Cut : EndsWith(row)[m] = Candle(m)
    BY <2>7, <2>8
  <2>10. late = trailed \cup Trailing(NoRows) /\ Sound(lines, predecessor, late) /\ Cut >= Cut
    <3>1. late = trailed \cup Trailing(NoRows)
      BY DEF late
    <3>2. Sound(lines, predecessor, late)
      BY <2>3, <2>5
    <3> QED BY <1>2, <3>1, <3>2
  <2> HIDE DEF row
  <2>11. \A m \in Cut..Cut : EndsWith(row)[m] = Candle(m) \/ m \in late
    BY <2>9
  <2>12. DOMAIN EndsWith(row) = Cut..Cut
    BY <2>7, <2>8
  <2> QED BY <1>3, <2>1, <2>2, <2>5, <2>7, <2>8, <2>10, <2>11, <2>12, NoRowsFacts
<1> QED BY <1>4, <1>5

LEMMA RangeAnchorsKeeps ==
  ASSUME SessionInv, RangeAnchors
  PROVE  SessionInv'
<1>1. /\ mode = "range" /\ mem.pc = "close" /\ mem \in Memory /\ predecessor = 0
      /\ tape \in Seq(Nat) /\ source \in {0, 1} /\ queue \in Seq(Messages)
      /\ Anchored(log, predecessor) /\ InHand(mem, log, predecessor)
  BY InvFacts DEF RangeAnchors, Closes
<1>2. CASE Candle(Start) = {}
  <2>1. Start \in Start..LastMinute
    BY VenueAssumption
  <2> QED BY <1>2, <2>1, StopsKeeps DEF RangeAnchors
<1>3. CASE Candle(Start) # {}
  <2>1. PICK p \in IF Cut = mem.closing THEN {Min(Candle(Start)) - 1} ELSE Predecessors :
                Becomes(mem, log, p) /\ UNCHANGED pumpVars
    BY <1>3 DEF RangeAnchors
  <2>2. /\ Candle(Start) \in SUBSET Ids /\ Candle(Start) \in SUBSET Nat
        /\ \A i \in Ids : i \in Nat /\ i >= 1
    BY <1>1, TapeFacts
  <2>3. Min(Candle(Start)) \in Candle(Start)
    BY <1>3, <2>2, MinOfNats
  <2>4. p \in Nat
    <3>1. Min(Candle(Start)) - 1 \in Nat
      BY <2>2, <2>3
    <3> QED BY <2>1, <2>2, <3>1 DEF Predecessors
  <2>5. log = <<>>
    BY <1>1 DEF Anchored
  <2>6. log \in Seq(Line) /\ Sound(log, p, trailed)
    BY <2>4, <2>5, SoundEmpty
  <2>7. Anchored(log, p)
    BY <1>1, <1>3, <2>1, <2>5 DEF Anchored
  <2>8. mem.pending = {}
    BY <1>1 DEF InHand
  <2>9. InHand(mem, log, p)
    BY <1>1, <2>8 DEF InHand
  <2>10. Becomes(mem, log, p) /\ source' = source /\ queue' = queue
    BY <2>1 DEF pumpVars
  <2> QED BY <1>1, <2>4, <2>6, <2>7, <2>9, <2>10, InvFacts, StepKeeps
<1> QED BY <1>2, <1>3

\* While time goes on, all that is not of a later minute fits.
LEMMA FitsAll ==
  ASSUME SessionInv, Chronological, mode # "bars", predecessor # 0, NEW ids \in SUBSET Ids,
         \A i \in ids : i >= NextId /\ MinuteOf(i) <= Cut
  PROVE  Fitting(ids) = ids
<1>1. \A i \in ids : Fits(i)
  BY InvFacts, NextFits
<1> QED BY <1>1 DEF Fitting

\* A page of history, and what it has up to some id.
LEMMA PagesFacts ==
  ASSUME SessionInv, NEW ids \in Pages
  PROVE  /\ ids \in SUBSET Ids /\ (\A i \in ids : i \in Nat /\ i >= NextId)
         /\ \E b \in Nat : ids = NextId .. NextId + b - 1
         /\ \A last \in Int :
                /\ UpTo(ids, last) \in SUBSET Ids
                /\ \A i \in UpTo(ids, last) : i \in Nat /\ i >= NextId /\ i <= last
                /\ \E b \in Nat : UpTo(ids, last) = NextId .. NextId + b - 1
<1>1. NextId \in Nat /\ NextId >= 1 /\ tape \in Seq(Nat)
  BY InvFacts, CursorFacts
<1>2. ids \in History(NextId)
  BY DEF Pages
<1>3. /\ ids \in SUBSET Ids /\ (\A i \in ids : i >= NextId)
      /\ \E b \in Nat : ids = NextId .. NextId + b - 1
      /\ \A last \in Int : \E b \in Nat : UpTo(ids, last) = NextId .. NextId + b - 1
  BY <1>1, <1>2, PageFacts
<1>4. \A i \in ids : i \in Nat
  BY <1>1, <1>3, TapeFacts
<1> QED BY <1>3, <1>4 DEF UpTo

\* Prints from REST up to some id of the open minute.
LEMMA HealedEmits ==
  ASSUME SessionInv, mode # "bars", predecessor # 0, mem.pc # "stopped", NEW page \in Pages,
         NEW last \in Ids, Chronological => MinuteOf(last) <= Cut, NEW to \in {last, last - 1},
         Emits(UpTo(page, to))
  PROVE  SessionInv'
<1>1. /\ Cut \in Nat /\ \A i \in Ids : i \in Nat /\ MinuteOf(i) \in Nat
      /\ Chronological => \A i, j \in Ids : i <= j => MinuteOf(i) <= MinuteOf(j)
  BY InvFacts, CursorFacts, TapeFacts
<1>2. to \in Int /\ to <= last
  BY <1>1
<1> DEFINE ids == UpTo(page, to)
<1>3. /\ ids \in SUBSET Ids
      /\ \A i \in ids : i \in Nat /\ i >= NextId /\ i <= to
  BY <1>2, PagesFacts
<1>4. PICK b \in Nat : ids = NextId .. NextId + b - 1
  BY <1>2, PagesFacts
<1> HIDE DEF ids
<1>5. Chronological => \A i \in ids : MinuteOf(i) <= Cut
  <2> SUFFICES ASSUME Chronological, NEW i \in ids PROVE MinuteOf(i) <= Cut
    OBVIOUS
  <2>1. i <= last /\ i \in Ids
    BY <1>1, <1>2, <1>3
  <2>2. MinuteOf(i) <= MinuteOf(last)
    BY <1>1, <2>1
  <2> QED BY <1>1, <2>1, <2>2
<1>6. Chronological => Fitting(ids) = ids
  BY <1>3, <1>5, FitsAll
<1>7. Emits(ids)
  BY DEF ids
<1> QED BY <1>3, <1>4, <1>6, <1>7, EmitsKeeps

LEMMA DrainsKeeps ==
  ASSUME SessionInv, Drains
  PROVE  SessionInv'
<1>1. mem.pc = "drain" /\ mode = "range" /\ mode # "bars" /\ mem.pc # "stopped"
  BY InvFacts DEF Drains, InHand
<1>2. CASE Returns
  BY <1>1, <1>2, ReturnsKeeps
<1>3. CASE mem.pending # {} /\ ~ (MinuteOf(First) > Cut)
  <2>1. /\ First \in Ids /\ First \in Nat /\ MinuteOf(First) \in Nat /\ predecessor # 0
        /\ Chronological => First >= NextId
    BY <1>3, FirstFacts
  <2>2. NextId \in Nat /\ Cut \in Nat
    BY InvFacts, CursorFacts
  <2>3. MinuteOf(First) <= Cut
    BY <1>3, <2>1, <2>2
  <2>4. CASE First < NextId
    <3>1. Stops("conflict")
      BY <1>3, <2>4 DEF Drains
    <3>2. ~ Chronological
      BY <2>1, <2>2, <2>4
    <3> QED BY <3>1, <3>2, StopsKeeps
  <2>5. CASE First > NextId
    <3>1. PICK ids \in Pages : Emits(UpTo(ids, First - 1))
      BY <1>3, <2>1, <2>2, <2>5 DEF Drains
    <3> QED BY <1>1, <2>1, <2>3, <3>1, HealedEmits
  <2>6. CASE First = NextId
    <3>1. Emits({First})
      BY <1>3, <2>1, <2>2, <2>6 DEF Drains
    <3> QED BY <1>1, <1>3, <2>3, <2>6, <3>1, NextAlone
  <2> QED BY <2>1, <2>2, <2>4, <2>5, <2>6
<1> QED BY <1>2, <1>3 DEF Drains
\* What historical_minute() reads of a page.
LEMMA ClosesHistoricalKeeps ==
  ASSUME SessionInv, ClosesHistorical
  PROVE  SessionInv'
<1>1. /\ mem.pc = "close" /\ mode = "range" /\ mode # "bars" /\ predecessor # 0 /\ Cut < mem.closing
      /\ mem \in Memory /\ log \in Seq(Line) /\ tape \in Seq(Nat) /\ predecessor \in Nat
      /\ trailed \in SUBSET Int /\ mem.candles \in Held /\ InStock(mem.candles, trailed)
      /\ mem.closing \in CutOf(log)..LastMinute
  BY InvFacts DEF ClosesHistorical, Closes, InHand, Types
<1>2. /\ Cut \in Nat /\ Cut >= Start /\ NextId \in Nat
      /\ CutOf(log) = Cut /\ NextOf(log, predecessor) = NextId
      /\ Ticks(log) = predecessor + 1 .. NextId - 1
  BY InvFacts, CursorFacts
<1>3. mem.aggregate = Emitted(Cut)
  BY <1>1, <1>2, InvFacts DEF InHand, Emitted
<1>4. /\ \A i \in Ids : i \in Nat /\ MinuteOf(i) \in Nat
      /\ \A i \in Ids : i \in Candle(Cut) <=> MinuteOf(i) = Cut
      /\ Candle(Cut) \in SUBSET Ids
      /\ Chronological => \A i, j \in Ids : i <= j => MinuteOf(i) <= MinuteOf(j)
  BY <1>1, TapeFacts
<1> DEFINE Later(ids) == {i \in ids : MinuteOf(i) > Cut}
           These(ids) == IF Later(ids) = {} THEN ids ELSE UpTo(ids, Min(Later(ids)) - 1)
           Prints(ids) == mem.aggregate \cup These(ids)
           Fence(ids) == Buffered({Min(Later(ids))}) \ These(ids)
<1>5. PICK ids \in Pages :
        IF Later(ids) = {} \/ Fitting(These(ids)) # These(ids) THEN Emits(These(ids))
        ELSE IF Prints(ids) = {} THEN Stops("ambiguous")
        ELSE IF Cardinality(Fence(ids)) > MaxPending
             THEN StopsWith("overrun", log \o Lines(These(ids)))
        ELSE \/ StopsWith("died", log \o Lines(These(ids)))
             \/ \E rows \in Answers({Cut}) :
                IF Prints(ids) # rows[Cut]
                THEN StopsBy("prefix", log \o Lines(These(ids)), rows)
                ELSE Ends(Closed([mem EXCEPT !.pending = Fence(ids)]),
                          log \o Lines(These(ids)) \o << <<"time", Cut>> >>, rows, rows)
  BY DEF ClosesHistorical
<1> DEFINE later == Later(ids)
           these == These(ids)
           prints == Prints(ids)
           fence == Fence(ids)
           end == Min(later)
<1>6. /\ ids \in SUBSET Ids /\ (\A i \in ids : i \in Nat /\ i >= NextId)
      /\ \E b \in Nat : ids = NextId .. NextId + b - 1
      /\ \A last \in Int :
             /\ UpTo(ids, last) \in SUBSET Ids
             /\ \A i \in UpTo(ids, last) : i \in Nat /\ i >= NextId /\ i <= last
             /\ \E b \in Nat : UpTo(ids, last) = NextId .. NextId + b - 1
  BY PagesFacts
<1>7. later # {} => end \in Ids /\ end \in ids /\ end \in Nat /\ MinuteOf(end) > Cut /\ \A i \in later : end <= i
  <2>1. later \in SUBSET Nat
    BY <1>6
  <2>2. later # {} => end \in later /\ \A i \in later : end <= i
    BY <2>1, MinOfNats
  <2> QED BY <1>6, <2>2
<1>8. these \in SUBSET Ids /\ (\A i \in these : i \in Nat /\ i >= NextId) /\ \E b \in Nat : these = NextId .. NextId + b - 1
  <2>1. CASE later = {}
    BY <1>6, <2>1
  <2>2. CASE later # {}
    <3>1. end - 1 \in Int /\ these = UpTo(ids, end - 1)
      BY <1>7, <2>2
    <3> HIDE DEF these, end
    <3> QED BY <1>6, <3>1
  <2> QED BY <2>1, <2>2
<1>9. \A i \in these : MinuteOf(i) <= Cut
  <2> SUFFICES ASSUME NEW i \in these PROVE MinuteOf(i) <= Cut
    OBVIOUS
  <2>1. i \in ids
    BY DEF UpTo
  <2>2. i \notin later
    <3>1. CASE later = {}
      BY <3>1
    <3>2. CASE later # {}
      <4>1. i <= end - 1 /\ i \in Nat
        BY <1>6, <2>1, <3>2 DEF UpTo
      <4>2. ~ (end <= i)
        BY <1>7, <3>2, <4>1
      <4> QED BY <1>7, <3>2, <4>2
    <3> QED BY <3>1, <3>2
  <2>3. ~ (MinuteOf(i) > Cut)
    BY <2>1, <2>2
  <2> QED BY <1>2, <1>4, <1>6, <2>1, <2>3, SMTT(40)
<1>10. later # {} => \A i \in ids : i < end => i \in these
  BY <1>6, <1>7 DEF UpTo
<1>11. later # {} => end \notin these
  <2>1. later # {} => these = UpTo(ids, end - 1)
    OBVIOUS
  <2> HIDE DEF these, later, end
  <2> QED BY <1>7, <2>1 DEF UpTo
<1>12. fence = Buffered({end}) \ these /\ prints = mem.aggregate \cup these
  OBVIOUS
<1>13. \/ (later = {} \/ Fitting(these) # these) /\ Emits(these)
       \/ /\ later # {} /\ Fitting(these) = these
          /\ \/ StopsWith("died", log \o Lines(these))
             \/ prints = {} /\ Stops("ambiguous")
             \/ StopsWith("overrun", log \o Lines(these))
             \/ \E rows \in Answers({Cut}) :
                IF prints # rows[Cut]
                THEN StopsBy("prefix", log \o Lines(these), rows)
                ELSE Ends(Closed([mem EXCEPT !.pending = fence]),
                          log \o Lines(these) \o << <<"time", Cut>> >>, rows, rows)
  BY <1>5
<1> HIDE DEF later, these, prints, fence, end
<1>14. CASE Emits(these)
  <2>1. Chronological => Fitting(these) = these
    BY <1>1, <1>8, <1>9, FitsAll
  <2> QED BY <1>1, <1>8, <1>14, <2>1, EmitsKeeps
<1>15. ASSUME later # {}, Chronological PROVE prints = Candle(Cut)
  <2>1. ASSUME NEW i \in prints PROVE i \in Candle(Cut)
    <3>1. CASE i \in these
      <4>1. Fits(i)
        BY <1>1, <1>8, <1>9, <1>15, <3>1, InvFacts, NextFits
      <4> QED BY <1>4, <1>8, <3>1, <4>1 DEF Fits
    <3> QED BY <1>3, <1>12, <2>1, <3>1 DEF Emitted
  <2>2. ASSUME NEW i \in Candle(Cut) PROVE i \in prints
    <3>1. i \in Ids /\ i \in Nat /\ MinuteOf(i) = Cut
      BY <1>4
    <3>2. i < end
      <4>1. ~ (end <= i)
        BY <1>2, <1>4, <1>7, <1>15, <3>1
      <4> QED BY <1>7, <1>15, <3>1, <4>1
    <3>3. CASE i < NextId
      BY <1>1, <1>3, <1>12, <1>15, <3>3, InvFacts, OpenMinute
    <3>4. CASE ~ (i < NextId)
      <4>1. i \in ids
        <5>1. PICK b \in Nat : ids = NextId .. NextId + b - 1
          BY <1>6
        <5> QED BY <1>2, <1>7, <1>15, <3>1, <3>2, <3>4, <5>1
      <4> QED BY <1>10, <1>12, <1>15, <3>2, <4>1
    <3> QED BY <3>3, <3>4
  <2> QED BY <2>1, <2>2
<1>16. CASE later # {} /\ Fitting(these) = these
  <2> DEFINE more == log \o Lines(these)
  <2>1. PICK b \in Nat : these = NextId .. NextId + b - 1
    BY <1>8
  <2>2. PICK c \in 0..b :
            /\ these = NextId .. NextId + c - 1
            /\ more \in Seq(Line) /\ Sound(more, predecessor, trailed)
            /\ CutOf(more) = Cut /\ NextOf(more, predecessor) = NextId + c
            /\ Ticks(more) = Ticks(log) \cup these
            /\ these \subseteq Candle(Cut)
    <3>1. NextId .. NextId + b - 1 \in SUBSET Ids
      BY <1>8, <2>1
    <3>2. \E c \in 0..b :
             LET long == log \o Lines(Fitting(these))
             IN  /\ Fitting(these) = NextId .. NextId + c - 1
                 /\ long \in Seq(Line) /\ Sound(long, predecessor, trailed)
                 /\ CutOf(long) = Cut /\ NextOf(long, predecessor) = NextId + c
                 /\ Ticks(long) = Ticks(log) \cup Fitting(these)
                 /\ Fitting(these) \subseteq Candle(Cut)
      BY <2>1, <3>1, InvFacts, FittingRun
    <3> QED BY <1>16, <3>2
  <2>3. ASSUME NEW why \in {"died", "overrun"}, StopsWith(why, more) PROVE SessionInv'
    <3>1. StopsBy(why, more, NoRows)
      BY <2>3 DEF StopsWith
    <3> QED BY <1>1, <1>2, <2>2, <3>1, NoRowsFacts, StopKeeps
  <2>4. CASE prints = {} /\ Stops("ambiguous")
    <3>1. Chronological => Candle(Cut) = {} /\ Cut \in Start..LastMinute
      BY <1>1, <1>2, <1>15, <1>16, <2>4, VenueAssumption
    <3> QED BY <2>4, <3>1, StopsKeeps
  <2>5. ASSUME NEW rows \in Answers({Cut}),
               IF prints # rows[Cut]
               THEN StopsBy("prefix", more, rows)
               ELSE Ends(Closed([mem EXCEPT !.pending = fence]), more \o << <<"time", Cut>> >>, rows, rows)
        PROVE  SessionInv'
    <3> DEFINE row == rows[Cut]
               late == trailed \cup Trailing(rows)
               put == [mem EXCEPT !.pending = fence]
               new == Closed(put)
    <3>1. /\ rows \in Held /\ DOMAIN rows = {Cut} /\ row \in SUBSET Nat
          /\ row = Candle(Cut) \/ Cut \in Trailing(rows)
      <4>1. rows \in Held /\ DOMAIN rows = {Cut}
        BY <1>1, <1>2, AnswersFacts
      <4> QED BY <4>1, TrailingFacts
    <3>2. rows = EndsWith(row)
      BY DEF Answers, EndsWith
    <3>3. Chronological => prints = Candle(Cut)
      BY <1>15, <1>16
    <3>4. CASE prints # row
      <4>1. ~ Chronological \/ Trailing(rows) # {}
        BY <3>1, <3>3, <3>4
      <4>2. StopsBy("prefix", more, rows)
        BY <2>5, <3>4
      <4> HIDE DEF more
      <4> QED BY <1>1, <1>2, <2>2, <3>1, <4>1, <4>2, StopKeeps
    <3>5. CASE prints = row
      <4>1. fence \in SUBSET Ids /\ fence \in SUBSET Nat
        <5>1. mem.pending \subseteq Ids
          BY InvFacts DEF InHand
        <5>2. fence \in SUBSET Ids
          BY <1>7, <1>12, <1>16, <5>1 DEF Buffered
        <5> QED BY <1>4, <5>2
      <4>2. /\ put \in Memory /\ put.pc = "close" /\ put.closing = mem.closing
            /\ put.pending = fence /\ put = [put EXCEPT !.candles = mem.candles]
        BY <1>1, <4>1 DEF Memory
      <4> HIDE DEF put
      <4>3. /\ new \in Memory /\ new.pc = "close" /\ new.closing = mem.closing
            /\ new.aggregate = {} /\ new.pending = fence /\ InStock(new.candles, trailed)
        BY <1>1, <4>2, ClosedStock
      <4>4. Append(more, <<"time", Cut>>) = more \o << <<"time", Cut>> >>
        <5>1. <<"time", Cut>> \in Line
          BY <1>2 DEF Line
        <5> HIDE DEF more
        <5> QED BY <2>2, <5>1, AppendIsConcat
      <4>5. Ends(new, Append(more, <<"time", Cut>>), EndsWith(row), rows)
        BY <2>5, <3>2, <3>5, <4>4 DEF put
      <4> HIDE DEF new, more
      <4>6. Excused(Cut, late) \/ Candle(Cut) \subseteq Ticks(more)
        <5>1. prints \subseteq Ticks(more)
          BY <1>3, <1>12, <2>2 DEF Emitted
        <5> QED BY <1>1, <3>1, <3>3, <3>5, <5>1 DEF Excused
      <4>7. ASSUME Chronological, NEW i \in fence PROVE i >= NextOf(more, predecessor)
        <5>1. i \in Nat /\ i \notin these /\ (i \in mem.pending \/ i = end)
          BY <1>12, <4>1, <4>7 DEF Buffered
        <5>2. i >= NextId
          <6>1. CASE i \in mem.pending
            BY <1>2, <4>7, <6>1, InvFacts DEF InHand
          <6>2. CASE i = end
            BY <1>6, <1>7, <1>16, <6>2
          <6> QED BY <5>1, <6>1, <6>2
        <5> QED BY <1>2, <2>2, <5>1, <5>2
      <4>8. InStock(new.candles, late)
        BY <4>3 DEF InStock, Right
      <4>9. /\ row = Candle(Cut) \/ Cut \in late
            /\ Cut <= LastMinute /\ mem.closing \in Cut + 1..LastMinute
        BY <1>1, <1>2, <3>1, VenueAssumption
      <4> HIDE DEF row, late
      <4> QED BY <1>1, <2>2, <3>1, <4>1, <4>3, <4>5, <4>6, <4>7, <4>8, <4>9, ClosesKeeps DEF late
    <3> QED BY <3>4, <3>5
  <2> QED BY <1>13, <1>14, <1>16, <2>3, <2>4, <2>5
<1> QED BY <1>13, <1>14, <1>16

\* While time goes on, the prints of a minute are a run of ids.
LEMMA CandleRun ==
  ASSUME tape \in Seq(Nat), Chronological, NEW m \in Nat, Candle(m) # {}
  PROVE  /\ Candle(m) = Min(Candle(m)) .. Max(Candle(m))
         /\ Max(Candle(m)) - Min(Candle(m)) + 1 = Cardinality(Candle(m))
<1>1. /\ \A i \in Ids : i \in Nat /\ MinuteOf(i) \in Nat
      /\ \A i \in Ids : i \in Candle(m) <=> MinuteOf(i) = m
      /\ Candle(m) \in SUBSET Ids /\ Ids = 1..Len(tape) /\ Len(tape) \in Nat
      /\ \A i, j \in Ids : i <= j => MinuteOf(i) <= MinuteOf(j)
  BY TapeFacts
<1>2. Candle(m) \in SUBSET Nat /\ \A i \in Candle(m) : i <= Len(tape)
  BY <1>1
<1> DEFINE a == Min(Candle(m))
           b == Max(Candle(m))
<1>3. a \in Candle(m) /\ \A i \in Candle(m) : a <= i
  BY <1>2, MinOfNats
<1>4. b \in Candle(m) /\ \A i \in Candle(m) : b >= i
  BY <1>1, <1>2, MaxOfNats
<1> HIDE DEF a, b
<1>5. a \in Nat /\ b \in Nat /\ a <= b /\ a \in Ids /\ b \in Ids /\ MinuteOf(a) = m /\ MinuteOf(b) = m
  BY <1>1, <1>2, <1>3, <1>4
<1>6. ASSUME NEW i \in a..b PROVE i \in Candle(m)
  <2>1. i \in Ids /\ a <= i /\ i <= b
    BY <1>1, <1>5
  <2>2. MinuteOf(a) <= MinuteOf(i) /\ MinuteOf(i) <= MinuteOf(b) /\ MinuteOf(i) \in Nat
    BY <1>1, <1>5, <2>1
  <2>3. MinuteOf(i) = m
    BY <1>5, <2>2
  <2> QED BY <1>1, <2>1, <2>3
<1>7. Candle(m) = a..b
  <2>1. \A i \in Candle(m) : i \in a..b
    BY <1>2, <1>3, <1>4, <1>5
  <2> QED BY <1>6, <2>1
<1>8. Cardinality(a..b) = b - a + 1
  BY <1>5, Interval
<1> QED BY <1>7, <1>8 DEF a, b

LEMMA ClosesRangeKeeps ==
  ASSUME SessionInv, ClosesRange
  PROVE  SessionInv'
<1> DEFINE prints == Candle(Cut)
           last == Max(prints)
<1>1. /\ mem.pc = "close" /\ mode = "range" /\ mode # "bars" /\ predecessor # 0 /\ Cut = mem.closing
      /\ mem \in Memory /\ log \in Seq(Line) /\ tape \in Seq(Nat) /\ predecessor \in Nat
      /\ mem.candles \in Held /\ InStock(mem.candles, trailed) /\ Cut \in Start..LastMinute
  BY InvFacts, ClosedFacts DEF ClosesRange, Closes, InHand
<1>2. /\ Cut \in Nat /\ NextId \in Nat
      /\ CutOf(log) = Cut /\ NextOf(log, predecessor) = NextId
      /\ Ticks(log) = predecessor + 1 .. NextId - 1
      /\ \A i \in Ticks(log) : i \in Ids /\ MinuteOf(i) \in Start..Cut
      /\ LastId = 0 \/ LastId = NextId - 1
      /\ Count(log, "tick") = 0 => LastId = 0
      /\ NextId = predecessor + Count(log, "tick") + 1 /\ Count(log, "tick") \in Nat
  BY InvFacts, CursorFacts
<1>3. mem.aggregate = Emitted(Cut)
  BY <1>1, <1>2, InvFacts DEF InHand, Emitted
<1>4. /\ \A i \in Ids : i \in Nat /\ i >= 1 /\ MinuteOf(i) \in Nat /\ i <= Len(tape)
      /\ \A i \in Ids : i \in Candle(Cut) <=> MinuteOf(i) = Cut
      /\ Candle(Cut) \in SUBSET Ids /\ Len(tape) \in Nat
      /\ Chronological => \A i, j \in Ids : i <= j => MinuteOf(i) <= MinuteOf(j)
  BY <1>1, TapeFacts
<1>5. CASE prints = {} \/ last - Min(prints) + 1 # Cardinality(prints)
  <2>1. Stops("ambiguous")
    BY <1>5 DEF ClosesRange
  <2>2. Chronological => Candle(Cut) = {}
    BY <1>1, <1>2, <1>5, CandleRun
  <2> QED BY <1>1, <2>1, <2>2, StopsKeeps
<1>6. CASE ~ (prints = {} \/ last - Min(prints) + 1 # Cardinality(prints))
  <2>1. last \in prints /\ \A i \in prints : last >= i
    <3>1. prints \in SUBSET Nat /\ \A i \in prints : i <= Len(tape)
      BY <1>4
    <3> QED BY <1>4, <1>6, <3>1, MaxOfNats
  <2>2. \/ LastId > last /\ Stops("conflict")
        \/ NextId <= last /\ \E ids \in Pages : Emits(UpTo(ids, last))
        \/ ~ (NextId <= last) /\ mem.aggregate # prints /\ Stops("prefix")
        \/ /\ mem.aggregate = prints
           /\ Ends(Closed([mem EXCEPT !.pc = "drain", !.closing = 0]), Append(log, <<"time", Cut>>),
                   EndsWith(prints), NoRows)
    BY <1>6 DEF ClosesRange
  <2> HIDE DEF last
  <2>3. last \in Ids /\ last \in Nat /\ last >= 1 /\ MinuteOf(last) = Cut
    BY <1>4, <2>1
  <2>4. CASE LastId > last /\ Stops("conflict")
    <3>1. ASSUME Chronological PROVE FALSE
      <4>1. LastId = NextId - 1 /\ LastId # 0 /\ Count(log, "tick") # 0
        BY <1>2, <2>3, <2>4
      <4>2. LastId \in Ticks(log)
        BY <1>1, <1>2, <4>1
      <4>3. LastId \in Ids /\ MinuteOf(LastId) <= Cut
        BY <1>1, <1>2, <4>2, VenueAssumption
      <4>4. MinuteOf(last) <= MinuteOf(LastId)
        BY <1>4, <2>3, <2>4, <3>1, <4>3
      <4>5. LastId \in prints
        BY <1>2, <1>4, <2>3, <4>3, <4>4
      <4> QED BY <1>4, <2>1, <2>3, <2>4, <4>3, <4>5
    <3> QED BY <2>4, <3>1, StopsKeeps
  <2>5. CASE \E ids \in Pages : Emits(UpTo(ids, last))
    <3>1. PICK ids \in Pages : Emits(UpTo(ids, last))
      BY <2>5
    <3>2. MinuteOf(last) <= Cut
      BY <1>2, <2>3
    <3> QED BY <1>1, <2>3, <3>1, <3>2, HealedEmits
  <2>6. CASE ~ (NextId <= last) /\ mem.aggregate # prints /\ Stops("prefix")
    <3>1. ASSUME Chronological PROVE FALSE
      <4>1. ASSUME NEW i \in Candle(Cut) PROVE i \in Emitted(Cut)
        <5>1. i < NextId
          BY <1>2, <1>4, <2>1, <2>3, <2>6
        <5> QED BY <1>1, <3>1, <5>1, InvFacts, OpenMinute
      <4> QED BY <1>3, <2>6, <4>1 DEF Emitted
    <3> QED BY <2>6, <3>1, StopsKeeps
  <2>7. CASE /\ mem.aggregate = prints
             /\ Ends(Closed([mem EXCEPT !.pc = "drain", !.closing = 0]), Append(log, <<"time", Cut>>),
                     EndsWith(prints), NoRows)
    <3> DEFINE put == [mem EXCEPT !.pc = "drain", !.closing = 0]
               new == Closed(put)
               late == trailed \cup Trailing(NoRows)
    <3>1. put \in Memory /\ put.pc = "drain" /\ put.pending = mem.pending /\ put = [put EXCEPT !.candles = mem.candles]
      <4>1. 0 \in Int /\ mem \in Memory
        BY <1>1
      <4> QED BY <4>1 DEF Memory
    <3>2. Ends(new, Append(log, <<"time", Cut>>), EndsWith(prints), NoRows)
      BY <2>7
    <3> HIDE DEF put
    <3>3. /\ new \in Memory /\ new.pc = "drain" /\ new.aggregate = {} /\ new.pending = mem.pending
          /\ InStock(new.candles, trailed)
      BY <1>1, <3>1, ClosedStock
    <3> HIDE DEF new
    <3>4. Candle(Cut) \subseteq Ticks(log)
      BY <1>3, <2>7 DEF Emitted
    <3>5. new.pending \subseteq Ids /\ (Chronological => \A i \in new.pending : i >= NextOf(log, predecessor))
      BY <3>3, InvFacts DEF InHand
    <3>6. late = trailed /\ NoRows \in Held
      BY NoRowsFacts
    <3>7. prints \in SUBSET Nat /\ prints = Candle(Cut) /\ Cut <= LastMinute
      BY <1>1, <1>4, VenueAssumption
    <3> HIDE DEF late, prints
    <3> QED BY <1>1, <1>2, <3>2, <3>3, <3>4, <3>5, <3>6, <3>7, InvFacts, ClosesKeeps DEF late
  <2> QED BY <2>2, <2>4, <2>5, <2>6, <2>7
<1> QED BY <1>5, <1>6
LEMMA ReadsKeeps ==
  ASSUME SessionInv, Reads
  PROVE  SessionInv'
<1>1. /\ queue \in Seq(Messages) /\ source \in {0, 1} /\ mem \in Memory /\ log \in Seq(Line)
      /\ predecessor \in Nat /\ mem' = mem /\ log' = log /\ predecessor' = predecessor
      /\ tape' = tape /\ mode' = mode /\ stop' = stop /\ proofs' = proofs /\ trailed' = trailed
  BY InvFacts DEF Reads
<1>2. source' \in {0, 1} /\ queue' \in Seq(Messages)
  <2>1. \A c \in BOOLEAN : Append(queue, Message(c)) \in Seq(Messages)
    BY <1>1, AppendProperties DEF Message, Messages
  <2>2. source' = source \/ source' = 1 - source
    BY DEF Reads, PumpStep, Connects, HandshakeFails, Marks, HearsControl, HearsData, Drained,
           Breaks, BreaksUnheard, Refused
  <2>3. queue' = queue \/ queue' = Append(queue, Message(TRUE)) \/ queue' = Append(queue, Message(FALSE))
    BY DEF Reads, PumpStep, Connects, HandshakeFails, Marks, HearsControl, HearsData, Drained,
           Breaks, BreaksUnheard, Refused
  <2>4. source' \in {0, 1}
    BY <1>1, <2>2
  <2>5. queue' \in Seq(Messages)
    BY <1>1, <2>1, <2>3
  <2> QED BY <2>4, <2>5
<1>3. Becomes(mem, log, predecessor)
  BY <1>1 DEF Becomes
<1> QED BY <1>1, <1>2, <1>3, InvFacts, StepKeeps

\* A process that starts again adds up what is left of the open minute.
LEMMA RestartsKeeps ==
  ASSUME SessionInv, Restarts
  PROVE  SessionInv'
<1> DEFINE new == NewMem(Emitted(Cut))
<1>1. /\ Types /\ Sound(log, predecessor, trailed) /\ Anchored(log, predecessor)
      /\ log' = log /\ predecessor' = predecessor /\ tape' = tape /\ mode' = mode
      /\ stop' = "none" /\ mem' = new /\ source' = source /\ queue' = queue
      /\ proofs' = proofs /\ trailed' = trailed /\ Kept(log, proofs, trailed)
      /\ tape \in Seq(Nat)
  BY InvFacts DEF Restarts, pumpVars
<1>2. Emitted(Cut) \in SUBSET Nat
  BY <1>1, TapeFacts DEF Emitted
<1>3. new \in Memory /\ new.pc = "take" /\ new.pending = {} /\ new.aggregate = Emitted(Cut)
      /\ new.candles = NoRows
  BY <1>2, NoRowsFacts DEF NewMem, Memory
<1> HIDE DEF new
<1>4. InHand(new, log, predecessor)
  BY <1>1, <1>3, CursorFacts DEF InHand, Emitted
<1>5. AlarmsAreTrue'
  BY <1>1, InvFacts, AlarmsStay
<1>6. Types'
  <2>1. Minutes' = Minutes
    BY DEF Minutes
  <2> QED BY <1>1, <1>3, <2>1 DEF Types
<1>8. InStock(new.candles, trailed)
  BY <1>3, NoRowsFacts DEF InStock
<1>7. /\ Sound(log, predecessor, trailed)' /\ Anchored(log, predecessor)' /\ InHand(mem, log, predecessor)'
      /\ Kept(log, proofs, trailed)' /\ InStock(mem.candles, trailed)'
  BY <1>1, <1>4, <1>8, Stays
<1> QED BY <1>5, <1>6, <1>7 DEF SessionInv

LEMMA InitSession == Init => SessionInv
<1> SUFFICES ASSUME Init PROVE SessionInv
  OBVIOUS
<1>1. /\ tape \in Tapes /\ mode \in Modes /\ log = <<>> /\ predecessor = 0 /\ mem = NewMem({})
      /\ stop = "none" /\ source = 0 /\ queue = <<>>
      /\ proofs = [m \in Minutes |-> {}] /\ trailed = {}
  BY DEF Init, PumpInit
<1>2. tape \in Seq(Nat) /\ mode \in {"bars", "range", "fence", "aggregate"}
  BY <1>1, VenueAssumption, SessionAssumption
<1>3. /\ mem \in Memory /\ mem.pc = "take" /\ mem.pending = {} /\ mem.aggregate = {}
      /\ mem.candles = NoRows
  BY <1>1, NoRowsFacts DEF NewMem, Memory
<1>4. log \in Seq(Line) /\ Sound(log, predecessor, trailed) /\ Ticks(log) = {}
  BY <1>1, SoundEmpty
<1>5. Types
  BY <1>1, <1>2, <1>3, <1>4 DEF Types
<1>6. Anchored(log, predecessor) /\ InHand(mem, log, predecessor)
  BY <1>1, <1>3, <1>4 DEF Anchored, InHand
<1>7. AlarmsAreTrue
  BY <1>1 DEF AlarmsAreTrue
<1>8. Kept(log, proofs, trailed)
  <2>1. CutOf(log) = Start + 0
    BY <1>1, SoundEmpty DEF CutOf
  <2>2. Start .. CutOf(log) - 1 = {}
    BY <2>1, VenueAssumption
  <2> QED BY <2>2 DEF Kept
<1>9. InStock(mem.candles, trailed)
  BY <1>3, NoRowsFacts DEF InStock
<1> QED BY <1>4, <1>5, <1>6, <1>7, <1>8, <1>9 DEF SessionInv

LEMMA NextSession == SessionInv /\ [Next]_vars => SessionInv'
<1> SUFFICES ASSUME SessionInv, [Next]_vars PROVE SessionInv'
  OBVIOUS
<1>1. CASE Reads
  BY <1>1, ReadsKeeps
<1>2. CASE SourceFails
  BY <1>2, StopsKeeps DEF SourceFails
<1>3. CASE Connected
  BY <1>3, ConnectedKeeps
<1>4. CASE FenceTakesPrint
  BY <1>4, FenceTakesPrintKeeps
<1>5. CASE FenceTakesCandle
  BY <1>5, FenceTakesCandleKeeps
<1>6. CASE LooksAhead
  BY <1>6, LooksAheadKeeps
<1>7. CASE FenceHeals
  BY <1>7, FenceHealsKeeps
<1>8. CASE FenceEmits
  BY <1>8, FenceEmitsKeeps
<1>9. CASE FenceCloses
  BY <1>9, FenceClosesKeeps
<1>10. CASE AwaitsCandle
  BY <1>10, ReturnsKeeps DEF AwaitsCandle, Fenced, Advances
<1>11. CASE RangeTakesPrint
  BY <1>11, RangeTakesPrintKeeps
<1>12. CASE TakesClosed
  BY <1>12, TakesClosedKeeps
<1>13. CASE BarsClose
  BY <1>13, BarsCloseKeeps
<1>14. CASE RangeAnchors
  BY <1>14, RangeAnchorsKeeps
<1>15. CASE ClosesHistorical
  BY <1>15, ClosesHistoricalKeeps
<1>16. CASE ClosesRange
  BY <1>16, ClosesRangeKeeps
<1>17. CASE Drains
  BY <1>17, DrainsKeeps
<1>18. CASE Dies
  BY <1>18, StopsKeeps DEF Dies
<1>19. CASE Restarts
  BY <1>19, RestartsKeeps
<1>20. CASE UNCHANGED vars
  <2>1. /\ mem' = mem /\ log' = log /\ predecessor' = predecessor /\ tape' = tape
        /\ mode' = mode /\ stop' = stop /\ source' = source /\ queue' = queue
        /\ proofs' = proofs /\ trailed' = trailed
    BY <1>20 DEF vars, pumpVars
  <2>2. Becomes(mem, log, predecessor)
    BY <2>1 DEF Becomes
  <2> QED BY <2>1, <2>2, InvFacts, StepKeeps
<1> QED BY <1>1, <1>2, <1>3, <1>4, <1>5, <1>6, <1>7, <1>8, <1>9, <1>10, <1>11, <1>12, <1>13,
           <1>14, <1>15, <1>16, <1>17, <1>18, <1>19, <1>20 DEF Next, SessionStep

\* The log goes on with the tape whatever the session, what it has in hand belongs to the open
\* minute and to nothing before the cursor, and no alarm was false.
THEOREM SessionHolds == Spec => []SessionInv
BY InitSession, NextSession, PTL DEF Spec

\* No id is missing, repeated or out of order in the log, matched time does not go back, no minute
\* closes without a print it has unless time went back (and the candle is not the sum of the
\* prints, or the row trailed), and each closes with its candle unless its row trailed.
THEOREM TheLogIsTheTape == Spec => []LogIsTheTape
<1>1. ASSUME SessionInv PROVE LogIsTheTape
  <2> DEFINE before(n, kind) == {k \in OfKind(log, kind) : k < n}
             open(n) == Start + Cardinality(before(n, "time"))
  <2>1. log \in Seq(Line) /\ Sound(log, predecessor, trailed) /\ Len(log) \in Nat
    BY <1>1, InvFacts, LenProperties
  <2>2. \A n, kind : before(n, kind) = Before(log, n, kind)
    BY DEF Before
  <2>3. \A n \in 1..Len(log) : Chain(log, predecessor, n, trailed) /\ Extends(log, predecessor, n)
    BY <2>1 DEF Sound
  <2>4. \A kind : \A n \in OfKind(log, kind) : n \in 1..Len(log) /\ log[n][1] = kind
    BY LenProperties, <2>1 DEF OfKind
  <2>5. ASSUME NEW n \in OfKind(log, "tick")
        PROVE  /\ log[n][2] = predecessor + 1 + Cardinality(before(n, "tick"))
               /\ MinuteOf(log[n][2]) = open(n)
               /\ \A k \in before(n, "tick") : Ts(log[k][2]) <= Ts(log[n][2])
    <3>1. n \in 1..Len(log) /\ Extends(log, predecessor, n) /\ log[n][1] = "tick"
      BY <2>3, <2>4
    <3>2. /\ log[n][2] = predecessor + 1 + Cardinality(before(n, "tick"))
          /\ MinuteOf(log[n][2]) = open(n)
      BY <2>2, <3>1 DEF Extends
    <3>3. ASSUME NEW k \in before(n, "tick") PROVE Ts(log[k][2]) <= Ts(log[n][2])
      <4>1. n + 1 \in 1..Len(log) + 1 /\ Chain(log, predecessor, n + 1, trailed)
        BY <2>1, <3>1 DEF Sound
      <4>2. n \in Before(log, n + 1, "tick") /\ k \in Before(log, n + 1, "tick") /\ k \in Nat
        BY <2>4, <3>1 DEF Before
      <4>3. log[n][2] \in Told(log, n + 1, "tick") /\ log[k][2] \in Told(log, n + 1, "tick")
        BY <4>2 DEF Told
      <4>4. log[k][2] <= log[n][2]
        <5>1. k \in 1..Len(log) /\ log[k][1] = "tick" /\ Extends(log, predecessor, k)
          BY <2>3, <2>4
        <5>2. log[k][2] = predecessor + 1 + Cardinality(Before(log, k, "tick"))
          BY <5>1 DEF Extends
        <5>3. log[n][2] = predecessor + 1 + Cardinality(Before(log, n, "tick"))
          BY <3>1 DEF Extends
        <5>4. /\ IsFiniteSet(Before(log, n, "tick")) /\ Cardinality(Before(log, n, "tick")) \in Nat
              /\ Cardinality(Before(log, k, "tick")) \in Nat
          BY <2>1, <3>1, <5>1, BeforeFacts
        <5>5. Before(log, k, "tick") \in SUBSET Before(log, n, "tick")
          <6>1. k < n /\ k \in Nat /\ n \in Nat
            BY <3>1, <5>1
          <6>2. \A j \in OfKind(log, "tick") : j \in Nat
            BY <2>4
          <6>3. \A j \in OfKind(log, "tick") : j < k => j < n
            BY <6>1, <6>2
          <6> QED BY <6>3 DEF Before
        <5>6. Cardinality(Before(log, k, "tick")) <= Cardinality(Before(log, n, "tick"))
          BY <5>4, <5>5, FS_Subset
        <5> QED BY <1>1, <5>2, <5>3, <5>4, <5>6, InvFacts
      <4> QED BY <4>1, <4>3, <4>4 DEF Chain
    <3> QED BY <3>2, <3>3
  <2>6. ASSUME NEW n \in OfKind(log, "time")
        PROVE  /\ log[n][2] = open(n)
               /\ \/ mode = "bars"
                  \/ ~ Chronological /\ (mode = "aggregate" \/ open(n) \in trailed)
                  \/ Candle(open(n)) \subseteq {log[k][2] : k \in before(n, "tick")}
    <3>1. n \in 1..Len(log) /\ Extends(log, predecessor, n) /\ log[n][1] = "time"
      BY <2>3, <2>4
    <3>2. log[n][2] = open(n)
      BY <2>2, <3>1 DEF Extends
    <3>3. n + 1 \in 1..Len(log) + 1 /\ Chain(log, predecessor, n + 1, trailed)
      BY <2>1, <3>1 DEF Sound
    <3>4. n \in Before(log, n + 1, "time")
      BY <3>1 DEF Before
    <3>5. open(n) \in Told(log, n + 1, "time")
      BY <3>2, <3>4 DEF Told
    <3>6. Before(log, n + 1, "tick") = Before(log, n, "tick")
      <4>1. ASSUME NEW k PROVE k \in Before(log, n + 1, "tick") <=> k \in Before(log, n, "tick")
        <5>1. k \in OfKind(log, "tick") => k \in 1..Len(log) /\ k # n
          <6>1. k \in OfKind(log, "tick") => k \in 1..Len(log) /\ log[k][1] = "tick"
            BY <2>4
          <6> QED BY <3>1, <6>1
        <5> QED BY <2>1, <3>1, <5>1 DEF Before
      <4> QED BY <4>1
    <3>7. {log[k][2] : k \in before(n, "tick")} = Told(log, n + 1, "tick")
      BY <2>2, <3>6 DEF Told
    <3>8. Excused(open(n), trailed) \/ Candle(open(n)) \subseteq Told(log, n + 1, "tick")
      BY <3>3, <3>5 DEF Chain
    <3> QED BY <3>2, <3>7, <3>8 DEF Excused
  <2>7. \A m \in Start..Cut - 1 : proofs[m] = Candle(m) \/ m \in trailed
    BY <1>1, ClosedFacts
  <2> QED BY <2>5, <2>6, <2>7 DEF LogIsTheTape
<1> QED BY <1>1, SessionHolds, PTL

\* The stream stops for a conflict or a broken chain only if matched time went back or a REST
\* row trailed when a minute was judged by it; for a regression only if time went back; and for
\* an ambiguous minute only if time went back or a minute has no prints.
THEOREM TheAlarmsAreTrue == Spec => []AlarmsAreTrue
<1>1. SessionInv => AlarmsAreTrue
  BY DEF SessionInv
<1> QED BY <1>1, SessionHolds, PTL
----------------------------------------------------------------------------
(* Every connection is verified before its messages are handled.           *)

\* The connection of the n-th message, and of the one that was handled last.
SourceAt(n) == IF n = 0 THEN mem.verified ELSE queue[n].source

\* A message came by the connection of the one before it, or begins a new one; and so will the
\* next one that an open connection brings.
PumpInv ==
    /\ \A n \in 1..Len(queue) : ~ queue[n].connected => queue[n].source = SourceAt(n - 1)
    /\ link = "open" => source = SourceAt(Len(queue))
    /\ mem.pc = "stopped" => queue = <<>> /\ link # "open"

\* What a step of the session does to the queue: the process ends, it is left alone, or its first
\* message is taken.
Quits == queue' = <<>> /\ link' = "down"
Leaves ==
    /\ mem.pc # "stopped" /\ mem'.pc # "stopped" /\ mem'.verified = mem.verified
    /\ UNCHANGED <<link, source, queue>>
TakesOne ==
    /\ queue # <<>> /\ mem'.pc # "stopped"
    /\ mem'.verified = Head(queue).source \/ (~ Head(queue).connected /\ mem'.verified = mem.verified)
    /\ queue' = Tail(queue) /\ UNCHANGED <<link, source>>
Effect == Quits \/ Leaves \/ TakesOne

LEMMA StopsEffect ==
  ASSUME NEW why, NEW lines, NEW judged, StopsBy(why, lines, judged)
  PROVE  Effect
BY DEF StopsBy, PumpReset, Effect, Quits

LEMMA StopEffect ==
  ASSUME NEW why, NEW lines, Stops(why) \/ StopsWith(why, lines)
  PROVE  Effect
BY StopsEffect DEF Stops, StopsWith

LEMMA EndsEffect ==
  ASSUME mem.pc # "stopped", NEW new, NEW lines, NEW candles, NEW judged,
         Ends(new, lines, candles, judged), new.pc # "stopped", new.verified = mem.verified
  PROVE  Effect
BY DEF Ends, pumpVars, Effect, Leaves

LEMMA BecomesEffect ==
  ASSUME mem.pc # "stopped", NEW new, NEW lines, NEW p, Becomes(new, lines, p), UNCHANGED pumpVars,
         new.pc # "stopped", new.verified = mem.verified
  PROVE  Effect
BY DEF Becomes, pumpVars, Effect, Leaves

LEMMA HandlesEffect ==
  ASSUME TakesData, NEW new, NEW p, Handles(new, p), new.pc # "stopped", new.verified = mem.verified
  PROVE  Effect
BY DEF TakesData, Takes, Handles, Becomes, Effect, TakesOne

LEMMA EmitsEffect ==
  ASSUME mem \in Memory, mem.pc # "stopped", NEW ids, Emits(ids)
  PROVE  Effect
<1> DEFINE new == [mem EXCEPT !.aggregate = @ \cup ids, !.pending = @ \ ids]
<1>1. new.pc = mem.pc /\ new.verified = mem.verified
  BY DEF Memory
<1>2. CASE Works(new, log \o Lines(ids))
  BY <1>1, <1>2, BecomesEffect DEF Works
<1>3. CASE StopsWith(Misfit(ids), log \o Lines(Fitting(ids)))
  BY <1>3, StopEffect
<1> QED BY <1>2, <1>3 DEF Emits

LEMMA PutsHealedEffect ==
  ASSUME mem.pc # "stopped", NEW new \in Memory, NEW ids, NEW p, PutsHealed(new, ids, p),
         new.pc # "stopped", new.verified = mem.verified
  PROVE  Effect
<1> DEFINE put == [new EXCEPT !.pending = Buffered(ids)]
<1>1. put.pc = new.pc /\ put.verified = new.verified
  BY DEF Memory
<1>2. CASE Becomes(put, log, p) /\ UNCHANGED pumpVars
  BY <1>1, <1>2, BecomesEffect
<1> QED BY <1>2, StopEffect DEF PutsHealed

LEMMA ReturnsEffect ==
  ASSUME mem \in Memory, mem.pc # "stopped", Returns
  PROVE  Effect
<1>1. [mem EXCEPT !.pc = "take"].pc = "take" /\ [mem EXCEPT !.pc = "take"].verified = mem.verified
  BY DEF Memory
<1> QED BY <1>1, BecomesEffect DEF Returns, Works

LEMMA FenceEffect ==
  ASSUME SessionInv, \/ FenceTakesPrint \/ FenceTakesCandle \/ LooksAhead \/ FenceHeals
                     \/ FenceEmits \/ FenceCloses \/ AwaitsCandle
  PROVE  Effect
<1>1. mem \in Memory
  BY InvFacts
<1>2. CASE FenceTakesPrint
  <2>1. TakesData /\ mem.pc = "take"
    BY <1>2 DEF FenceTakesPrint, TakesData, Takes
  <2>2. PICK i \in Ids :
           \/ Handles(mem, predecessor)
           \/ \E p \in Anchors :
                 \/ Stops("conflict") \/ Stops("regressed") \/ Stops("overrun")
                 \/ Handles([mem EXCEPT !.pending = Buffered({i}), !.pc = "advance"], p)
    BY <1>2 DEF FenceTakesPrint
  <2> DEFINE new == [mem EXCEPT !.pending = Buffered({i}), !.pc = "advance"]
  <2>3. new.pc = "advance" /\ new.verified = mem.verified
    BY <1>1 DEF Memory
  <2> HIDE DEF new
  <2>4. \/ Handles(mem, predecessor) \/ Stops("conflict") \/ Stops("regressed") \/ Stops("overrun")
        \/ \E p \in Anchors : Handles(new, p)
    BY <2>2 DEF new
  <2> QED BY <2>1, <2>3, <2>4, StopEffect, HandlesEffect
<1>3. CASE FenceTakesCandle
  <2>1. TakesData /\ mem.pc = "take"
    BY <1>3 DEF FenceTakesCandle, TakesData, Takes
  <2>2. PICK m \in Minutes :
          \/ Stops("conflict")
          \/ Handles([Raised(m) EXCEPT !.pc = "advance",
                          !.candles = IF m < Cut THEN @
                                      ELSE Emplaced(@, [n \in {m} |-> Candle(n)])], predecessor)
    BY <1>3 DEF FenceTakesCandle
  <2> DEFINE new == [Raised(m) EXCEPT !.pc = "advance",
                         !.candles = IF m < Cut THEN @
                                     ELSE Emplaced(@, [n \in {m} |-> Candle(n)])]
  <2>3. new.pc = "advance" /\ new.verified = mem.verified
    BY <1>1 DEF Memory, Raised
  <2> HIDE DEF new
  <2>4. Stops("conflict") \/ Handles(new, predecessor)
    BY <2>2 DEF new
  <2> QED BY <2>1, <2>3, <2>4, StopEffect, HandlesEffect
<1>4. CASE LooksAhead
  <2> DEFINE looked == [mem EXCEPT !.forward = mem.watermark]
             back == [looked EXCEPT !.pc = "take"]
  <2>1. /\ mem.pc = "advance" /\ mem.pc # "stopped"
        /\ looked.pc = "advance" /\ looked.verified = mem.verified
        /\ back.pc = "take" /\ back.verified = mem.verified
    BY <1>1, <1>4 DEF LooksAhead, Memory
  <2>2. looked \in Memory
    BY <1>1 DEF Memory
  <2>3. \/ Returns \/ Works(back, log)
        \/ \E p : Becomes(back, log, p) /\ UNCHANGED pumpVars
        \/ \E p, ids : PutsHealed(looked, ids, p)
    BY <1>4 DEF LooksAhead
  <2> HIDE DEF looked, back
  <2>4. CASE Returns
    BY <1>1, <2>1, <2>4, ReturnsEffect
  <2>5. CASE Works(back, log)
    BY <2>1, <2>5, BecomesEffect DEF Works
  <2>6. CASE \E p : Becomes(back, log, p) /\ UNCHANGED pumpVars
    BY <2>1, <2>6, BecomesEffect
  <2>7. CASE \E p, ids : PutsHealed(looked, ids, p)
    BY <2>1, <2>2, <2>7, PutsHealedEffect
  <2> QED BY <2>3, <2>4, <2>5, <2>6, <2>7
<1>5. CASE FenceHeals
  <2>1. mem.pc = "advance" /\ \E ids : PutsHealed(mem, ids, predecessor)
    BY <1>5 DEF FenceHeals, Advances
  <2> QED BY <1>1, <2>1, PutsHealedEffect
<1>6. CASE FenceEmits
  BY <1>1, <1>6, EmitsEffect DEF FenceEmits, Advances
<1>7. CASE FenceCloses
  <2>1. mem.pc = "advance"
    BY <1>7 DEF FenceCloses, Fenced, Advances
  <2>2. \E candles, lines, row :
           \/ StopsBy("conflict", log, candles)
           \/ Ends(Closed([mem EXCEPT !.candles = candles]), lines, row, candles)
    BY <1>7 DEF FenceCloses
  <2>3. ASSUME NEW candles, NEW lines, NEW row,
               Ends(Closed([mem EXCEPT !.candles = candles]), lines, row, candles)
        PROVE  Effect
    <3> DEFINE new == Closed([mem EXCEPT !.candles = candles])
    <3>1. new.pc = mem.pc /\ new.verified = mem.verified
      BY <1>1 DEF Memory, Closed
    <3>2. Ends(new, lines, row, candles)
      BY <2>3
    <3> HIDE DEF new
    <3> QED BY <2>1, <3>1, <3>2, EndsEffect
  <2> QED BY <2>2, <2>3, StopsEffect
<1>8. CASE AwaitsCandle
  BY <1>1, <1>8, ReturnsEffect DEF AwaitsCandle, Fenced, Advances
<1> QED BY <1>2, <1>3, <1>4, <1>5, <1>6, <1>7, <1>8

LEMMA RangeEffect ==
  ASSUME SessionInv, \/ RangeTakesPrint \/ TakesClosed \/ BarsClose \/ RangeAnchors
                     \/ ClosesHistorical \/ ClosesRange \/ Drains
  PROVE  Effect
<1>1. mem \in Memory
  BY InvFacts
<1>2. CASE RangeTakesPrint
  <2>1. TakesData /\ mem.pc = "take"
    BY <1>2 DEF RangeTakesPrint, TakesData, Takes
  <2>2. PICK i \in Ids :
           \/ Handles(mem, predecessor)
           \/ Stops("ambiguous") \/ Stops("overrun")
           \/ \E p \in Anchors : Handles([mem EXCEPT !.pending = Buffered({i}), !.pc = "drain"], p)
    BY <1>2 DEF RangeTakesPrint
  <2> DEFINE new == [mem EXCEPT !.pending = Buffered({i}), !.pc = "drain"]
  <2>3. new.pc = "drain" /\ new.verified = mem.verified
    BY <1>1 DEF Memory
  <2> HIDE DEF new
  <2>4. \/ Handles(mem, predecessor) \/ Stops("ambiguous") \/ Stops("overrun")
        \/ \E p \in Anchors : Handles(new, p)
    BY <2>2 DEF new
  <2> QED BY <2>1, <2>3, <2>4, StopEffect, HandlesEffect
<1>3. CASE TakesClosed
  <2>1. TakesData /\ mem.pc = "take"
    BY <1>3 DEF TakesClosed, TakesData, Takes
  <2>2. PICK m \in Minutes :
          \/ Stops("conflict") \/ Handles(Raised(m), predecessor)
          \/ Handles([Raised(m) EXCEPT !.pc = "close", !.closing = m], predecessor)
    BY <1>3 DEF TakesClosed
  <2> DEFINE new == [Raised(m) EXCEPT !.pc = "close", !.closing = m]
             raised == Raised(m)
  <2>3. /\ new.pc = "close" /\ new.verified = mem.verified
        /\ raised.pc = mem.pc /\ raised.verified = mem.verified
    BY <1>1 DEF Memory, Raised
  <2> HIDE DEF new, raised
  <2>4. Stops("conflict") \/ Handles(raised, predecessor) \/ Handles(new, predecessor)
    BY <2>2 DEF new, raised
  <2> QED BY <2>1, <2>3, <2>4, StopEffect, HandlesEffect
<1>4. CASE BarsClose
  <2> DEFINE new == [mem EXCEPT !.pc = "take", !.closing = 0]
  <2>1. mem.pc = "close" /\ new.pc = "take" /\ new.verified = mem.verified
    BY <1>1, <1>4 DEF BarsClose, Closes, Memory
  <2>2. \E lines, rows, judged : Ends(mem, lines, rows, judged) \/ Ends(new, lines, rows, judged)
    BY <1>4 DEF BarsClose
  <2> HIDE DEF new
  <2> QED BY <2>1, <2>2, EndsEffect
<1>5. CASE RangeAnchors
  <2>1. /\ mem.pc = "close"
        /\ Stops("ambiguous") \/ \E p : Becomes(mem, log, p) /\ UNCHANGED pumpVars
    BY <1>5 DEF RangeAnchors, Closes
  <2> QED BY <2>1, StopEffect, BecomesEffect
<1>6. CASE ClosesHistorical
  <2>1. mem.pc = "close"
    BY <1>6 DEF ClosesHistorical, Closes
  <2>2. \/ \E ids : Emits(ids)
        \/ \E lines, why, rows : StopsWith(why, lines) \/ StopsBy(why, lines, rows)
        \/ Stops("ambiguous")
        \/ \E fence, lines, rows : Ends(Closed([mem EXCEPT !.pending = fence]), lines, rows, rows)
    BY <1>6 DEF ClosesHistorical
  <2>3. ASSUME NEW fence, NEW lines, NEW rows, Ends(Closed([mem EXCEPT !.pending = fence]), lines, rows, rows)
        PROVE  Effect
    <3> DEFINE new == Closed([mem EXCEPT !.pending = fence])
    <3>1. new.pc = mem.pc /\ new.verified = mem.verified
      BY <1>1 DEF Memory, Closed
    <3>2. Ends(new, lines, rows, rows)
      BY <2>3
    <3> HIDE DEF new
    <3> QED BY <2>1, <3>1, <3>2, EndsEffect
  <2> QED BY <1>1, <2>1, <2>2, <2>3, EmitsEffect, StopsEffect, StopEffect
<1>7. CASE ClosesRange
  <2>1. mem.pc = "close"
    BY <1>7 DEF ClosesRange, Closes
  <2> DEFINE new == Closed([mem EXCEPT !.pc = "drain", !.closing = 0])
  <2>2. \/ \E why : Stops(why)
        \/ \E ids : Emits(ids)
        \/ \E row : Ends(new, Append(log, <<"time", Cut>>), row, NoRows)
    BY <1>7 DEF ClosesRange
  <2>3. new.pc = "drain" /\ new.verified = mem.verified
    BY <1>1 DEF Memory, Closed
  <2> HIDE DEF new
  <2>4. CASE \E row : Ends(new, Append(log, <<"time", Cut>>), row, NoRows)
    BY <2>1, <2>3, <2>4, EndsEffect
  <2> QED BY <1>1, <2>1, <2>2, <2>4, EmitsEffect, StopEffect
<1>8. CASE Drains
  <2>1. mem.pc = "drain" /\ (Returns \/ Stops("conflict") \/ \E ids : Emits(ids))
    BY <1>8 DEF Drains
  <2> QED BY <1>1, <2>1, EmitsEffect, ReturnsEffect, StopEffect
<1> QED BY <1>2, <1>3, <1>4, <1>5, <1>6, <1>7, <1>8

LEMMA ConnectedEffect ==
  ASSUME SessionInv, Connected
  PROVE  Effect
<1> DEFINE new == [mem EXCEPT !.verified = Head(queue).source]
<1>1. mem \in Memory /\ mem.pc = "take" /\ queue # <<>>
  BY InvFacts DEF Connected, Takes
<1>2. new.pc = "take" /\ new.verified = Head(queue).source
  BY <1>1 DEF Memory
<1>3. (\E rows : StopsBy("conflict", log, rows)) \/ Handles(new, predecessor)
  BY DEF Connected
<1> HIDE DEF new
<1>4. CASE Handles(new, predecessor)
  BY <1>1, <1>2, <1>4 DEF Handles, Becomes, Effect, TakesOne
<1> QED BY <1>3, <1>4, StopsEffect

\* Each effect keeps the messages behind their markers.
LEMMA EffectKeeps ==
  ASSUME SessionInv, PumpInv, Effect
  PROVE  PumpInv'
<1>1. queue \in Seq(Messages) /\ Len(queue) \in Nat
  BY InvFacts, LenProperties
<1>2. CASE Quits
  BY <1>2 DEF Quits, PumpInv
<1>3. CASE Leaves
  BY <1>3 DEF Leaves, PumpInv, SourceAt
<1>4. CASE TakesOne
  <2>1. queue' = Tail(queue) /\ queue # <<>> /\ Len(queue) >= 1
    BY <1>1, <1>4, EmptySeq DEF TakesOne
  <2>2. Len(queue') = Len(queue) - 1 /\ \A n \in 1..Len(queue) - 1 : queue'[n] = queue[n + 1]
    BY <1>1, <2>1, HeadTailProperties
  <2>3. Head(queue) = queue[1]
    BY <1>1, <2>1, HeadTailProperties
  <2>4. mem'.verified = queue[1].source
    <3>1. CASE ~ queue[1].connected /\ mem'.verified = mem.verified
      <4>1. queue[1].source = SourceAt(1 - 1)
        BY <1>1, <2>1, <3>1 DEF PumpInv
      <4> QED BY <3>1, <4>1 DEF SourceAt
    <3> QED BY <1>4, <2>3, <3>1 DEF TakesOne
  <2>5. \A n \in 1..Len(queue) : SourceAt(n - 1)' = SourceAt(n)
    <3> SUFFICES ASSUME NEW n \in 1..Len(queue) PROVE SourceAt(n - 1)' = SourceAt(n)
      OBVIOUS
    <3>1. CASE n = 1
      BY <2>4, <3>1 DEF SourceAt
    <3>2. CASE n # 1
      <4>1. n - 1 \in 1..Len(queue) - 1 /\ n - 1 # 0 /\ n # 0 /\ (n - 1) + 1 = n
        BY <1>1, <3>2
      <4> QED BY <2>2, <4>1 DEF SourceAt
    <3> QED BY <3>1, <3>2
  <2>6. ASSUME NEW n \in 1..Len(queue'), ~ queue'[n].connected
        PROVE  queue'[n].source = SourceAt(n - 1)'
    <3>1. n \in 1..Len(queue) - 1 /\ n \in 1..Len(queue) /\ n + 1 \in 1..Len(queue) /\ (n + 1) - 1 = n
      BY <1>1, <2>2
    <3>2. queue[n + 1].source = SourceAt(n)
      BY <2>2, <2>6, <3>1 DEF PumpInv
    <3> QED BY <2>2, <2>5, <3>1, <3>2
  <2>7. link' = "open" => source' = SourceAt(Len(queue))'
    <3>1. PICK l \in 1..Len(queue) : l = Len(queue)
      BY <1>1, <2>1
    <3>2. SourceAt(l - 1)' = SourceAt(l) /\ Len(queue') = l - 1
      BY <2>2, <2>5, <3>1
    <3>3. SourceAt(l - 1)' = IF l - 1 = 0 THEN mem'.verified ELSE queue'[l - 1].source
      BY DEF SourceAt
    <3>4. link' = "open" => source' = SourceAt(l)
      BY <1>4, <3>1 DEF TakesOne, PumpInv
    <3> QED BY <3>2, <3>3, <3>4 DEF SourceAt
  <2>8. mem'.pc # "stopped"
    BY <1>4 DEF TakesOne
  <2> QED BY <2>6, <2>7, <2>8 DEF PumpInv
<1> QED BY <1>2, <1>3, <1>4 DEF Effect

LEMMA ReadsKeepsPump ==
  ASSUME SessionInv, PumpInv, Reads
  PROVE  PumpInv'
<1>1. queue \in Seq(Messages) /\ Len(queue) \in Nat /\ source \in {0, 1}
  BY InvFacts, LenProperties
<1>2. mem' = mem /\ mem.pc # "stopped" /\ PumpStep
  BY DEF Reads
<1>3. ASSUME NEW c \in BOOLEAN, queue' = Append(queue, Message(c)), source' = source, link' = "open",
             c \/ link = "open"
      PROVE  PumpInv'
  <2> DEFINE l == Len(queue)
  <2>1. Message(c) \in Messages /\ Message(c).source = source /\ Message(c).connected = c
    BY <1>1 DEF Message, Messages
  <2>2. /\ Len(queue') = l + 1 /\ queue'[l + 1] = Message(c)
        /\ \A n \in 1..l : queue'[n] = queue[n]
    BY <1>1, <1>3, <2>1, AppendProperties
  <2>3. \A n \in 0..Len(queue) : SourceAt(n)' = SourceAt(n)
    <3>1. \A n \in 0..l : n = 0 \/ n \in 1..l
      BY <1>1
    <3> QED BY <1>2, <2>2, <3>1 DEF SourceAt
  <2>4. ASSUME NEW n \in 1..l + 1, ~ queue'[n].connected
        PROVE  queue'[n].source = SourceAt(n - 1)'
    <3>1. n - 1 \in 0..l /\ (n \in 1..l \/ n = l + 1)
      BY <1>1
    <3>2. CASE n \in 1..l
      BY <2>2, <2>3, <2>4, <3>1, <3>2 DEF PumpInv
    <3>3. CASE n = l + 1
      <4>1. link = "open" /\ n - 1 = l
        BY <1>1, <1>3, <2>1, <2>2, <2>4, <3>3
      <4>2. source = SourceAt(l)
        BY <4>1 DEF PumpInv
      <4> QED BY <2>1, <2>2, <2>3, <3>1, <3>3, <4>1, <4>2
    <3> QED BY <3>1, <3>2, <3>3
  <2>5. source' = queue'[l + 1].source /\ l + 1 # 0
    BY <1>1, <1>3, <2>1, <2>2
  <2>6. source' = SourceAt(Len(queue))'
    <3> HIDE DEF l
    <3> QED BY <2>2, <2>5 DEF SourceAt
  <2>7. \A n \in 1..Len(queue') : ~ queue'[n].connected => queue'[n].source = SourceAt(n - 1)'
    BY <2>2, <2>4
  <2> HIDE DEF l
  <2> QED BY <1>2, <2>6, <2>7 DEF PumpInv
<1>4. ASSUME queue' = queue, link' # "open" \/ (link' = link /\ source' = source)
      PROVE  PumpInv'
  <2>1. \A n : SourceAt(n)' = SourceAt(n)
    BY <1>2, <1>4 DEF SourceAt
  <2> QED BY <1>2, <1>4, <2>1 DEF PumpInv
<1>5. CASE Marks
  BY <1>3, <1>5 DEF Marks
<1>6. CASE HearsData
  BY <1>3, <1>4, <1>6 DEF HearsData
<1>7. CASE Connects \/ HandshakeFails \/ HearsControl \/ Drained \/ Breaks \/ BreaksUnheard \/ Refused
  BY <1>4, <1>7 DEF Connects, HandshakeFails, HearsControl, Drained, Breaks, BreaksUnheard, Refused,
                    Spends
<1> QED BY <1>2, <1>5, <1>6, <1>7 DEF PumpStep

LEMMA NextPump == SessionInv /\ PumpInv /\ [Next]_vars => PumpInv'
<1> SUFFICES ASSUME SessionInv, PumpInv, [Next]_vars PROVE PumpInv'
  OBVIOUS
<1>1. CASE Reads
  BY <1>1, ReadsKeepsPump
<1>2. CASE SessionStep
  <2>1. Effect
    BY <1>2, StopEffect, ConnectedEffect, FenceEffect, RangeEffect DEF SessionStep, SourceFails
  <2> QED BY <2>1, EffectKeeps
<1>3. CASE Dies
  <2>1. Effect
    BY <1>3, StopEffect DEF Dies
  <2> QED BY <2>1, EffectKeeps
<1>4. CASE Restarts
  BY <1>4 DEF Restarts, PumpInv, pumpVars, NewMem
<1>5. CASE UNCHANGED vars
  BY <1>5 DEF vars, pumpVars, PumpInv, SourceAt
<1> QED BY <1>1, <1>2, <1>3, <1>4, <1>5 DEF Next

\* No message of a connection is handled before the overlap was verified on that connection,
\* however connections break, queues overflow and processes end.
THEOREM ConnectionsAreVerified == Spec => []EachConnectionIsVerified
<1>1. Init => PumpInv
  BY DEF Init, PumpInit, PumpInv, NewMem
<1>2. ASSUME SessionInv, PumpInv PROVE EachConnectionIsVerified
  <2>1. queue \in Seq(Messages) /\ Len(queue) \in Nat /\ DOMAIN queue = 1..Len(queue)
    BY <1>2, InvFacts, LenProperties
  <2> SUFFICES ASSUME NEW n \in 1..Len(queue)
               PROVE  LET markers == {k \in 1..n : queue[k].connected}
                      IN  queue[n].source = IF markers = {} THEN mem.verified ELSE queue[Max(markers)].source
    BY <2>1 DEF EachConnectionIsVerified
  <2> DEFINE markers == {k \in 1..n : queue[k].connected}
             m == IF markers = {} THEN 0 ELSE Max(markers)
             Bad == {k \in m..n : SourceAt(k) # SourceAt(m)}
  <2>2. m \in 0..n /\ (\A k \in markers : k <= m) /\ (markers # {} => m \in markers)
    <3>1. markers \in SUBSET Nat /\ n \in Nat /\ \A k \in markers : k <= n
      OBVIOUS
    <3>2. markers # {} => Max(markers) \in markers /\ \A k \in markers : Max(markers) >= k
      BY <3>1, MaxOfNats
    <3> QED BY <3>1, <3>2
  <2> HIDE DEF m
  <2>3. Bad = {}
    <3> SUFFICES ASSUME Bad # {} PROVE FALSE
      OBVIOUS
    <3>1. Bad \in SUBSET Nat
      BY <2>2
    <3>2. PICK k \in Bad : \A j \in Bad : k <= j
      BY <3>1, MinOfNats
    <3>3. k \in m..n /\ k # m /\ SourceAt(k) # SourceAt(m)
      BY <3>2
    <3>4. k \in 1..n /\ k \in 1..Len(queue) /\ k - 1 \in m..n /\ ~ (k <= k - 1) /\ k # 0 /\ k > m
      BY <2>1, <2>2, <3>3
    <3>5. ~ queue[k].connected
      BY <2>2, <3>4
    <3>6. queue[k].source = SourceAt(k - 1)
      BY <1>2, <3>4, <3>5 DEF PumpInv
    <3>7. SourceAt(k - 1) = SourceAt(m)
      BY <3>2, <3>4
    <3> QED BY <3>3, <3>4, <3>6, <3>7 DEF SourceAt
  <2>4. SourceAt(n) = SourceAt(m)
    BY <2>2, <2>3
  <2>5. queue[n].source = SourceAt(m)
    BY <2>4 DEF SourceAt
  <2>6. m = IF markers = {} THEN 0 ELSE Max(markers)
    BY DEF m
  <2>7. markers # {} => m # 0
    BY <2>2
  <2> QED BY <2>5, <2>6, <2>7 DEF SourceAt
<1> QED BY <1>1, <1>2, NextPump, SessionHolds, PTL DEF Spec
=============================================================================
