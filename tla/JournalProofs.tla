---------------------------- MODULE JournalProofs ----------------------------
(***************************************************************************)
(* Facts about the operators the journal is built from; its type           *)
(* correctness, and with it that the open segment and what recovery has    *)
(* verified stay in place; that what the consumer holds is durable, and    *)
(* what the journal retains can be read.  Then its recovery: every cursor  *)
(* and every checkpoint tells the truth about the stream it names;         *)
(* whatever a crash leaves of the files, the next start accepts them; what *)
(* a reconnect verifies again is retained; and the process with its files  *)
(* and its crashes implements the stream of DurableStream.                 *)
(***************************************************************************)
EXTENDS JournalProperties, NatSetLemmas, SequenceTheorems, TLAPS

-----------------------------------------------------------------------------
(* A sequence that begins another, and one that is cut in two; point by     *)
(* point, as the provers like them.                                        *)

Begins(s, p) ==
  Len(s) <= Len(p) /\ \A k \in 1..Len(s) : p[k] = s[k]

Splits(p, s, t) ==
  /\ Len(p) = Len(s) + Len(t)
  /\ \A k \in 1..Len(s) : p[k] = s[k]
  /\ \A k \in 1..Len(t) : p[Len(s) + k] = t[k]

\* Begins is the prefix relation of the properties.
LEMMA BeginsIsPrefix ==
  ASSUME NEW s \in Seq(Message), NEW p \in Seq(Message), Begins(s, p)
  PROVE  IsPrefix(s, p)
<1>1. SubSeq(s, 1, Len(s)) = s
  BY SubSeqFull
<1>2. /\ SubSeq(p, 1, Len(s)) \in Seq(Message)
      /\ Len(SubSeq(p, 1, Len(s))) = Len(s)
      /\ \A i \in 1..Len(s) : SubSeq(p, 1, Len(s))[i] = p[i]
  <2>1. \A i \in 1..Len(s) : p[i] \in Message
    BY ElementOfSeq DEF Begins
  <2> QED BY <2>1, SubSeqProperties, LenProperties
<1>3. SubSeq(p, 1, Len(s)) = s
  BY <1>2, SeqEqual DEF Begins
<1> QED
  BY <1>1, <1>3 DEF IsPrefix, Begins

\* A sequence begins itself.
LEMMA BeginsReflexive ==
  ASSUME NEW s \in Seq(Message)
  PROVE  Begins(s, s)
BY DEF Begins

\* What begins the beginning of a sequence begins the sequence.
LEMMA BeginsTransitive ==
  ASSUME NEW s \in Seq(Message), NEW t \in Seq(Message), NEW u \in Seq(Message),
         Begins(s, t), Begins(t, u)
  PROVE  Begins(s, u)
BY DEF Begins

\* Only the empty sequence begins the empty one.
LEMMA BeginsEmpty ==
  ASSUME NEW s \in Seq(Message), Begins(s, <<>>)
  PROVE  s = <<>>
BY EmptySeq DEF Begins

\* A cut at the end leaves all in the first part.
LEMMA SplitsNothing ==
  ASSUME NEW p \in Seq(Message), NEW s \in Seq(Message)
  PROVE  Splits(p, s, <<>>) <=> p = s
<1>1. ASSUME Splits(p, s, <<>>) PROVE p = s
  BY <1>1, SeqEqual, EmptySeq DEF Splits
<1>2. Splits(p, p, <<>>)
  BY EmptySeq DEF Splits
<1> QED BY <1>1, <1>2

\* A message staged at the end.
LEMMA SplitsAppend ==
  ASSUME NEW p \in Seq(Message), NEW s \in Seq(Message), NEW t \in Seq(Message),
         NEW m \in Message, Splits(p, s, t)
  PROVE  Splits(Append(p, m), s, Append(t, m))
<1>1. /\ Len(Append(p, m)) = Len(p) + 1
      /\ \A i \in 1..Len(p) : Append(p, m)[i] = p[i]
      /\ Append(p, m)[Len(p) + 1] = m
  BY AppendProperties
<1>2. /\ Len(Append(t, m)) = Len(t) + 1
      /\ \A i \in 1..Len(t) : Append(t, m)[i] = t[i]
      /\ Append(t, m)[Len(t) + 1] = m
  BY AppendProperties
<1>3. Len(p) \in Nat /\ Len(s) \in Nat /\ Len(t) \in Nat
  BY LenProperties
<1>4. Len(Append(p, m)) = Len(s) + Len(Append(t, m))
  BY <1>1, <1>2, <1>3 DEF Splits
<1>5. \A k \in 1..Len(s) : Append(p, m)[k] = s[k]
  BY <1>1, <1>3 DEF Splits
<1>6. ASSUME NEW k \in 1..Len(Append(t, m))
      PROVE  Append(p, m)[Len(s) + k] = Append(t, m)[k]
  <2>1. CASE k = Len(t) + 1
    BY <2>1, <1>1, <1>2, <1>3 DEF Splits
  <2>2. CASE k # Len(t) + 1
    BY <2>2, <1>1, <1>2, <1>3 DEF Splits
  <2> QED BY <2>1, <2>2
<1> QED
  BY <1>4, <1>5, <1>6 DEF Splits

\* A message moved from the second part to the first.
LEMMA SplitsShift ==
  ASSUME NEW p \in Seq(Message), NEW s \in Seq(Message), NEW t \in Seq(Message),
         t # <<>>, Splits(p, s, t)
  PROVE  Splits(p, Append(s, Head(t)), Tail(t))
<1>1. /\ Head(t) \in Message /\ Head(t) = t[1]
      /\ Len(t) \in Nat \ {0}
      /\ Len(Tail(t)) = Len(t) - 1
      /\ \A i \in 1..Len(Tail(t)) : Tail(t)[i] = t[i + 1]
  BY HeadTailProperties, EmptySeq
<1>2. /\ Len(Append(s, Head(t))) = Len(s) + 1
      /\ \A i \in 1..Len(s) : Append(s, Head(t))[i] = s[i]
      /\ Append(s, Head(t))[Len(s) + 1] = Head(t)
  BY <1>1, AppendProperties
<1> QED
  BY <1>1, <1>2, LenProperties DEF Splits

\* The first part of a cut begins the whole.
LEMMA SplitsBegins ==
  ASSUME NEW p \in Seq(Message), NEW s \in Seq(Message), NEW t \in Seq(Message),
         Splits(p, s, t)
  PROVE  Begins(s, p)
BY DEF Begins, Splits
-----------------------------------------------------------------------------
(* Verification at recovery is enough: whatever the files are, once        *)
(* RecoverVerified accepts them the retained segments read back as the end *)
(* of the stream the cursor names.  No invariant of the files is assumed.  *)

\* What the scan of segment b contributes: its checkpoint begins the stream of
\* the cursor, and its lines follow on.
Chained(b) ==
  LET end == IF b = cursor.segment THEN Index(cursor) ELSE Min({x \in Bases : x > b})
  IN  /\ b < end \/ b = cursor.segment
      /\ b <= end /\ end <= Index(cursor)
      /\ Begins(files.checkpoints[b].prefix, cursor.prefix)
      /\ Lines(b) \in Seq(Message)
      /\ Len(Lines(b)) = end - b
      /\ \A k \in 1..Len(Lines(b)) : Lines(b)[k] = cursor.prefix[b + k]

\* The lines recovery reads of a segment are messages.
LEMMA LinesType ==
  ASSUME FilesOK(files), cursor \in Cursor, NEW b \in Bases, SegmentVerified(b)
  PROVE  /\ b \in Nat
         /\ files.checkpoints[b] \in Checkpoint
         /\ Len(files.checkpoints[b].prefix) = b
         /\ Lines(b) \in Seq(Message)
         /\ b = cursor.segment => b <= Index(cursor) /\ Len(Lines(b)) = Index(cursor) - b
<1>1. /\ b \in Nat /\ files.segments[b] \in Seq(Message)
      /\ b \in DOMAIN files.checkpoints /\ files.checkpoints[b] \in Checkpoint
      /\ Len(files.checkpoints[b].prefix) = b
  BY DEF FilesOK, Directory, Bases, SegmentVerified, Index
<1>2. Len(cursor.prefix) \in Nat /\ Len(files.segments[b]) \in Nat
  BY <1>1, LenProperties DEF Cursor
<1>3. CASE b = cursor.segment
  <2>1. b <= Len(cursor.prefix) /\ Len(files.segments[b]) >= Len(cursor.prefix) - b
    BY <1>3 DEF SegmentVerified, Index
  <2>2. \A i \in 1..(Len(cursor.prefix) - b) : files.segments[b][i] \in Message
    BY <1>1, <1>2, <2>1, ElementOfSeq
  <2>3. Lines(b) = SubSeq(files.segments[b], 1, Len(cursor.prefix) - b)
    BY <1>3 DEF Lines, Index
  <2>4. /\ SubSeq(files.segments[b], 1, Len(cursor.prefix) - b) \in Seq(Message)
        /\ Len(SubSeq(files.segments[b], 1, Len(cursor.prefix) - b)) = Len(cursor.prefix) - b
    BY <1>1, <1>2, <2>1, <2>2, SubSeqProperties
  <2> QED BY <1>1, <2>1, <2>3, <2>4 DEF Index
<1>4. CASE b # cursor.segment
  BY <1>1, <1>4 DEF Lines
<1> QED BY <1>3, <1>4

\* One link of the chain: a boundary that begins the stream of the cursor makes
\* the segment before it do so.
LEMMA ChainLink ==
  ASSUME NEW p \in Seq(Message), NEW doc \in Seq(Message), NEW lines \in Seq(Message),
         Begins(doc \o lines, p)
  PROVE  /\ Begins(doc, p)
         /\ Len(doc \o lines) = Len(doc) + Len(lines)
         /\ \A k \in 1..Len(lines) : lines[k] = p[Len(doc) + k]
<1> DEFINE after == doc \o lines
<1>1. /\ Len(after) = Len(doc) + Len(lines)
      /\ \A i \in 1..(Len(doc) + Len(lines)) :
           after[i] = IF i <= Len(doc) THEN doc[i] ELSE lines[i - Len(doc)]
  BY ConcatProperties
<1>2. Len(doc) \in Nat /\ Len(lines) \in Nat /\ Len(p) \in Nat
  BY LenProperties
<1>3. Begins(doc, p)
  BY <1>1, <1>2 DEF Begins
<1>4. ASSUME NEW k \in 1..Len(lines) PROVE lines[k] = p[Len(doc) + k]
  <2>1. after[Len(doc) + k] = lines[k]
    BY <1>1, <1>2
  <2>2. after[Len(doc) + k] = p[Len(doc) + k]
    BY <1>1, <1>2 DEF Begins
  <2> QED BY <2>1, <2>2
<1> QED BY <1>1, <1>2, <1>3, <1>4

\* The least base above b, for every segment but the open one.
LEMMA NextBase ==
  ASSUME FilesOK(files), RecoverVerified, NEW b \in Bases, b # cursor.segment
  PROVE  LET n == Min({x \in Bases : x > b})
         IN  n \in Bases /\ n > b /\ \A x \in Bases : x > b => n <= x
<1> DEFINE S == {x \in Bases : x > b}
<1>1. Bases \subseteq Nat
  BY DEF FilesOK, Directory, Bases
<1>2. S \in SUBSET Nat /\ cursor.segment \in S
  BY <1>1 DEF RecoverVerified
<1>3. Min(S) \in S /\ \A x \in S : Min(S) <= x
  BY <1>2, MinOfNats
<1> QED BY <1>3

\* Every segment that recovery verifies holds its slice of the stream of the cursor.
THEOREM VerifiedIsChained ==
  ASSUME FilesOK(files), cursor \in Cursor, RecoverVerified
  PROVE  \A b \in Bases : Chained(b)
<1> DEFINE Broken == {b \in Bases : ~Chained(b)}
<1>1. Bases \subseteq Nat
  BY DEF FilesOK, Directory, Bases
<1>2. cursor.prefix \in Seq(Message) /\ Len(cursor.prefix) \in Nat
  BY LenProperties DEF Cursor
<1>3. ASSUME NEW b \in Bases, \A x \in Bases : x > b => Chained(x)
      PROVE  Chained(b)
  <2>1. SegmentVerified(b)
    BY DEF RecoverVerified
  <2>2. /\ b \in Nat
        /\ files.checkpoints[b] \in Checkpoint
        /\ Len(files.checkpoints[b].prefix) = b
        /\ Lines(b) \in Seq(Message)
        /\ b = cursor.segment => b <= Index(cursor) /\ Len(Lines(b)) = Index(cursor) - b
    BY <2>1, LinesType
  <2>3. files.checkpoints[b].prefix \in Seq(Message)
    BY <2>2 DEF Checkpoint
  <2>4. files.checkpoints[b].prefix \o Lines(b) = BoundaryAfter(b).prefix
    BY <2>1 DEF SegmentVerified
  <2>5. CASE b = cursor.segment
    <3>1. BoundaryAfter(b).prefix = cursor.prefix
      BY <2>5 DEF BoundaryAfter, CheckpointOf
    <3>2. Begins(files.checkpoints[b].prefix \o Lines(b), cursor.prefix)
      BY <1>2, <2>4, <3>1, BeginsReflexive
    <3>3. /\ Begins(files.checkpoints[b].prefix, cursor.prefix)
          /\ \A k \in 1..Len(Lines(b)) :
               Lines(b)[k] = cursor.prefix[Len(files.checkpoints[b].prefix) + k]
      BY <1>2, <2>2, <2>3, <3>2, ChainLink
    <3> QED BY <1>2, <2>2, <2>5, <3>3 DEF Chained, Index
  <2>6. CASE b # cursor.segment
    <3> DEFINE n == Min({x \in Bases : x > b})
    <3>1. n \in Bases /\ n > b
      BY <2>6, NextBase
    <3>2. SegmentVerified(n) /\ Chained(n)
      BY <1>3, <3>1 DEF RecoverVerified
    <3>3. Len(files.checkpoints[n].prefix) = n /\ files.checkpoints[n] \in Checkpoint
      BY <3>1, <3>2, LinesType
    <3>4. /\ files.checkpoints[n].prefix \in Seq(Message)
          /\ Begins(files.checkpoints[n].prefix, cursor.prefix)
      BY <3>2, <3>3 DEF Checkpoint, Chained
    <3>5. BoundaryAfter(b).prefix = files.checkpoints[n].prefix
      BY <2>6 DEF BoundaryAfter
    <3>6. Begins(files.checkpoints[b].prefix \o Lines(b), cursor.prefix)
      BY <2>4, <3>4, <3>5
    <3>7. /\ Begins(files.checkpoints[b].prefix, cursor.prefix)
          /\ Len(files.checkpoints[b].prefix \o Lines(b))
                = Len(files.checkpoints[b].prefix) + Len(Lines(b))
          /\ \A k \in 1..Len(Lines(b)) :
               Lines(b)[k] = cursor.prefix[Len(files.checkpoints[b].prefix) + k]
      BY <1>2, <2>2, <2>3, <3>6, ChainLink
    <3>8. Len(Lines(b)) \in Nat /\ n \in Nat /\ n = b + Len(Lines(b))
      BY <1>1, <2>2, <2>4, <3>1, <3>3, <3>5, <3>7, LenProperties
    <3>9. n <= Index(cursor)
      BY <3>3, <3>4 DEF Begins, Index
    <3> HIDE DEF n
    <3>10. /\ b < n /\ b <= n /\ Len(Lines(b)) = n - b
           /\ \A k \in 1..Len(Lines(b)) : Lines(b)[k] = cursor.prefix[b + k]
      BY <2>2, <3>1, <3>7, <3>8
    <3> USE DEF n
    <3> QED BY <2>2, <2>6, <3>7, <3>9, <3>10 DEF Chained
  <2> QED BY <2>5, <2>6
<1>4. CASE Broken # {}
  <2>1. Broken \in SUBSET Nat /\ cursor.segment \in Nat /\ \A b \in Broken : b <= cursor.segment
    BY <1>1 DEF RecoverVerified
  <2>2. Max(Broken) \in Broken /\ \A b \in Broken : Max(Broken) >= b
    BY <1>4, <2>1, MaxOfNats
  <2>3. \A x \in Bases : x > Max(Broken) => Chained(x)
    <3> HIDE DEF Broken
    <3>1. Max(Broken) \in Nat
      BY <2>1, <2>2
    <3>2. \A x \in Bases : x > Max(Broken) => x \notin Broken
      BY <1>1, <2>1, <2>2, <3>1
    <3> QED BY <3>2 DEF Broken
  <2> QED BY <1>3, <2>2, <2>3
<1> QED BY <1>4
-----------------------------------------------------------------------------
\* Where index i is read: in the last segment that starts at or before it.
LEMMA SegmentOfIndex ==
  ASSUME FilesOK(files), cursor \in Cursor, RecoverVerified,
         NEW i \in Min(Bases)..(Index(cursor) - 1)
  PROVE  LET b == Max({x \in Bases : x <= i} \cup {Min(Bases)})
         IN  /\ b \in Bases /\ b \in Nat /\ i \in Nat
             /\ i - b + 1 \in 1..Len(Lines(b))
             /\ Lines(b)[i - b + 1] = cursor.prefix[i + 1]
<1> DEFINE S == {x \in Bases : x <= i} \cup {Min(Bases)}
           b == Max(S)
<1>1. Bases \in SUBSET Nat /\ Bases # {}
  BY DEF FilesOK, Directory, Bases, RecoverVerified
<1>2. Min(Bases) \in Bases
  BY <1>1, MinOfNats
<1>3. Index(cursor) \in Nat
  BY LenProperties DEF Cursor, Index
<1>4. i \in Nat /\ Min(Bases) <= i /\ i < Index(cursor)
  <2> DEFINE first == Min(Bases)
             top == Index(cursor)
  <2>1. first \in Nat /\ top \in Nat /\ i \in first..(top - 1)
    BY <1>1, <1>2, <1>3
  <2> HIDE DEF first, top
  <2>2. i \in Nat /\ first <= i /\ i < top
    BY <2>1
  <2> QED BY <2>2 DEF first, top
<1>5. S \in SUBSET Nat /\ S # {} /\ \A x \in S : x <= i
  BY <1>1, <1>2, <1>4
<1>6. b \in S /\ \A x \in S : b >= x
  BY <1>4, <1>5, MaxOfNats
<1>7. b \in Bases /\ b \in Nat /\ b <= i
  BY <1>1, <1>2, <1>5, <1>6
<1>8. \A x \in Bases : x <= i => x <= b
  BY <1>6
<1> HIDE DEF S, b
<1>9. Chained(b)
  BY <1>7, VerifiedIsChained
<1>10. Len(Lines(b)) \in Nat /\ i - b + 1 <= Len(Lines(b))
  <2>1. Len(Lines(b)) \in Nat
    BY <1>9, LenProperties DEF Chained
  <2>2. CASE b = cursor.segment
    BY <1>3, <1>4, <1>7, <1>9, <2>1, <2>2 DEF Chained
  <2>3. CASE b # cursor.segment
    <3> DEFINE n == Min({x \in Bases : x > b})
    <3>1. n \in Bases /\ n > b
      BY <1>7, <2>3, NextBase
    <3>2. Len(Lines(b)) = n - b
      BY <1>9, <2>3 DEF Chained
    <3> HIDE DEF n
    <3>3. n \in Nat /\ ~(n <= i)
      BY <1>1, <1>7, <1>8, <3>1
    <3> QED BY <1>4, <1>7, <3>2, <3>3
  <2> QED BY <2>2, <2>3
<1>11. i - b + 1 \in 1..Len(Lines(b))
  BY <1>4, <1>7, <1>10
<1>12. Lines(b)[i - b + 1] = cursor.prefix[b + (i - b + 1)]
  BY <1>9, <1>11 DEF Chained
<1>13. b + (i - b + 1) = i + 1
  BY <1>4, <1>7
<1> QED
  BY <1>4, <1>7, <1>11, <1>12, <1>13 DEF S, b

\* A recovery that accepts the journal leaves it readable up to its cursor.
THEOREM RecoveredIsReadable ==
  ASSUME FilesOK(files), cursor \in Cursor, RecoverReplay, RecoverVerified,
         DOMAIN mem = DOMAIN NoMemory
  PROVE  Opened' /\ RetainedIsReadable'
<1>1. /\ files'.segments = [files.segments EXCEPT ![cursor.segment] = Lines(cursor.segment)]
      /\ mem' = [mem EXCEPT !.durable = cursor,
                            !.segments = [b \in Bases |-> SegmentOf(files.checkpoints[b])]]
  BY DEF RecoverReplay, FilesOK
<1>2. /\ durable' = cursor
      /\ segments' = [b \in Bases |-> SegmentOf(files.checkpoints[b])]
  BY <1>1 DEF NoMemory, durable, segments
<1>3. DOMAIN segments' = Bases /\ Bases # {} /\ FirstRetained' = Min(Bases)
  BY <1>2 DEF FirstRetained, RecoverVerified
<1>4. \A b \in Bases : files'.segments[b] = Lines(b)
  BY <1>1 DEF Bases, Lines
<1>5. Bases' = Bases
  BY <1>1 DEF Bases
<1>6. ASSUME NEW i \in Min(Bases)..(Index(cursor) - 1)
      PROVE  LET b == SegmentFor(i)'
             IN  /\ b \in Bases' /\ i - b + 1 \in DOMAIN files'.segments[b]
                 /\ ReadAt(i)' = durable'.prefix[i + 1]
  <2> DEFINE b == Max({x \in Bases : x <= i} \cup {Min(Bases)})
  <2>1. SegmentFor(i)' = b
    BY <1>3 DEF SegmentFor
  <2>2. /\ b \in Bases /\ i - b + 1 \in 1..Len(Lines(b))
        /\ Lines(b)[i - b + 1] = cursor.prefix[i + 1]
    BY SegmentOfIndex
  <2> HIDE DEF b
  <2>3. files'.segments[b] = Lines(b)
    BY <1>4, <2>2
  <2>4. DOMAIN Lines(b) = 1..Len(Lines(b))
    BY <2>2, VerifiedIsChained, LenProperties DEF Chained
  <2> QED BY <1>2, <1>5, <2>1, <2>2, <2>3, <2>4 DEF ReadAt
<1> QED
  BY <1>2, <1>3, <1>6 DEF Opened, RetainedIsReadable
-----------------------------------------------------------------------------
(* Types, and what stays in place.                                         *)

Sealing ==
  {"sealCheckpoint", "sealCheckpointSync", "sealSegment", "sealSegmentSync",
   "sealCursor", "sealCursorSync"}
Initializing ==
  {"initCheckpoint", "initCheckpointSync", "initSegment", "initSegmentSync",
   "initCursor", "initCursorSync"}

\* The process has opened the journal.
Holding ==
  {"recoverFsync", "replay", "idle", "anchorSync", "publish", "salvage"}
  \cup CommitSteps

\* A batch that is being appended has a next line.
Appending == pc = "append" => mem.written < Len(staged)

\* From the verification on the retained segments can be read up to the cursor,
\* and the consumer's index is inside them once it has been compared.
Reading ==
  /\ pc \in {"recoverFsync", "replay"} =>
       durable = cursor /\ Opened /\ RetainedIsReadable
  /\ pc = "replay" => FirstRetained <= Len(ledger) /\ Len(ledger) <= Index(durable)

\* The open segment: it exists, it is the last, and it starts within the
\* committed stream.
OpenSegment ==
  /\ pc \in Holding =>
       /\ DOMAIN segments \subseteq Bases
       /\ durable.segment \in DOMAIN segments
       /\ \A b \in DOMAIN segments : b <= durable.segment
       /\ cursor.segment = durable.segment
       /\ durable.segment <= Index(durable)
       /\ Index(durable) <= Index(cursor)
  /\ pc \in Sealing => cursor = durable
  /\ pc \in {"sealSegmentSync", "sealCursor", "sealCursorSync"} => Index(cursor) \in Bases
  /\ pc \in Initializing => cursor.segment = 0 /\ Index(cursor) = 0
  /\ pc \in {"initSegmentSync", "initCursor", "initCursorSync"} => 0 \in Bases
  /\ pc = "anchorSync" =>
       /\ files.cursor.segment = durable.segment
       /\ files.cursor.prefix = cursor.prefix
  /\ pc = "expired" => Bases # {}

TypeInv == TypeOK /\ Appending /\ Reading /\ OpenSegment
-----------------------------------------------------------------------------
(* Types.                                                                   *)

\* The parts of a cursor.
LEMMA CursorParts ==
  ASSUME NEW c \in Cursor
  PROVE  /\ Index(c) \in Nat /\ c.prefix \in Seq(Message)
         /\ c.epoch \in Nat /\ c.seq \in Nat /\ c.cut \in Nat /\ c.last \in Int
         /\ c.segment \in Nat /\ c.proofs \in Seq(Nat) /\ Len(c.proofs) <= MaxProofs
         /\ CheckpointOf(c) \in Checkpoint /\ SegmentOf(c) \in Segment
         /\ \A b \in Nat : [c EXCEPT !.segment = b] \in Cursor
         /\ \A p \in PredIds : [c EXCEPT !.pred = p] \in Cursor
BY LenProperties DEF Cursor, Checkpoint, CheckpointOf, SegmentOf, Segment, Index

\* A directory with one more entry, and with one less.
LEMMA DirectoryChange ==
  ASSUME NEW S, NEW f, Directory(f, S), NEW b \in Nat, NEW v \in S
  PROVE  /\ Directory(With(f, b, v), S) /\ DOMAIN With(f, b, v) = DOMAIN f \cup {b}
         /\ Directory([f EXCEPT ![b] = v], S)
         /\ Directory(Without(f, b), S) /\ DOMAIN Without(f, b) = DOMAIN f \ {b}
BY DEF Directory, With, Without

\* Replacing one kind of file.
LEMMA FilesChange ==
  ASSUME NEW f, FilesOK(f)
  PROVE  /\ \A c \in Cursor : FilesOK([f EXCEPT !.cursor = c])
         /\ \A d : Directory(d, Checkpoint) => FilesOK([f EXCEPT !.checkpoints = d])
         /\ \A d : Directory(d, Seq(Message)) => FilesOK([f EXCEPT !.segments = d])
BY DEF FilesOK

\* Replacing what the process knows.
LEMMA MemoryChange ==
  ASSUME NEW m, MemoryOK(m), NEW c \in Cursor, NEW d, Directory(d, Segment)
  PROVE  /\ MemoryOK([m EXCEPT !.cursor = c])
         /\ MemoryOK([m EXCEPT !.durable = c, !.segments = d])
         /\ MemoryOK([m EXCEPT !.durable = c, !.cursor = c])
         /\ MemoryOK([m EXCEPT !.segments = d])
BY DEF MemoryOK

\* A message that can_advance() accepts leads from a cursor to a cursor.
LEMMA StagedIsCursor ==
  ASSUME NEW c \in Cursor, NEW m \in Message
  PROVE  Staged(c, m) \in Cursor
<1>1. Append(c.prefix, m) \in Seq(Message)
  BY CursorParts, AppendProperties
<1>2. ASSUME NEW minute \in Nat
      PROVE  PushProof(c.proofs, minute) \in {p \in Seq(Nat) : Len(p) <= MaxProofs}
  <2> DEFINE longer == Append(c.proofs, minute)
  <2>1. longer \in Seq(Nat) /\ Len(longer) = Len(c.proofs) + 1 /\ longer # <<>>
    <3>1. c.proofs \in Seq(Nat) /\ Len(c.proofs) \in Nat
      BY CursorParts, LenProperties
    <3> QED BY <3>1, AppendProperties, EmptySeq
  <2>2. Tail(longer) \in Seq(Nat) /\ Len(Tail(longer)) = Len(longer) - 1
    BY <2>1, HeadTailProperties
  <2>3. Len(c.proofs) \in Nat /\ MaxProofs \in Nat
    BY CursorParts, LenProperties, JournalAssumption
  <2> QED BY <2>1, <2>2, <2>3, CursorParts DEF PushProof
<1>3. c.cut \in Nat /\ c.cut + Minute \in Nat /\ m.ts \in Nat /\ m.id \in Nat
  BY CursorParts, JournalAssumption, SMTT(30) DEF Message
<1>4. Advance(c, m) \in Cursor
  <2>1. CASE m.type = "tick"
    <3>1. m.id \in Nat /\ m.ts \in Int
      BY <1>3
    <3>2. [c EXCEPT !.seq = m.id, !.last = m.ts] \in Cursor
      BY <3>1 DEF Cursor
    <3> QED BY <2>1, <3>2 DEF Advance
  <2>2. CASE m.type = "bar"
    BY <1>3, <2>2 DEF Advance, Cursor
  <2>3. CASE m.type = "time"
    BY <1>3, <2>3 DEF Advance, Cursor
  <2> QED BY <2>1, <2>2, <2>3 DEF Message
<1>5. Advance(c, m).prefix = c.prefix /\ Advance(c, m).proofs = c.proofs
  BY DEF Advance, Cursor, Message
<1> QED
  BY <1>1, <1>2, <1>3, <1>4, <1>5 DEF Staged, Cursor

\* Staging a message appends it and leaves the open segment and the epoch alone.
LEMMA StagedParts ==
  ASSUME NEW c \in Cursor, NEW m \in Message
  PROVE  /\ Staged(c, m).prefix = Append(c.prefix, m)
         /\ Staged(c, m).segment = c.segment /\ Staged(c, m).epoch = c.epoch /\ Staged(c, m).pred = c.pred
<1>1. /\ DOMAIN Advance(c, m) = DOMAIN c /\ Advance(c, m).prefix = c.prefix
      /\ Advance(c, m).segment = c.segment /\ Advance(c, m).epoch = c.epoch /\ Advance(c, m).pred = c.pred
  BY DEF Advance, Cursor, Message
<1>2. {"prefix", "segment", "epoch", "pred", "proofs"} \subseteq DOMAIN c
  BY DEF Cursor
<1> QED BY <1>1, <1>2 DEF Staged

\* The sessions offer messages.
LEMMA CandidatesType ==
  ASSUME cursor \in Cursor
  PROVE  Candidates \subseteq Message
<1>1. Previous(cursor) + 1 \in Nat /\ cursor.cut \in Nat
  <2>1. cursor.pred \in Nat
    <3>1. cursor.pred \in {0} \cup PredIds
      BY DEF Cursor
    <3>2. \A x \in PredIds : x \in Nat
      BY JournalAssumption
    <3> QED BY <3>1, <3>2
  <2> QED BY <2>1, CursorParts DEF Previous
<1>2. cursor.cut..(cursor.cut + Minute) \subseteq Nat /\ cursor.cut + Minute \in Nat
  BY <1>1, JournalAssumption
<1> QED BY <1>1, <1>2 DEF Candidates, Message

\* What a power loss leaves of a directory, and of a segment, is what one was.
LEMMA SurvivorsType ==
  ASSUME FilesOK(files), FilesOK(disk),
         NEW keptCheckpoints, NEW keptSegments, NEW n \in TornLengths
  PROVE  /\ Directory(Survivors(files.checkpoints, disk.checkpoints, keptCheckpoints), Checkpoint)
         /\ Directory(SurvivingSegments(keptSegments, n), Seq(Message))
<1>1. Directory(Survivors(files.checkpoints, disk.checkpoints, keptCheckpoints), Checkpoint)
  BY DEF FilesOK, Directory, Survivors
<1>2. Directory(Survivors(files.segments, disk.segments, keptSegments), Seq(Message))
  BY DEF FilesOK, Directory, Survivors
<1>3. n \in Int
  <2>1. \A b \in Bases \cap DOMAIN disk.segments :
          Len(files.segments[b]) + Len(disk.segments[b]) \in Nat
    BY LenProperties DEF FilesOK, Directory, Bases
  <2>2. CASE n = 0
    BY <2>2
  <2>3. CASE n # 0
    <3>1. PICK b \in Bases \cap DOMAIN disk.segments :
            n \in 0..(Len(files.segments[b]) + Len(disk.segments[b]))
      BY <2>3 DEF TornLengths
    <3> QED BY <2>1, <3>1
  <2> QED BY <2>2, <2>3
<1>4. ASSUME NEW a \in Seq(Message), NEW b \in Seq(Message)
      PROVE  Torn(a, b, n) \in Seq(Message)
  <2> DEFINE longer == IF Len(a) < Len(b) THEN b ELSE a
  <2>1. longer \in Seq(Message) /\ Len(longer) \in Nat
    BY LenProperties
  <2>2. ASSUME n < Len(longer) PROVE SubSeq(longer, 1, n) \in Seq(Message)
    <3>1. \A i \in 1..n : longer[i] \in Message
      BY <1>3, <2>1, <2>2, ElementOfSeq
    <3> HIDE DEF longer
    <3> QED BY <1>3, <2>1, <3>1, SubSeqProperties
  <2>3. n >= Len(longer) \/ n < Len(longer)
    BY <1>3, <2>1
  <2> QED BY <2>2, <2>3 DEF Torn
<1>5. \A b \in Bases \cap DOMAIN disk.segments :
        Torn(files.segments[b], disk.segments[b], n) \in Seq(Message)
  BY <1>4 DEF FilesOK, Directory, Bases
<1> QED
  BY <1>1, <1>2, <1>5 DEF Directory, SurvivingSegments

\* What there is before the first start, and what a dead process leaves in memory.
LEMMA NothingType ==
  /\ NoCursor \in Cursor /\ FilesOK(NoFiles) /\ MemoryOK(NoMemory)
  /\ \A S : Directory(<<>>, S)
<1>1. <<>> \in Seq(Message) /\ <<>> \in Seq(Nat) /\ Len(<<>>) = 0 /\ DOMAIN <<>> = {}
  BY EmptySeq
<1>2. NoCursor \in Cursor
  BY <1>1, JournalAssumption DEF NoCursor, FreshCursor, Cursor, Start
<1>3. \A S : Directory(<<>>, S)
  BY <1>1 DEF Directory
<1>4. FilesOK(NoFiles)
  BY <1>1, <1>2, <1>3 DEF FilesOK, NoFiles
<1>5. MemoryOK(NoMemory)
  BY <1>1, <1>2, <1>3, JournalAssumption DEF MemoryOK, NoMemory
<1> QED BY <1>2, <1>3, <1>4, <1>5

\* A replay writes out the committed messages from the consumer's index on.
LEMMA VisitType ==
  ASSUME TypeOK, Opened, RetainedIsReadable,
         FirstRetained <= Len(ledger), Len(ledger) <= Index(durable)
  PROVE  /\ Visit(Len(ledger)) \in Seq(Message)
         /\ Len(Visit(Len(ledger))) = Index(durable) - Len(ledger)
         /\ \A k \in 1..(Index(durable) - Len(ledger)) :
              Visit(Len(ledger))[k] = durable.prefix[Len(ledger) + k]
<1>1. /\ durable \in Cursor /\ ledger \in Seq(Message)
      /\ DOMAIN segments \in SUBSET Nat /\ DOMAIN segments # {}
  BY DEF TypeOK, MemoryOK, Directory, durable, segments, Opened
<1>2. FirstRetained \in Nat
  BY <1>1, MinOfNats DEF FirstRetained
<1>3. Index(durable) \in Nat /\ durable.prefix \in Seq(Message) /\ Len(ledger) \in Nat
  BY <1>1, CursorParts, LenProperties
<1> DEFINE n == Index(durable) - Len(ledger)
<1>4. n \in Nat
  BY <1>3
<1>5. ASSUME NEW k \in 1..n
      PROVE  /\ ReadAt(Len(ledger) + k - 1) = durable.prefix[Len(ledger) + k]
             /\ durable.prefix[Len(ledger) + k] \in Message
  <2>1. /\ Len(ledger) + k - 1 \in FirstRetained..(Index(durable) - 1)
        /\ Len(ledger) + k - 1 + 1 = Len(ledger) + k
        /\ Len(ledger) + k \in 1..Index(durable)
    BY <1>2, <1>3
  <2>2. ReadAt(Len(ledger) + k - 1) = durable.prefix[Len(ledger) + k - 1 + 1]
    BY <2>1 DEF RetainedIsReadable
  <2>3. durable.prefix[Len(ledger) + k] \in Message
    BY <1>3, <2>1, ElementOfSeq DEF Index
  <2> QED BY <2>1, <2>2, <2>3
<1>6. Visit(Len(ledger)) = [k \in 1..n |-> ReadAt(Len(ledger) + k - 1)]
  BY DEF Visit
<1> HIDE DEF n
<1>7. Visit(Len(ledger)) \in [1..n -> Message]
  BY <1>5, <1>6
<1>8. Visit(Len(ledger)) \in Seq(Message) /\ Len(Visit(Len(ledger))) = n
  BY <1>4, <1>7, SeqDef, LenProperties
<1> QED BY <1>5, <1>6, <1>8 DEF n

\* Every step keeps the types.
LEMMA TypeStep ==
  ASSUME TypeInv, [Next]_vars
  PROVE  TypeOK'
<1> USE DEF TypeOK
<1>1. TypeOK
  BY DEF TypeInv
<1>2. /\ cursor \in Cursor /\ durable \in Cursor /\ staged \in Seq(Message)
      /\ files.cursor \in Cursor /\ disk.cursor \in Cursor
      /\ Directory(files.checkpoints, Checkpoint) /\ Directory(disk.checkpoints, Checkpoint)
      /\ Directory(files.segments, Seq(Message)) /\ Directory(disk.segments, Seq(Message))
      /\ Directory(segments, Segment)
  BY <1>1 DEF FilesOK, MemoryOK, cursor, durable, staged, segments
<1>3. /\ Index(cursor) \in Nat /\ CheckpointOf(cursor) \in Checkpoint
      /\ Index(durable) \in Nat /\ durable.segment \in Nat
  BY <1>2, CursorParts
<1>4. CASE WriteCheckpoint
  <2>1. FilesOK(files')
    BY <1>1, <1>2, <1>3, <1>4, DirectoryChange, FilesChange DEF WriteCheckpoint
  <2>2. pc' \in PCs
    BY <1>4 DEF WriteCheckpoint, Step, After, PCs, CommitSteps
  <2> QED BY <1>1, <1>4, <2>1, <2>2 DEF WriteCheckpoint, environment, FilesOK, MemoryOK
<1>5. CASE CreateSegment
  <2>1. FilesOK(files')
    <3>1. <<>> \in Seq(Message)
      BY EmptySeq
    <3> QED BY <1>1, <1>2, <1>3, <1>5, <3>1, DirectoryChange, FilesChange DEF CreateSegment
  <2>2. pc' \in PCs
    BY <1>5 DEF CreateSegment, Step, After, PCs, CommitSteps
  <2> QED BY <1>1, <1>5, <2>1, <2>2 DEF CreateSegment, environment, FilesOK, MemoryOK
<1>6. CASE ReplaceCursor
  <2>1. FilesOK(files')
    <3>1. [cursor EXCEPT !.segment = Index(cursor)] \in Cursor
      BY <1>2, <1>3, CursorParts
    <3> QED BY <1>1, <1>2, <1>6, <3>1, FilesChange DEF ReplaceCursor
  <2>2. pc' \in PCs
    BY <1>6 DEF ReplaceCursor, Step, After, PCs, CommitSteps
  <2> QED BY <1>1, <1>6, <2>1, <2>2 DEF ReplaceCursor, environment, FilesOK, MemoryOK
<1>7. CASE SyncJournalDir
  <2>1. FilesOK(disk')
    <3>1. <<>> \in Seq(Message)
      BY EmptySeq
    <3> QED BY <1>1, <1>2, <1>7, <3>1 DEF SyncJournalDir, SyncedJournal, FilesOK, Directory, Bases
  <2>2. pc' \in PCs
    BY <1>7 DEF SyncJournalDir, Step, After, PCs, CommitSteps
  <2> QED BY <1>1, <1>7, <2>1, <2>2 DEF SyncJournalDir, environment, FilesOK, MemoryOK
<1>8. CASE StartFresh
  <2>1. FilesOK(files')
    <3>1. FilesOK([files EXCEPT !.checkpoints = <<>>, !.segments = <<>>])
      BY <1>1, NothingType DEF FilesOK
    <3> QED BY <1>1, <1>8, <3>1 DEF StartFresh
  <2>2. epoch' \in 0..MaxStarts
    BY <1>1, <1>8, JournalAssumption DEF StartFresh
  <2>3. FreshCursor(epoch') \in Cursor
    BY <2>2, EmptySeq, JournalAssumption DEF FreshCursor, Cursor, Start
  <2>4. MemoryOK(mem')
    <3>1. MemoryOK([mem EXCEPT !.cursor = FreshCursor(epoch')])
      BY <1>1, <1>2, <2>3, MemoryChange
    <3>2. mem' = mem \/ mem' = [mem EXCEPT !.cursor = FreshCursor(epoch')]
      BY <1>8 DEF StartFresh
    <3> QED BY <1>1, <3>1, <3>2
  <2>5. pc' \in PCs /\ deaf' \in BOOLEAN /\ UNCHANGED <<disk, ledger, faults>>
    BY <1>8 DEF StartFresh, PCs
  <2> QED BY <1>1, <2>1, <2>2, <2>4, <2>5 DEF FilesOK, MemoryOK
<1>9. CASE Initialized
  <2>1. FilesOK(disk')
    BY <1>1, <1>2, <1>9, FilesChange DEF Initialized, CursorSynced
  <2>2. MemoryOK(mem')
    <3>1. SegmentOf(cursor) \in Segment
      BY <1>2, CursorParts
    <3> QED BY <1>1, <1>2, <1>3, <1>9, <3>1 DEF Initialized, MemoryOK, Directory
  <2> QED BY <1>1, <1>9, <2>1, <2>2 DEF Initialized, CursorSynced, environment, PCs, FilesOK, MemoryOK
<1>10. CASE Anchored
  <2>1. FilesOK(disk')
    BY <1>1, <1>2, <1>10, FilesChange DEF Anchored, CursorSynced
  <2>2. MemoryOK(mem')
    BY <1>1, <1>2, <1>10 DEF Anchored, MemoryOK
  <2> QED BY <1>1, <1>10, <2>1, <2>2 DEF Anchored, CursorSynced, environment, PCs, FilesOK, MemoryOK
<1>11. CASE Resume
  <2>1. MemoryOK(mem')
    BY <1>1, <1>2, <1>11 DEF Resume, MemoryOK
  <2> QED BY <1>1, <1>11, <2>1 DEF Resume, PCs, FilesOK, MemoryOK
<1>12. CASE RecoverRemove
  <2>1. FilesOK(files')
    BY <1>1, <1>2, <1>12, FilesChange DEF RecoverRemove, Without, Directory
  <2> QED BY <1>1, <1>12, <2>1 DEF RecoverRemove, environment, PCs, FilesOK, MemoryOK
<1>13. CASE RecoverScanned
  BY <1>1, <1>13 DEF RecoverScanned, environment, PCs, FilesOK, MemoryOK
<1>14. CASE RecoverReplay
  <2>1. CASE RecoverVerified
    <3>1. cursor.segment \in Bases /\ Bases \subseteq Nat
      BY <1>2, <2>1 DEF RecoverVerified, Directory, Bases
    <3>2. \A b \in Bases : files.checkpoints[b] \in Checkpoint /\ Lines(b) \in Seq(Message)
      BY <1>1, <1>2, <2>1, LinesType DEF RecoverVerified
    <3>3. \A c \in Checkpoint : SegmentOf(c) \in Segment
      BY DEF Checkpoint, SegmentOf, Segment
    <3>4. /\ FilesOK([files EXCEPT !.segments[cursor.segment] = Lines(cursor.segment)])
          /\ Directory([b \in Bases |-> SegmentOf(files.checkpoints[b])], Segment)
      BY <1>1, <1>2, <3>1, <3>2, <3>3 DEF FilesOK, Directory
    <3>5. FilesOK(files') /\ pc' \in PCs
      BY <1>14, <2>1, <3>4 DEF RecoverReplay, PCs
    <3>6. MemoryOK(mem')
      <4> DEFINE read == [b \in Bases |-> SegmentOf(files.checkpoints[b])]
      <4>1. MemoryOK([mem EXCEPT !.durable = cursor, !.segments = read])
        BY <1>1, <1>2, <3>4, MemoryChange
      <4>2. mem' = [mem EXCEPT !.durable = cursor, !.segments = read]
        BY <1>14, <2>1 DEF RecoverReplay
      <4> QED BY <4>1, <4>2
    <3> QED BY <1>1, <1>14, <3>5, <3>6 DEF RecoverReplay, environment, FilesOK, MemoryOK
  <2>2. CASE ~RecoverVerified
    BY <1>1, <1>14, <2>2 DEF RecoverReplay, environment, PCs, FilesOK, MemoryOK
  <2> QED BY <2>1, <2>2
<1>15. CASE RecoverFsync
  <2>1. cursor.segment \in Bases
    BY <1>15 DEF RecoverFsync, TypeInv, OpenSegment, Holding
  <2>2. FilesOK(disk')
    BY <1>1, <1>2, <1>15, <2>1 DEF RecoverFsync, FilesOK, Directory, Bases
  <2> QED BY <1>1, <1>15, <2>2 DEF RecoverFsync, environment, PCs, FilesOK, MemoryOK
<1>16. CASE Replay
  <2>1. /\ FirstRetained <= Len(ledger) /\ Len(ledger) <= Index(durable)
        /\ Opened /\ RetainedIsReadable
    BY <1>16 DEF Replay, TypeInv, Reading
  <2>2. Visit(Len(ledger)) \in Seq(Message)
    BY <1>1, <2>1, VisitType
  <2>3. MemoryOK(mem')
    BY <1>1, <1>16, <2>2 DEF Replay, MemoryOK
  <2> QED BY <1>1, <1>16, <2>3 DEF Replay, environment, PCs, FilesOK, MemoryOK
<1>17. CASE Flush
  <2>1. MemoryOK(mem')
    BY <1>1, <1>17 DEF Flush, MemoryOK
  <2> QED BY <1>1, <1>17, <2>1 DEF Flush, environment, PCs, CommitSteps, FilesOK, MemoryOK
<1>18. CASE AppendLine
  <2>1. mem.written \in Nat /\ mem.written < Len(staged)
    BY <1>1, <1>18 DEF AppendLine, TypeInv, Appending, MemoryOK
  <2>2. staged[mem.written + 1] \in Message
    BY <1>2, <2>1, LenProperties, ElementOfSeq
  <2>3. FilesOK(files')
    <3>1. \A b \in Bases : Append(files.segments[b], staged[mem.written + 1]) \in Seq(Message)
      BY <1>2, <2>2, AppendProperties DEF Directory, Bases
    <3>2. Directory([files.segments EXCEPT ![durable.segment] =
                       Append(@, staged[mem.written + 1])], Seq(Message))
      BY <1>2, <3>1 DEF Directory, Bases
    <3> QED BY <1>1, <1>18, <3>2 DEF AppendLine, FilesOK
  <2>4. MemoryOK(mem')
    BY <1>1, <1>18, <2>1 DEF AppendLine, MemoryOK
  <2> QED BY <1>1, <1>18, <2>3, <2>4 DEF AppendLine, environment, PCs, CommitSteps, FilesOK, MemoryOK
<1>19. CASE SyncAppended
  <2>1. durable.segment \in Bases
    BY <1>19 DEF SyncAppended, Step, TypeInv, OpenSegment, Holding, CommitSteps
  <2>2. FilesOK(disk')
    BY <1>1, <1>2, <1>19, <2>1 DEF SyncAppended, FilesOK, Directory, Bases
  <2>3. pc' \in PCs
    BY <1>19 DEF SyncAppended, Step, After, PCs, CommitSteps
  <2> QED BY <1>1, <1>19, <2>2, <2>3 DEF SyncAppended, environment, FilesOK, MemoryOK
<1>20. CASE Committed
  <2>1. FilesOK(disk')
    BY <1>1, <1>2, <1>20, FilesChange DEF Committed, CursorSynced
  <2>2. MemoryOK(mem')
    BY <1>1, <1>2, <1>20, NothingType, JournalAssumption DEF Committed, MemoryOK
  <2> QED BY <1>1, <1>20, <2>1, <2>2 DEF Committed, CursorSynced, environment, PCs, CommitSteps, FilesOK, MemoryOK
<1>21. CASE Sealed
  <2>1. FilesOK(disk')
    BY <1>1, <1>2, <1>21, FilesChange DEF Sealed, CursorSynced
  <2>2. MemoryOK(mem')
    <3>1. /\ [mem.durable EXCEPT !.segment = Index(durable)] \in Cursor
          /\ [mem.cursor EXCEPT !.segment = Index(durable)] \in Cursor
          /\ SegmentOf(durable) \in Segment
      BY <1>2, <1>3, CursorParts DEF cursor, durable
    <3>2. Directory(With(mem.segments, Index(durable), SegmentOf(durable)), Segment)
      BY <1>2, <1>3, <3>1, DirectoryChange DEF segments
    <3> QED BY <1>1, <1>21, <3>1, <3>2 DEF Sealed, MemoryOK
  <2> QED BY <1>1, <1>21, <2>1, <2>2 DEF Sealed, CursorSynced, environment, PCs, CommitSteps, FilesOK, MemoryOK
<1>22. CASE ExpireSegment
  <2>1. FilesOK(files')
    BY <1>1, <1>2, <1>22, FilesChange DEF ExpireSegment, Without, Directory
  <2>2. MemoryOK(mem')
    BY <1>1, <1>2, <1>22, MemoryChange DEF ExpireSegment, Without, Directory, segments
  <2> QED BY <1>1, <1>22, <2>1, <2>2 DEF ExpireSegment, environment, PCs, CommitSteps, FilesOK, MemoryOK
<1>23. CASE ExpireCheckpoint
  <2>1. FilesOK(files')
    BY <1>1, <1>2, <1>23, FilesChange DEF ExpireCheckpoint, Directory
  <2>2. pc' \in PCs
    BY <1>23 DEF ExpireCheckpoint, Step, After, PCs, CommitSteps
  <2> QED BY <1>1, <1>23, <2>1, <2>2 DEF ExpireCheckpoint, environment, FilesOK, MemoryOK
<1>24. CASE RetainDone
  BY <1>1, <1>24 DEF RetainDone, environment, PCs, FilesOK, MemoryOK
<1>25. CASE PublishLine
  <2>1. /\ Head(mem.outbox) \in Message /\ Tail(mem.outbox) \in Seq(Message)
    BY <1>1, <1>25, HeadTailProperties DEF PublishLine, MemoryOK
  <2>2. ledger' \in Seq(Message)
    BY <1>1, <1>25, <2>1, AppendProperties DEF PublishLine
  <2>3. MemoryOK(mem')
    BY <1>1, <1>25, <2>1 DEF PublishLine, MemoryOK
  <2> QED BY <1>1, <1>25, <2>2, <2>3 DEF PublishLine, FilesOK, MemoryOK
<1>26. ASSUME Exit, UNCHANGED <<ledger, deaf, epoch>>, faults' \in 0..MaxFaults PROVE TypeOK'
  <2>1. FilesOK(disk')
    BY <1>1, <1>26 DEF Exit
  <2>2. MemoryOK(mem')
    BY <1>26, NothingType DEF Exit
  <2> QED BY <1>1, <1>26, <2>1, <2>2 DEF Exit, PCs, FilesOK, MemoryOK
<1>27. CASE Published
  <2>1. CASE Exit
    BY <1>1, <1>26, <1>27, <2>1 DEF Published, environment
  <2>2. CASE ~Exit
    BY <1>1, <1>27, <2>2 DEF Published, environment, PCs, FilesOK, MemoryOK
  <2> QED BY <2>1, <2>2
<1>28. CASE Salvaged
  BY <1>1, <1>26, <1>28 DEF Salvaged, environment
<1>29. CASE OutputLost
  BY <1>1, <1>26, <1>29 DEF OutputLost, environment
<1>30. CASE ConsumerRebuilds
  <2>1. /\ Min(Bases) \in Nat /\ Index(files.cursor) \in Nat
        /\ files.cursor.prefix \in Seq(Message)
    <3>1. Bases # {} /\ Bases \in SUBSET Nat
      BY <1>2, <1>30 DEF ConsumerRebuilds, TypeInv, OpenSegment, Directory, Bases
    <3> QED BY <1>2, <3>1, MinOfNats, CursorParts
  <2>2. ASSUME NEW n \in Min(Bases)..Index(files.cursor)
        PROVE  SubSeq(files.cursor.prefix, 1, n) \in Seq(Message)
    <3>1. n \in Nat /\ n <= Len(files.cursor.prefix)
      BY <2>1 DEF Index
    <3>2. \A i \in 1..n : files.cursor.prefix[i] \in Message
      BY <2>1, <3>1, ElementOfSeq, LenProperties
    <3> QED BY <3>1, <3>2, SubSeqProperties
  <2>3. ledger' \in Seq(Message)
    BY <1>30, <2>2 DEF ConsumerRebuilds
  <2> QED BY <1>1, <1>30, <2>3, NothingType DEF ConsumerRebuilds, PCs, FilesOK, MemoryOK
<1>31. CASE Anchor
  <2>1. FilesOK(files')
    BY <1>1, <1>2, <1>31, CursorParts, FilesChange DEF Anchor
  <2> QED BY <1>1, <1>31, <2>1 DEF Anchor, environment, PCs, FilesOK, MemoryOK
<1>32. ASSUME NEW m \in Candidates, Stage(m) PROVE TypeOK'
  <2>1. m \in Message
    BY <1>2, CandidatesType
  <2>2. Staged(cursor, m) \in Cursor
    BY <1>2, <2>1, StagedIsCursor
  <2>3. Append(staged, m) \in Seq(Message) /\ Len(Append(staged, m)) = Len(staged) + 1
    BY <1>2, <2>1, AppendProperties
  <2>4. Len(staged) \in Nat /\ Len(Append(staged, m)) <= MaxBatch
    BY <1>2, <1>32, <2>3, LenProperties, JournalAssumption DEF Stage
  <2>5. MemoryOK(mem')
    BY <1>1, <1>32, <2>2, <2>3, <2>4 DEF Stage, MemoryOK, staged
  <2> QED BY <1>1, <1>32, <2>5 DEF Stage, environment, FilesOK, MemoryOK
<1>33. ASSUME NEW kind, Fault(kind) PROVE faults' \in 0..MaxFaults /\ epoch' = epoch
  BY <1>1, <1>33, JournalAssumption DEF Fault
<1>34. CASE VenueError
  <2>1. MemoryOK(mem')
    BY <1>1, <1>34 DEF VenueError, MemoryOK
  <2> QED BY <1>1, <1>33, <1>34, <2>1 DEF VenueError, PCs, FilesOK, MemoryOK
<1>35. CASE IOFailure
  <2>1. MemoryOK(mem')
    BY <1>1, <1>35, NothingType DEF IOFailure, MemoryOK, NoMemory
  <2> QED BY <1>1, <1>33, <1>35, <2>1 DEF IOFailure, PCs, FilesOK, MemoryOK
<1>36. CASE Kill
  BY <1>1, <1>26, <1>33, <1>36 DEF Kill
<1>37. CASE PowerLoss
  <2>1. FilesOK(files')
    BY <1>1, <1>2, <1>37, SurvivorsType DEF PowerLoss, FilesOK
  <2> QED BY <1>1, <1>33, <1>37, <2>1, NothingType DEF PowerLoss, PCs, FilesOK, MemoryOK
<1>38. CASE ConsumerDies
  BY <1>1, <1>33, <1>38 DEF ConsumerDies, FilesOK, MemoryOK
<1>39. CASE UNCHANGED vars
  BY <1>1, <1>39 DEF vars, FilesOK, MemoryOK
<1> QED
  BY <1>4, <1>5, <1>6, <1>7, <1>8, <1>9, <1>10, <1>11, <1>12, <1>13, <1>14, <1>15,
     <1>16, <1>17, <1>18, <1>19, <1>20, <1>21, <1>22, <1>23, <1>24, <1>25, <1>27,
     <1>28, <1>29, <1>30, <1>31, <1>32, <1>34, <1>35, <1>36, <1>37, <1>38, <1>39
     DEF Next, Working, Producing, Faulting

\* Where a batch begins to be appended, and where a journal has been verified.
LEMMA WhoAppendsOrReads ==
  ASSUME [Next]_vars
  PROVE  \/ Flush \/ AppendLine \/ RecoverReplay \/ RecoverFsync
         \/ UNCHANGED <<files, pc, mem, ledger>>
         \/ pc' \notin {"append", "recoverFsync", "replay"}
<1>2. CASE WriteCheckpoint \/ CreateSegment \/ ReplaceCursor \/ SyncJournalDir
  BY <1>2 DEF WriteCheckpoint, CreateSegment, ReplaceCursor, SyncJournalDir, Step, After
<1>3. CASE SyncAppended \/ ExpireCheckpoint
  BY <1>3 DEF SyncAppended, ExpireCheckpoint, Step, After
<1>4. CASE Initialized \/ Anchored \/ Committed \/ Sealed
  BY <1>4 DEF Initialized, Anchored, Committed, Sealed, CursorSynced
<1>5. CASE StartFresh \/ Resume \/ RecoverRemove \/ RecoverScanned \/ Replay
  BY <1>5 DEF StartFresh, Resume, RecoverRemove, RecoverScanned, Replay
<1>6. CASE ExpireSegment \/ RetainDone \/ PublishLine \/ ConsumerRebuilds \/ Anchor
  BY <1>6 DEF ExpireSegment, RetainDone, PublishLine, ConsumerRebuilds, Anchor
<1>7. CASE Published \/ Salvaged \/ OutputLost \/ Kill \/ VenueError \/ IOFailure \/ PowerLoss
  BY <1>7 DEF Published, Salvaged, OutputLost, Kill, VenueError, IOFailure, PowerLoss, Exit
<1>8. ASSUME NEW m \in Candidates, Stage(m) PROVE pc' \notin {"append", "recoverFsync", "replay"}
  BY <1>8 DEF Stage
<1>9. CASE ConsumerDies
  BY <1>9 DEF ConsumerDies
<1>10. CASE UNCHANGED vars
  BY <1>10 DEF vars
<1> QED
  BY <1>2, <1>3, <1>4, <1>5, <1>6, <1>7, <1>8, <1>9, <1>10
     DEF Next, Working, Producing, Faulting

\* A batch is appended line by line to its end.
LEMMA AppendingStep ==
  ASSUME TypeInv, [Next]_vars
  PROVE  Appending'
<1>1. mem.written \in Nat /\ staged \in Seq(Message) /\ Len(staged) \in Nat /\ DOMAIN mem = DOMAIN NoMemory
  BY LenProperties DEF TypeInv, TypeOK, MemoryOK, staged
<1>2. CASE Flush
  <2>1. Len(staged) # 0
    BY <1>1, <1>2, EmptySeq DEF Flush
  <2>2. mem'.written = 0 /\ staged' = staged
    BY <1>1, <1>2 DEF Flush, staged, NoMemory
  <2> QED BY <1>1, <2>1, <2>2 DEF Appending
<1>3. CASE AppendLine
  <2>1. mem.written < Len(staged)
    BY <1>3 DEF AppendLine, TypeInv, Appending
  <2>2. mem'.written = mem.written + 1 /\ staged' = staged
    BY <1>1, <1>3 DEF AppendLine, staged, NoMemory
  <2>3. pc' = "append" => mem.written + 1 # Len(staged)
    BY <1>3 DEF AppendLine
  <2> QED BY <1>1, <2>1, <2>2, <2>3 DEF Appending
<1>4. CASE RecoverReplay \/ RecoverFsync
  BY <1>4 DEF RecoverReplay, RecoverFsync, Appending
<1>5. CASE UNCHANGED <<files, pc, mem, ledger>>
  BY <1>5 DEF Appending, TypeInv, staged
<1>6. CASE pc' \notin {"append", "recoverFsync", "replay"}
  BY <1>6 DEF Appending
<1> QED
  BY <1>2, <1>3, <1>4, <1>5, <1>6, WhoAppendsOrReads

\* Only a verified journal is read.
LEMMA ReadingStep ==
  ASSUME TypeInv, [Next]_vars
  PROVE  Reading'
<1>1. /\ FilesOK(files) /\ cursor \in Cursor /\ DOMAIN mem = DOMAIN NoMemory
      /\ ledger \in Seq(Message) /\ DOMAIN segments \in SUBSET Nat
  BY DEF TypeInv, TypeOK, MemoryOK, Directory, cursor, segments
<1>2. CASE Flush \/ AppendLine
  BY <1>2 DEF Flush, AppendLine, Reading
<1>3. CASE RecoverReplay
  <2>1. CASE RecoverVerified
    <3>1. Opened' /\ RetainedIsReadable'
      BY <1>1, <1>3, <2>1, RecoveredIsReadable
    <3>2. durable' = cursor' /\ pc' = "recoverFsync"
      BY <1>1, <1>3, <2>1 DEF RecoverReplay, NoMemory, durable, cursor
    <3> QED BY <3>1, <3>2 DEF Reading
  <2>2. CASE ~RecoverVerified
    BY <1>3, <2>2 DEF RecoverReplay, Reading
  <2> QED BY <2>1, <2>2
<1>4. ASSUME UNCHANGED <<files, mem>>
      PROVE  /\ (Opened /\ RetainedIsReadable)' <=> (Opened /\ RetainedIsReadable)
             /\ durable' = durable /\ cursor' = cursor /\ FirstRetained' = FirstRetained
  BY <1>4 DEF Opened, RetainedIsReadable, SegmentFor, ReadAt, Bases, FirstRetained,
              segments, durable, cursor
<1>5. CASE RecoverFsync
  <2>1. UNCHANGED <<files, mem, ledger>> /\ pc = "recoverFsync"
    BY <1>5 DEF RecoverFsync, environment
  <2>2. durable = cursor /\ Opened /\ RetainedIsReadable
    BY <2>1 DEF TypeInv, Reading
  <2>3. FirstRetained \in Nat /\ Index(cursor) \in Nat /\ Len(ledger) \in Nat
    BY <1>1, <2>2, MinOfNats, CursorParts, LenProperties DEF FirstRetained, Opened
  <2>4. pc' = "replay" => FirstRetained <= Len(ledger) /\ Len(ledger) <= Index(cursor)
    BY <1>5, <2>3 DEF RecoverFsync
  <2>5. Index(durable)' = Index(cursor) /\ Len(ledger)' = Len(ledger)
    BY <1>4, <2>1, <2>2 DEF Index
  <2> QED BY <1>4, <2>1, <2>2, <2>4, <2>5 DEF Reading
<1>6. CASE UNCHANGED <<files, pc, mem, ledger>>
  <2>1. Index(durable)' = Index(durable)
    BY <1>4, <1>6 DEF Index
  <2> QED BY <1>4, <1>6, <2>1 DEF Reading, TypeInv
<1>7. CASE pc' \notin {"append", "recoverFsync", "replay"}
  BY <1>7 DEF Reading
<1> QED
  BY <1>2, <1>3, <1>5, <1>6, <1>7, WhoAppendsOrReads

\* The open segment stays the last one, and is never expired.
LEMMA OpenSegmentStep ==
  ASSUME TypeInv, [Next]_vars
  PROVE  OpenSegment'
<1> USE DEF Holding, CommitSteps, Sealing, Initializing
<1>1. /\ OpenSegment /\ FilesOK(files) /\ FilesOK(disk) /\ DOMAIN mem = DOMAIN NoMemory
      /\ cursor \in Cursor /\ durable \in Cursor /\ Directory(segments, Segment)
      /\ Bases \in SUBSET Nat /\ DOMAIN files = {"cursor", "checkpoints", "segments"}
  BY DEF TypeInv, TypeOK, FilesOK, MemoryOK, Directory, Bases, cursor, durable, segments
<1>2. Index(cursor) \in Nat /\ Index(durable) \in Nat /\ durable.segment \in Nat
  BY <1>1, CursorParts
\* What the process knows is unchanged, and no segment goes.
<1>3. ASSUME mem' = mem, Bases \subseteq Bases',
             pc' \in Holding => pc \in Holding,
             pc' \in Sealing => pc \in Sealing,
             pc' \in {"sealSegmentSync", "sealCursor", "sealCursorSync"} =>
               Index(cursor) \in Bases',
             pc' \in Initializing => pc \in Initializing,
             pc' \in {"initSegmentSync", "initCursor", "initCursorSync"} => 0 \in Bases',
             pc' # "anchorSync" \/ (pc = "anchorSync" /\ files' = files),
             pc' # "expired" \/ Bases # {}
      PROVE  OpenSegment'
  <2>1. segments' = segments /\ durable' = durable /\ cursor' = cursor
    BY <1>3 DEF segments, durable, cursor
  <2>2. Index(cursor)' = Index(cursor) /\ Index(durable)' = Index(durable)
    BY <2>1 DEF Index
  <2> HIDE DEF Holding, CommitSteps, Sealing, Initializing
  <2> QED BY <1>1, <1>3, <2>1, <2>2 DEF OpenSegment
<1>4. CASE WriteCheckpoint \/ SyncJournalDir \/ SyncAppended \/ ExpireCheckpoint
  <2>1. Bases' = Bases /\ mem' = mem
    BY <1>1, <1>4 DEF WriteCheckpoint, SyncJournalDir, SyncAppended, ExpireCheckpoint, Bases
  <2>2. pc' = After(pc)
    BY <1>4 DEF WriteCheckpoint, SyncJournalDir, SyncAppended, ExpireCheckpoint, Step
  <2>3. pc \in {"initCheckpoint", "sealCheckpoint", "initCheckpointSync", "initSegmentSync",
           "sealCheckpointSync", "sealSegmentSync", "expireSegmentSync", "expireCheckpointSync",
           "recoverSync", "appendSync", "expireCheckpoint"}
    BY <1>4 DEF WriteCheckpoint, SyncJournalDir, SyncAppended, ExpireCheckpoint, Step
  <2> QED BY <1>1, <1>3, <2>1, <2>2, <2>3 DEF After, OpenSegment
<1>5. CASE CreateSegment
  <2>1. Bases' = Bases \cup {Index(cursor)} /\ mem' = mem
    BY <1>1, <1>5 DEF CreateSegment, Bases, With
  <2>2. pc \in {"initSegment", "sealSegment"} /\ pc' = After(pc)
    BY <1>5 DEF CreateSegment, Step
  <2>3. pc = "initSegment" => Index(cursor) = 0
    BY <1>1 DEF OpenSegment
  <2> QED BY <1>1, <1>3, <2>1, <2>2, <2>3 DEF After
<1>6. CASE ReplaceCursor
  <2>1. Bases' = Bases /\ mem' = mem
    BY <1>1, <1>6 DEF ReplaceCursor, Bases
  <2>2. pc \in {"initCursor", "commitCursor", "sealCursor"} /\ pc' = After(pc)
    BY <1>6 DEF ReplaceCursor, Step
  <2> QED BY <1>1, <1>3, <2>1, <2>2 DEF After, OpenSegment
<1>7. CASE RecoverScanned \/ RecoverFsync \/ RetainDone \/ ConsumerDies \/ UNCHANGED vars
  <2>1. Bases' = Bases /\ mem' = mem /\ files' = files
    BY <1>7 DEF RecoverScanned, RecoverFsync, RetainDone, ConsumerDies, vars, Bases
  <2>2. \/ pc' = pc
        \/ pc' \in {"refused", "recoverReplay", "recoverSync"}
        \/ pc = "recoverFsync" /\ pc' \in {"refused", "expired", "replay"}
        \/ pc = "retain" /\ pc' = "publish"
    BY <1>7 DEF RecoverScanned, RecoverFsync, RetainDone, ConsumerDies, vars
  <2> QED BY <1>1, <1>3, <2>1, <2>2 DEF OpenSegment
<1>8. CASE pc' \in {"down", "refused", "recover", "recoverDirty"}
  BY <1>8 DEF OpenSegment
<1>9. CASE Resume \/ RecoverRemove \/ Salvaged \/ OutputLost \/ ConsumerRebuilds \/ Kill \/ PowerLoss
  BY <1>8, <1>9 DEF Resume, RecoverRemove, Salvaged, OutputLost, ConsumerRebuilds, Kill, PowerLoss, Exit
<1>10. CASE StartFresh
  <2>1. CASE pc' = "initCheckpoint"
    <3>1. cursor' = FreshCursor(epoch')
      BY <1>1, <1>10, <2>1 DEF StartFresh, NoMemory, cursor
    <3>2. cursor'.segment = 0 /\ Index(cursor)' = 0
      BY <3>1, EmptySeq DEF FreshCursor, Index
    <3> QED BY <2>1, <3>2 DEF OpenSegment
  <2> QED BY <1>8, <1>10, <2>1 DEF StartFresh
<1>11. CASE Initialized
  <2>1. /\ durable' = cursor /\ cursor' = cursor /\ DOMAIN segments' = {Index(cursor)}
        /\ Bases' = Bases /\ pc' = "idle"
    BY <1>1, <1>11 DEF Initialized, CursorSynced, NoMemory, durable, cursor, segments, Bases
  <2>2. cursor.segment = 0 /\ Index(cursor) = 0 /\ 0 \in Bases
    BY <1>1, <1>11 DEF Initialized, CursorSynced, OpenSegment
  <2>3. Index(durable)' = Index(cursor) /\ Index(cursor)' = Index(cursor)
    BY <2>1 DEF Index
  <2> QED BY <2>1, <2>2, <2>3 DEF OpenSegment
<1>12. CASE Anchored
  <2>1. /\ durable' = files.cursor /\ cursor' = files.cursor /\ segments' = segments
        /\ Bases' = Bases /\ pc' = "idle" /\ pc = "anchorSync"
    BY <1>1, <1>12 DEF Anchored, CursorSynced, NoMemory, durable, cursor, segments, Bases
  <2>2. Index(durable)' = Index(cursor) /\ Index(cursor)' = Index(cursor)
    BY <1>1, <2>1 DEF Index, OpenSegment
  <2> QED BY <1>1, <1>2, <2>1, <2>2 DEF OpenSegment
<1>13. CASE RecoverReplay
  <2>1. CASE RecoverVerified
    <3>1. /\ durable' = cursor /\ cursor' = cursor /\ DOMAIN segments' = Bases
          /\ pc' = "recoverFsync" /\ Bases' = Bases
      <4> DEFINE read == [b \in Bases |-> SegmentOf(files.checkpoints[b])]
      <4>1. /\ mem' = [mem EXCEPT !.durable = cursor, !.segments = read]
            /\ files' = [files EXCEPT !.segments[cursor.segment] = Lines(cursor.segment)]
            /\ pc' = "recoverFsync" /\ DOMAIN read = Bases
        BY <1>13, <2>1 DEF RecoverReplay
      <4> HIDE DEF read
      <4>2. durable' = cursor /\ cursor' = cursor /\ segments' = read
        BY <1>1, <4>1 DEF NoMemory, durable, cursor, segments
      <4>3. Bases' = Bases
        BY <1>1, <4>1 DEF Bases
      <4> QED BY <4>1, <4>2, <4>3
    <3>2. cursor.segment \in Bases /\ \A b \in Bases : b <= cursor.segment
      BY <2>1 DEF RecoverVerified
    <3>3. cursor.segment <= Index(cursor)
      BY <2>1, <3>2 DEF RecoverVerified, SegmentVerified
    <3>4. Index(durable)' = Index(cursor) /\ Index(cursor)' = Index(cursor)
      BY <3>1 DEF Index
    <3> QED BY <1>2, <3>1, <3>2, <3>3, <3>4 DEF OpenSegment
  <2> QED BY <1>8, <1>13, <2>1 DEF RecoverReplay
<1>14. CASE Replay \/ Flush \/ AppendLine \/ PublishLine \/ VenueError \/ IOFailure
  <2>1. /\ durable' = durable /\ cursor' = cursor /\ segments' = segments /\ Bases' = Bases
    BY <1>1, <1>14 DEF Replay, Flush, AppendLine, PublishLine, VenueError, IOFailure, NoMemory,
                       durable, cursor, segments, Bases
  <2>2. pc \in Holding /\ pc' \in {"publish", "append", "appendSync", "salvage"}
    BY <1>14 DEF Replay, Flush, AppendLine, PublishLine, VenueError, IOFailure
  <2>3. Index(durable)' = Index(durable) /\ Index(cursor)' = Index(cursor)
    BY <2>1 DEF Index
  <2> QED BY <1>1, <2>1, <2>2, <2>3 DEF OpenSegment
<1>15. CASE Committed
  <2>1. /\ durable' = cursor /\ cursor' = cursor /\ segments' = segments /\ Bases' = Bases
        /\ pc = "commitCursorSync" /\ pc' \in {"sealCheckpoint", "retain"}
    BY <1>1, <1>15 DEF Committed, CursorSynced, NoMemory, durable, cursor, segments, Bases
  <2>2. Index(durable)' = Index(cursor) /\ Index(cursor)' = Index(cursor)
    BY <2>1 DEF Index
  <2> QED BY <1>1, <1>2, <2>1, <2>2 DEF OpenSegment
<1>16. CASE Sealed
  <2>1. /\ durable' = [durable EXCEPT !.segment = Index(durable)]
        /\ cursor' = [cursor EXCEPT !.segment = Index(durable)]
        /\ DOMAIN segments' = DOMAIN segments \cup {Index(durable)} /\ Bases' = Bases
        /\ pc = "sealCursorSync" /\ pc' = "retain"
    BY <1>1, <1>16 DEF Sealed, CursorSynced, NoMemory, With, durable, cursor, segments, Bases
  <2>2. /\ durable'.segment = Index(durable) /\ cursor'.segment = Index(durable)
        /\ Index(durable)' = Index(durable) /\ Index(cursor)' = Index(cursor)
    BY <1>1, <2>1 DEF Index, Cursor
  <2>3. /\ cursor = durable /\ Index(durable) \in Bases /\ DOMAIN segments \subseteq Bases
        /\ \A b \in DOMAIN segments : b <= durable.segment
        /\ durable.segment <= Index(durable)
    BY <1>1, <2>1 DEF OpenSegment
  <2>4. \A b \in DOMAIN segments' : b <= Index(durable)
    BY <1>1, <1>2, <2>1, <2>3
  <2> QED BY <1>2, <2>1, <2>2, <2>3, <2>4 DEF OpenSegment
<1>17. CASE ExpireSegment
  <2>1. /\ durable' = durable /\ cursor' = cursor
        /\ DOMAIN segments' = DOMAIN segments \ {FirstRetained}
        /\ Bases' = Bases \ {FirstRetained}
        /\ pc = "retain" /\ pc' = "expireSegmentSync" /\ DOMAIN segments # {FirstRetained}
    BY <1>1, <1>17 DEF ExpireSegment, Expirable, NoMemory, Without, durable, cursor, segments, Bases
  <2>2. FirstRetained # durable.segment
    <3>1. /\ DOMAIN segments \in SUBSET Nat /\ DOMAIN segments # {}
          /\ durable.segment \in DOMAIN segments
          /\ \A b \in DOMAIN segments : b <= durable.segment
      BY <1>1, <2>1 DEF OpenSegment, Directory
    <3>2. FirstRetained \in DOMAIN segments /\ \A b \in DOMAIN segments : FirstRetained <= b
      BY <3>1, MinOfNats DEF FirstRetained
    <3>3. PICK b \in DOMAIN segments : b # FirstRetained
      BY <2>1, <3>2
    <3>4. b \in Nat /\ FirstRetained \in Nat /\ FirstRetained <= b /\ b <= durable.segment
      BY <3>1, <3>2, <3>3
    <3> QED BY <1>2, <3>3, <3>4
  <2>3. Index(durable)' = Index(durable) /\ Index(cursor)' = Index(cursor)
    BY <2>1 DEF Index
  <2> QED BY <1>1, <2>1, <2>2, <2>3 DEF OpenSegment
<1>18. CASE Published
  <2>1. CASE Exit
    BY <1>8, <2>1 DEF Exit
  <2>2. CASE ~Exit
    <3>1. mem' = mem /\ files' = files /\ pc = "publish" /\ pc' = "idle" /\ Bases' = Bases
      BY <1>18, <2>2 DEF Published, Bases
    <3> QED BY <1>3, <3>1
  <2> QED BY <2>1, <2>2
<1>19. CASE Anchor
  <2>1. /\ durable' = durable /\ cursor' = cursor /\ segments' = segments /\ Bases' = Bases
        /\ pc = "idle" /\ pc' = "anchorSync"
        /\ files'.cursor.segment = cursor.segment /\ files'.cursor.prefix = cursor.prefix
    BY <1>1, <1>19 DEF Anchor, durable, cursor, segments, Bases, Cursor
  <2>2. Index(durable)' = Index(durable) /\ Index(cursor)' = Index(cursor)
    BY <2>1 DEF Index
  <2> QED BY <1>1, <2>1, <2>2 DEF OpenSegment
<1>20. ASSUME NEW m \in Candidates, Stage(m) PROVE OpenSegment'
  <2>1. /\ durable' = durable /\ cursor' = Staged(cursor, m) /\ segments' = segments
        /\ Bases' = Bases /\ pc = "idle" /\ pc' = "idle"
    BY <1>1, <1>20 DEF Stage, NoMemory, durable, cursor, segments, Bases
  <2>2. m \in Message
    BY <1>1, CandidatesType
  <2>3. /\ Staged(cursor, m).prefix = Append(cursor.prefix, m)
        /\ Staged(cursor, m).segment = cursor.segment
    BY <1>1, <2>2, StagedParts
  <2>4. Index(durable)' = Index(durable) /\ Index(cursor)' = Index(cursor) + 1
    BY <1>1, <2>1, <2>2, <2>3, CursorParts, AppendProperties DEF Index
  <2> QED BY <1>1, <1>2, <2>1, <2>3, <2>4 DEF OpenSegment
<1> QED
  BY <1>4, <1>5, <1>6, <1>7, <1>9, <1>10, <1>11, <1>12, <1>13, <1>14, <1>15, <1>16,
     <1>17, <1>18, <1>19, <1>20 DEF Next, Working, Producing, Faulting

\* Before the first start nothing is known.
LEMMA TypeInit ==
  ASSUME Init
  PROVE  TypeInv
<1>1. TypeOK
  <2>1. 0 \in 0..MaxStarts /\ 0 \in 0..MaxFaults
    BY JournalAssumption
  <2>2. FilesOK(files) /\ FilesOK(disk) /\ MemoryOK(mem)
    BY NothingType DEF Init
  <2>3. ledger \in Seq(Message) /\ pc \in PCs /\ deaf \in BOOLEAN
    BY EmptySeq DEF Init, PCs
  <2> QED BY <2>1, <2>2, <2>3 DEF Init, TypeOK
<1>2. Appending /\ Reading /\ OpenSegment
  BY DEF Init, Appending, Reading, OpenSegment, Holding, CommitSteps, Sealing, Initializing
<1> QED BY <1>1, <1>2 DEF TypeInv

\* Every step keeps the strengthened invariant.
LEMMA TypeInvStep ==
  ASSUME TypeInv, [Next]_vars
  PROVE  TypeInv'
BY TypeStep, AppendingStep, ReadingStep, OpenSegmentStep DEF TypeInv

\* TypeInv is an inductive invariant.
THEOREM TypeInvariance == Spec => []TypeInv
<1>1. Init => TypeInv
  BY TypeInit
<1>2. TypeInv /\ [Next]_vars => TypeInv'
  BY TypeInvStep
<1> QED BY <1>1, <1>2, PTL DEF Spec

\* Every variable keeps its type: cursors keep a bounded window of proofs, a
\* batch is bounded, and whatever a crash, a recovery or a replay makes of the
\* files, what is read back from them are messages.
THEOREM TypeCorrect == Spec => []TypeOK
<1>1. TypeInv => TypeOK
  BY DEF TypeInv
<1> QED BY <1>1, TypeInvariance, PTL

-----------------------------------------------------------------------------
(* What the consumer holds is durable, and what the journal retains can be *)
(* read.  The first needs that the kernel writes back what a killed        *)
(* process left dirty before the power can fail: without it the property   *)
(* is false.                                                               *)

Recovering ==
  {"recover", "recoverDirty", "recoverSync", "recoverReplay", "recoverFsync", "replay"}
\* The steps whose last rename the state directory has not made safe yet.
CursorUnsynced == {"initCursorSync", "commitCursorSync", "sealCursorSync", "anchorSync", "salvage"}
Batching == {"idle", "append", "appendSync", "commitCursor", "commitCursorSync"}
Reporting ==
  Sealing \cup {"retain", "expireSegmentSync", "expireCheckpoint",
                "expireCheckpointSync", "publish"}

\* The consumer never holds more than what is safe, and a rename only adds to it.
Safe ==
  /\ Begins(ledger, disk.cursor.prefix)
  /\ Begins(disk.cursor.prefix, files.cursor.prefix)
  /\ files.cursor.epoch = 0 => files.cursor.prefix = <<>>
  /\ disk.cursor.epoch = 0 => disk.cursor.prefix = <<>>
  /\ pc \notin CursorUnsynced => disk.cursor = files.cursor

\* What the process knows while it creates or recovers the stream.
Starting ==
  /\ pc = "down" => mem = NoMemory
  /\ pc \notin {"down", "refused", "expired"} => cursor.epoch # 0
  /\ pc \in Initializing =>
       cursor.prefix = <<>> /\ files.cursor.prefix = <<>> /\ durable.prefix = <<>>
  /\ pc \in Initializing \cup Recovering =>
       staged = <<>> /\ mem.outbox = <<>>
  /\ pc \in Recovering => cursor = files.cursor

\* A message is durable, staged, or being written out.
Running ==
  /\ pc \in Batching \cup {"anchorSync"} \/ (pc = "salvage" /\ ~mem.unusable) =>
       /\ Splits(cursor.prefix, durable.prefix, staged)
       /\ mem.outbox = <<>>
       /\ files.cursor.prefix = IF pc = "commitCursorSync" THEN cursor.prefix ELSE durable.prefix
       /\ ~deaf => ledger = durable.prefix
  /\ pc = "salvage" /\ ~mem.unusable => disk.cursor = files.cursor
  /\ pc = "anchorSync" => staged = <<>> /\ files.cursor.epoch # 0
  /\ pc \in Reporting =>
       /\ staged = <<>>
       /\ cursor.prefix = durable.prefix
       /\ files.cursor.prefix = durable.prefix
       /\ disk.cursor.prefix = durable.prefix
       /\ ~deaf => Splits(durable.prefix, ledger, mem.outbox)

PublishInv == Safe /\ Starting /\ Running
-----------------------------------------------------------------------------
\* What the proof uses of the types.
LEMMA Parts ==
  ASSUME TypeOK
  PROVE  /\ DOMAIN mem = DOMAIN NoMemory /\ DOMAIN files = {"cursor", "checkpoints", "segments"}
         /\ DOMAIN disk = {"cursor", "checkpoints", "segments"}
         /\ cursor \in Cursor /\ durable \in Cursor /\ files.cursor \in Cursor /\ disk.cursor \in Cursor
         /\ cursor.prefix \in Seq(Message) /\ durable.prefix \in Seq(Message)
         /\ files.cursor.prefix \in Seq(Message) /\ disk.cursor.prefix \in Seq(Message)
         /\ staged \in Seq(Message) /\ mem.outbox \in Seq(Message) /\ ledger \in Seq(Message)
BY CursorParts DEF TypeOK, FilesOK, MemoryOK, cursor, durable, staged

\* A cursor read by its parts is what a step makes of it.
LEMMA FreshParts ==
  ASSUME NEW e
  PROVE  FreshCursor(e).prefix = <<>> /\ FreshCursor(e).epoch = e
BY DEF FreshCursor

\* Every step keeps it.
LEMMA PublishStep ==
  ASSUME WriteBack = TRUE, TypeInv, PublishInv, [Next]_vars
  PROVE  PublishInv'
<1> USE DEF Initializing, Recovering, Batching, Reporting, Sealing, CursorUnsynced
<1>1. /\ DOMAIN mem = DOMAIN NoMemory /\ DOMAIN files = {"cursor", "checkpoints", "segments"}
      /\ DOMAIN disk = {"cursor", "checkpoints", "segments"}
      /\ cursor \in Cursor /\ durable \in Cursor /\ files.cursor \in Cursor /\ disk.cursor \in Cursor
      /\ cursor.prefix \in Seq(Message) /\ durable.prefix \in Seq(Message)
      /\ files.cursor.prefix \in Seq(Message) /\ disk.cursor.prefix \in Seq(Message)
      /\ staged \in Seq(Message) /\ mem.outbox \in Seq(Message) /\ ledger \in Seq(Message)
  BY Parts DEF TypeInv
<1>2. Safe /\ Starting /\ Running
  BY DEF PublishInv
<1>3. Begins(ledger, files.cursor.prefix)
  BY <1>1, <1>2, BeginsTransitive DEF Safe
\* Cursors, batch and consumer are unchanged.
<1>4. ASSUME mem'.cursor = mem.cursor, mem'.durable = mem.durable, mem'.staged = mem.staged,
             mem'.outbox = mem.outbox, files'.cursor = files.cursor, disk'.cursor = disk.cursor,
             ledger' = ledger, deaf' = deaf,
             pc' \notin {"down", "salvage", "anchorSync", "commitCursorSync"},
             pc \notin {"salvage", "anchorSync", "commitCursorSync"},
             pc' \notin {"refused", "expired"} => pc \notin {"down", "refused", "expired"},
             pc' \notin CursorUnsynced => pc \notin CursorUnsynced,
             pc' \in Initializing => pc \in Initializing,
             pc' \in Recovering => pc \in Recovering,
             pc' \in Batching => pc \in Batching,
             pc' \in Reporting => pc \in Reporting
      PROVE  PublishInv'
  <2>1. cursor' = cursor /\ durable' = durable /\ staged' = staged
    BY <1>4 DEF cursor, durable, staged
  <2> HIDE DEF Initializing, Recovering, Batching, Reporting, Sealing, CursorUnsynced
  <2>2. Safe'
    BY <1>2, <1>4 DEF Safe
  <2>3. Starting'
    BY <1>2, <1>4, <2>1 DEF Starting
  <2>4. Running'
    BY <1>2, <1>4, <2>1 DEF Running
  <2> QED BY <2>2, <2>3, <2>4 DEF PublishInv
<1>5. CASE WriteCheckpoint \/ CreateSegment \/ SyncJournalDir \/ ExpireCheckpoint \/ SyncAppended
  <2>1. /\ mem' = mem /\ files'.cursor = files.cursor /\ disk'.cursor = disk.cursor
        /\ ledger' = ledger /\ deaf' = deaf
    BY <1>1, <1>5 DEF WriteCheckpoint, CreateSegment, SyncJournalDir, ExpireCheckpoint, SyncAppended,
                      SyncedJournal, environment
  <2>2. /\ pc' = After(pc)
        /\ pc \in {"initCheckpoint", "sealCheckpoint", "initSegment", "sealSegment",
             "initCheckpointSync", "initSegmentSync", "sealCheckpointSync", "sealSegmentSync",
             "expireSegmentSync", "expireCheckpointSync", "recoverSync", "appendSync",
             "expireCheckpoint"}
    BY <1>5 DEF WriteCheckpoint, CreateSegment, SyncJournalDir, ExpireCheckpoint, SyncAppended, Step
  <2> QED BY <1>4, <2>1, <2>2 DEF After
<1>6. CASE RecoverRemove \/ RecoverScanned \/ RecoverFsync \/ RetainDone
  <2>1. /\ mem' = mem /\ files'.cursor = files.cursor /\ disk'.cursor = disk.cursor
        /\ ledger' = ledger /\ deaf' = deaf
    BY <1>1, <1>6 DEF RecoverRemove, RecoverScanned, RecoverFsync, RetainDone, environment
  <2>2. \/ /\ pc \in {"recover", "recoverDirty", "recoverFsync"}
           /\ pc' \in {"recoverDirty", "refused", "recoverReplay", "recoverSync", "expired", "replay"}
        \/ pc = "retain" /\ pc' = "publish"
    BY <1>6 DEF RecoverRemove, RecoverScanned, RecoverFsync, RetainDone
  <2> QED BY <1>4, <2>1, <2>2
<1>7. CASE AppendLine \/ ExpireSegment
  <2>1. /\ mem'.cursor = mem.cursor /\ mem'.durable = mem.durable /\ mem'.staged = mem.staged
        /\ mem'.outbox = mem.outbox /\ files'.cursor = files.cursor /\ disk'.cursor = disk.cursor
        /\ ledger' = ledger /\ deaf' = deaf
    BY <1>1, <1>7 DEF AppendLine, ExpireSegment, environment, NoMemory
  <2>2. \/ pc = "append" /\ pc' \in {"append", "appendSync"}
        \/ pc = "retain" /\ pc' = "expireSegmentSync"
    BY <1>7 DEF AppendLine, ExpireSegment
  <2> QED BY <1>4, <2>1, <2>2
<1>8. CASE ReplaceCursor
  <2>1. /\ mem' = mem /\ disk' = disk /\ ledger' = ledger /\ deaf' = deaf
        /\ files'.cursor.prefix = cursor.prefix /\ files'.cursor.epoch = cursor.epoch
        /\ pc \in {"initCursor", "commitCursor", "sealCursor"} /\ pc' = After(pc)
    BY <1>1, <1>8 DEF ReplaceCursor, Step, environment, Cursor
  <2>2. cursor' = cursor /\ durable' = durable /\ staged' = staged
    BY <2>1 DEF cursor, durable, staged
  <2>3. \/ pc = "initCursor" /\ pc' = "initCursorSync"
        \/ pc = "commitCursor" /\ pc' = "commitCursorSync"
        \/ pc = "sealCursor" /\ pc' = "sealCursorSync"
    BY <2>1 DEF After
  <2>4. cursor.epoch # 0 /\ Begins(disk.cursor.prefix, cursor.prefix)
    <3>1. CASE pc = "initCursor"
      BY <1>2, <2>1, <3>1 DEF Safe, Starting
    <3>2. CASE pc = "commitCursor"
      <4>1. disk.cursor.prefix = durable.prefix /\ Splits(cursor.prefix, durable.prefix, staged)
        BY <1>2, <3>2 DEF Safe, Running
      <4> QED BY <1>1, <1>2, <3>2, <4>1, SplitsBegins DEF Starting
    <3>3. CASE pc = "sealCursor"
      <4>1. disk.cursor.prefix = cursor.prefix
        BY <1>2, <3>3 DEF Running
      <4> QED BY <1>1, <1>2, <3>3, <4>1, BeginsReflexive DEF Starting
    <3> QED BY <2>1, <3>1, <3>2, <3>3
  <2>5. Safe'
    BY <1>2, <2>1, <2>3, <2>4 DEF Safe
  <2>6. Starting'
    BY <1>2, <2>1, <2>2, <2>3 DEF Starting
  <2>7. Running'
    BY <1>2, <2>1, <2>2, <2>3 DEF Running
  <2> QED BY <2>5, <2>6, <2>7 DEF PublishInv
<1>9. CASE StartFresh
  <2>1. /\ pc = "down" /\ files'.cursor = files.cursor /\ disk' = disk /\ ledger' = ledger
        /\ files.cursor.epoch = 0 /\ pc' \in {"refused", "initCheckpoint"}
    BY <1>1, <1>9 DEF StartFresh
  <2>2. Safe'
    BY <1>2, <2>1 DEF Safe
  <2>3. ASSUME pc' = "initCheckpoint"
        PROVE  /\ cursor'.prefix = <<>> /\ cursor'.epoch # 0 /\ durable'.prefix = <<>>
               /\ staged' = <<>> /\ mem'.outbox = <<>>
    <3>1. mem = NoMemory /\ mem' = [mem EXCEPT !.cursor = FreshCursor(epoch')]
      BY <1>2, <1>9, <2>1, <2>3 DEF StartFresh, Starting
    <3>2. epoch' # 0
      BY <1>9 DEF StartFresh, TypeInv, TypeOK
    <3>3. cursor' = FreshCursor(epoch') /\ durable' = NoCursor /\ staged' = <<>> /\ mem'.outbox = <<>>
      BY <3>1 DEF NoMemory, cursor, durable, staged
    <3> QED BY <3>2, <3>3, FreshParts DEF NoCursor
  <2>4. files'.cursor.prefix = <<>>
    BY <1>2, <2>1 DEF Safe
  <2>5. Starting' /\ Running'
    BY <2>1, <2>3, <2>4 DEF Starting, Running
  <2> QED BY <2>2, <2>5 DEF PublishInv
<1>10. CASE Initialized
  <2>1. /\ pc = "initCursorSync" /\ pc' = "idle" /\ files' = files /\ disk'.cursor = files.cursor
        /\ ledger' = ledger /\ deaf' = deaf /\ cursor' = cursor /\ durable' = cursor
        /\ staged' = staged /\ mem'.outbox = mem.outbox
    BY <1>1, <1>10 DEF Initialized, CursorSynced, environment, NoMemory, cursor, durable, staged
  <2>2. /\ cursor.prefix = <<>> /\ files.cursor.prefix = <<>> /\ staged = <<>>
        /\ mem.outbox = <<>> /\ cursor.epoch # 0
    BY <1>2, <2>1 DEF Starting
  <2>3. ledger = <<>>
    BY <1>1, <1>3, <2>2, BeginsEmpty
  <2>4. Splits(cursor.prefix, cursor.prefix, <<>>) /\ Begins(files.cursor.prefix, files.cursor.prefix)
    BY <1>1, SplitsNothing, BeginsReflexive
  <2>5. Safe'
    BY <1>2, <1>3, <2>1, <2>4 DEF Safe
  <2>6. Starting' /\ Running'
    BY <2>1, <2>2, <2>3, <2>4 DEF Starting, Running
  <2> QED BY <2>5, <2>6 DEF PublishInv
<1>11. CASE Anchored
  <2>1. /\ pc = "anchorSync" /\ pc' = "idle" /\ files' = files /\ disk'.cursor = files.cursor
        /\ ledger' = ledger /\ deaf' = deaf /\ cursor' = files.cursor /\ durable' = files.cursor
        /\ staged' = staged /\ mem'.outbox = mem.outbox
    BY <1>1, <1>11 DEF Anchored, CursorSynced, environment, NoMemory, cursor, durable, staged
  <2>2. /\ staged = <<>> /\ mem.outbox = <<>> /\ files.cursor.epoch # 0
        /\ files.cursor.prefix = durable.prefix /\ (~deaf => ledger = durable.prefix)
    BY <1>2, <2>1 DEF Running
  <2>3. /\ Splits(files.cursor.prefix, files.cursor.prefix, <<>>)
        /\ Begins(files.cursor.prefix, files.cursor.prefix)
    BY <1>1, SplitsNothing, BeginsReflexive
  <2>4. Safe'
    BY <1>2, <1>3, <2>1, <2>3 DEF Safe
  <2>5. Starting' /\ Running'
    BY <2>1, <2>2, <2>3 DEF Starting, Running
  <2> QED BY <2>4, <2>5 DEF PublishInv
<1>12. CASE Resume
  <2>1. /\ pc = "down" /\ pc' = "recover" /\ files' = files /\ disk' = disk /\ ledger' = ledger
        /\ files.cursor.epoch # 0 /\ mem' = [mem EXCEPT !.cursor = files.cursor]
    BY <1>12 DEF Resume
  <2>2. mem = NoMemory
    BY <1>2, <2>1 DEF Starting
  <2>3. cursor' = files.cursor /\ staged' = <<>> /\ mem'.outbox = <<>>
    BY <2>1, <2>2 DEF NoMemory, cursor, staged
  <2>4. Safe' /\ Starting' /\ Running'
    BY <1>2, <2>1, <2>3 DEF Safe, Starting, Running
  <2> QED BY <2>4 DEF PublishInv
<1>13. CASE RecoverReplay
  <2>1. /\ pc = "recoverReplay" /\ pc' \in {"recoverFsync", "refused"} /\ files'.cursor = files.cursor
        /\ disk' = disk /\ ledger' = ledger /\ mem'.cursor = mem.cursor
        /\ mem'.staged = mem.staged /\ mem'.outbox = mem.outbox
    <3> DEFINE read == [b \in Bases |-> SegmentOf(files.checkpoints[b])]
    <3>1. mem' = mem \/ mem' = [mem EXCEPT !.durable = cursor, !.segments = read]
      BY <1>13 DEF RecoverReplay
    <3>2. files' = files \/ files' = [files EXCEPT !.segments[cursor.segment] = Lines(cursor.segment)]
      BY <1>13 DEF RecoverReplay
    <3>3. /\ pc = "recoverReplay" /\ pc' \in {"recoverFsync", "refused"}
          /\ disk' = disk /\ ledger' = ledger
      BY <1>13 DEF RecoverReplay, environment
    <3> HIDE DEF read
    <3> QED BY <1>1, <3>1, <3>2, <3>3 DEF NoMemory
  <2>2. cursor' = cursor /\ staged' = staged
    BY <2>1 DEF cursor, staged
  <2>3. Safe' /\ Starting' /\ Running'
    BY <1>2, <2>1, <2>2 DEF Safe, Starting, Running
  <2> QED BY <2>3 DEF PublishInv
<1>14. CASE Replay
  <2>1. /\ pc = "replay" /\ pc' = "publish" /\ files' = files /\ disk' = disk
        /\ ledger' = ledger /\ deaf' = deaf /\ cursor' = cursor /\ durable' = durable
        /\ staged' = staged /\ mem'.outbox = Visit(Len(ledger))
    BY <1>1, <1>14 DEF Replay, environment, NoMemory, cursor, durable, staged
  <2>2. /\ cursor = files.cursor /\ disk.cursor = files.cursor /\ staged = <<>> /\ durable = cursor
        /\ cursor.epoch # 0
    BY <1>2, <2>1 DEF Starting, Safe, TypeInv, Reading
  <2>3. Splits(durable.prefix, ledger, Visit(Len(ledger)))
    <3>1. /\ TypeOK /\ Opened /\ RetainedIsReadable
          /\ FirstRetained <= Len(ledger) /\ Len(ledger) <= Index(durable)
      BY <2>1 DEF TypeInv, Reading
    <3>2. /\ Len(Visit(Len(ledger))) = Index(durable) - Len(ledger)
          /\ \A k \in 1..(Index(durable) - Len(ledger)) :
               Visit(Len(ledger))[k] = durable.prefix[Len(ledger) + k]
      BY <3>1, VisitType
    <3>3. Begins(ledger, durable.prefix)
      BY <1>3, <2>2
    <3>4. Len(ledger) \in Nat /\ Index(durable) \in Nat /\ Index(durable) = Len(durable.prefix)
      BY <1>1, LenProperties DEF Index
    <3> QED BY <3>2, <3>3, <3>4 DEF Splits, Begins
  <2>4. Safe' /\ Starting' /\ Running'
    BY <1>2, <2>1, <2>2, <2>3 DEF Safe, Starting, Running
  <2> QED BY <2>4 DEF PublishInv
<1>15. CASE Flush
  <2>1. /\ pc \in {"idle", "salvage"} /\ ~mem.unusable /\ pc' = "append" /\ files' = files
        /\ disk' = disk /\ ledger' = ledger /\ deaf' = deaf /\ cursor' = cursor
        /\ durable' = durable /\ staged' = staged /\ mem'.outbox = mem.outbox
    BY <1>1, <1>15 DEF Flush, environment, NoMemory, cursor, durable, staged
  <2>2. disk.cursor = files.cursor
    BY <1>2, <2>1 DEF Safe, Running
  <2>3. Safe' /\ Starting' /\ Running'
    BY <1>2, <2>1, <2>2 DEF Safe, Starting, Running
  <2> QED BY <2>3 DEF PublishInv
<1>16. CASE Committed
  <2>1. /\ pc = "commitCursorSync" /\ pc' \in {"sealCheckpoint", "retain"} /\ files' = files
        /\ disk'.cursor = files.cursor /\ ledger' = ledger /\ deaf' = deaf /\ cursor' = cursor
        /\ durable' = cursor /\ staged' = <<>> /\ mem'.outbox = staged
    BY <1>1, <1>16 DEF Committed, CursorSynced, environment, NoMemory, cursor, durable, staged
  <2>2. /\ Splits(cursor.prefix, durable.prefix, staged) /\ files.cursor.prefix = cursor.prefix
        /\ (~deaf => ledger = durable.prefix) /\ cursor.epoch # 0
    BY <1>2, <2>1 DEF Running, Starting
  <2>3. Begins(files.cursor.prefix, files.cursor.prefix)
    BY <1>1, BeginsReflexive
  <2>4. Safe'
    BY <1>2, <1>3, <2>1, <2>3 DEF Safe
  <2>5. Starting' /\ Running'
    BY <2>1, <2>2 DEF Starting, Running
  <2> QED BY <2>4, <2>5 DEF PublishInv
<1>17. CASE Sealed
  <2>1. /\ pc = "sealCursorSync" /\ pc' = "retain" /\ files' = files /\ disk'.cursor = files.cursor
        /\ ledger' = ledger /\ deaf' = deaf /\ cursor'.prefix = cursor.prefix
        /\ cursor'.epoch = cursor.epoch /\ durable'.prefix = durable.prefix
        /\ staged' = staged /\ mem'.outbox = mem.outbox
    BY <1>1, <1>17 DEF Sealed, CursorSynced, environment, NoMemory, Cursor, cursor, durable, staged
  <2>2. Begins(files.cursor.prefix, files.cursor.prefix)
    BY <1>1, BeginsReflexive
  <2>3. Safe'
    BY <1>2, <1>3, <2>1, <2>2 DEF Safe
  <2>4. Starting' /\ Running'
    BY <1>2, <2>1 DEF Starting, Running
  <2> QED BY <2>3, <2>4 DEF PublishInv
<1>18. CASE PublishLine
  <2>1. /\ pc = "publish" /\ pc' = "publish" /\ files' = files /\ disk' = disk /\ deaf' = deaf
        /\ cursor' = cursor /\ durable' = durable /\ staged' = staged
        /\ mem.outbox # <<>> /\ mem'.outbox = Tail(mem.outbox)
        /\ ledger' = IF deaf THEN ledger ELSE Append(ledger, Head(mem.outbox))
    BY <1>1, <1>18 DEF PublishLine, NoMemory, cursor, durable, staged
  <2>2. CASE deaf
    <3>1. Safe' /\ Starting' /\ Running'
      BY <1>2, <2>1, <2>2 DEF Safe, Starting, Running
    <3> QED BY <3>1 DEF PublishInv
  <2>3. CASE ~deaf
    <3>1. Splits(durable.prefix, ledger, mem.outbox) /\ disk.cursor.prefix = durable.prefix
      BY <1>2, <2>1, <2>3 DEF Running
    <3>2. Splits(durable.prefix, ledger', mem'.outbox)
      BY <1>1, <2>1, <2>3, <3>1, SplitsShift
    <3>3. Head(mem.outbox) \in Message /\ Tail(mem.outbox) \in Seq(Message)
      BY <1>1, <2>1, HeadTailProperties
    <3>4. ledger' \in Seq(Message) /\ mem'.outbox \in Seq(Message)
      BY <1>1, <2>1, <2>3, <3>3, AppendProperties
    <3>5. Begins(ledger', disk.cursor.prefix)
      BY <1>1, <3>1, <3>2, <3>4, SplitsBegins
    <3>6. Safe' /\ Starting' /\ Running'
      BY <1>2, <2>1, <2>3, <3>2, <3>5 DEF Safe, Starting, Running
    <3> QED BY <3>6 DEF PublishInv
  <2> QED BY <2>2, <2>3
\* A killed process leaves its files to the kernel.
<1>19. ASSUME Exit, ledger' = ledger PROVE PublishInv'
  <2>1. pc' = "down" /\ mem' = NoMemory /\ files' = files /\ disk' = files
    BY <1>19 DEF Exit
  <2>2. Begins(files.cursor.prefix, files.cursor.prefix)
    BY <1>1, BeginsReflexive
  <2>3. Safe' /\ Starting' /\ Running'
    BY <1>2, <1>3, <1>19, <2>1, <2>2 DEF Safe, Starting, Running
  <2> QED BY <2>3 DEF PublishInv
<1>20. CASE Salvaged \/ OutputLost \/ Kill
  BY <1>19, <1>20 DEF Salvaged, OutputLost, Kill, environment
<1>21. CASE Published
  <2>1. CASE Exit
    BY <1>19, <1>21, <2>1 DEF Published, environment
  <2>2. CASE ~Exit
    <3>1. /\ pc = "publish" /\ pc' = "idle" /\ mem.outbox = <<>> /\ files' = files /\ disk' = disk
          /\ mem' = mem /\ ledger' = ledger /\ deaf' = deaf
      BY <1>21, <2>2 DEF Published, environment
    <3>2. cursor' = cursor /\ durable' = durable /\ staged' = staged
      BY <3>1 DEF cursor, durable, staged
    <3>3. ~deaf => ledger = durable.prefix
      BY <1>1, <1>2, <3>1, SplitsNothing DEF Running
    <3>4. staged = <<>> /\ Splits(cursor.prefix, durable.prefix, <<>>)
      BY <1>1, <1>2, <3>1, SplitsNothing DEF Running
    <3>5. Safe' /\ Starting' /\ Running'
      BY <1>2, <3>1, <3>2, <3>3, <3>4 DEF Safe, Starting, Running
    <3> QED BY <3>5 DEF PublishInv
  <2> QED BY <2>1, <2>2
<1>22. CASE ConsumerRebuilds
  <2>1. /\ pc = "expired" /\ pc' = "down" /\ mem' = NoMemory /\ files' = files /\ disk' = disk
    BY <1>22 DEF ConsumerRebuilds
  <2>2. disk.cursor = files.cursor
    BY <1>2, <2>1 DEF Safe
  <2>3. Bases # {} /\ Bases \in SUBSET Nat
    BY <2>1 DEF TypeInv, TypeOK, FilesOK, OpenSegment, Directory, Bases
  <2>4. Min(Bases) \in Nat /\ Index(files.cursor) \in Nat
    BY <1>1, <2>3, MinOfNats, CursorParts
  <2>5. PICK n \in Min(Bases)..Index(files.cursor) : ledger' = SubSeq(files.cursor.prefix, 1, n)
    BY <1>22 DEF ConsumerRebuilds
  <2>6. n \in Nat /\ n <= Len(files.cursor.prefix)
    BY <2>4, <2>5 DEF Index
  <2>7. Begins(ledger', files.cursor.prefix)
    <3>1. \A i \in 1..n : files.cursor.prefix[i] \in Message
      BY <1>1, <2>6, ElementOfSeq, LenProperties
    <3>2. /\ Len(SubSeq(files.cursor.prefix, 1, n)) = n
          /\ \A i \in 1..n : SubSeq(files.cursor.prefix, 1, n)[i] = files.cursor.prefix[i]
      BY <2>6, <3>1, SubSeqProperties
    <3> QED BY <2>5, <2>6, <3>2 DEF Begins
  <2>8. Safe' /\ Starting' /\ Running'
    BY <1>2, <2>1, <2>2, <2>7 DEF Safe, Starting, Running
  <2> QED BY <2>8 DEF PublishInv
<1>23. CASE Anchor
  <2>1. /\ pc = "idle" /\ pc' = "anchorSync" /\ mem' = mem /\ disk' = disk /\ ledger' = ledger
        /\ deaf' = deaf /\ staged = <<>> /\ files'.cursor.prefix = cursor.prefix
        /\ files'.cursor.epoch = cursor.epoch
    <3>1. PICK p \in PredIds : files' = [files EXCEPT !.cursor = [cursor EXCEPT !.pred = p]]
      BY <1>23 DEF Anchor
    <3>2. files'.cursor = [cursor EXCEPT !.pred = p]
      BY <1>1, <3>1
    <3>3. files'.cursor.prefix = cursor.prefix /\ files'.cursor.epoch = cursor.epoch
      BY <1>1, <3>2, CursorParts DEF Cursor
    <3> QED BY <1>23, <3>3 DEF Anchor, environment
  <2>2. cursor' = cursor /\ durable' = durable /\ staged' = staged
    BY <2>1 DEF cursor, durable, staged
  <2>3. /\ cursor.prefix = durable.prefix /\ disk.cursor.prefix = durable.prefix
        /\ cursor.epoch # 0
    BY <1>1, <1>2, <2>1, SplitsNothing DEF Safe, Starting, Running
  <2>4. Begins(disk.cursor.prefix, disk.cursor.prefix)
    BY <1>1, BeginsReflexive
  <2>5. Safe' /\ Starting' /\ Running'
    BY <1>2, <2>1, <2>2, <2>3, <2>4 DEF Safe, Starting, Running
  <2> QED BY <2>5 DEF PublishInv
<1>24. ASSUME NEW m \in Candidates, Stage(m) PROVE PublishInv'
  <2>1. /\ pc = "idle" /\ pc' = "idle" /\ files' = files /\ disk' = disk /\ ledger' = ledger
        /\ deaf' = deaf /\ cursor' = Staged(cursor, m) /\ durable' = durable
        /\ staged' = Append(staged, m) /\ mem'.outbox = mem.outbox
    BY <1>1, <1>24 DEF Stage, environment, NoMemory, cursor, durable, staged
  <2>2. m \in Message
    BY <1>1, CandidatesType
  <2>3. cursor'.prefix = Append(cursor.prefix, m) /\ cursor'.epoch = cursor.epoch
    BY <1>1, <2>1, <2>2, StagedParts
  <2>4. Splits(cursor'.prefix, durable.prefix, staged')
    <3>1. Splits(cursor.prefix, durable.prefix, staged)
      BY <1>2, <2>1 DEF Running
    <3> QED BY <1>1, <2>1, <2>2, <2>3, <3>1, SplitsAppend
  <2>5. Safe' /\ Starting' /\ Running'
    BY <1>2, <2>1, <2>3, <2>4 DEF Safe, Starting, Running
  <2> QED BY <2>5 DEF PublishInv
<1>25. CASE VenueError \/ IOFailure
  <2>1. /\ pc' = "salvage" /\ files' = files /\ disk' = disk /\ ledger' = ledger /\ deaf' = deaf
        /\ cursor' = cursor /\ durable' = durable /\ staged' = staged
        /\ mem'.unusable \/ (pc = "idle" /\ mem'.outbox = mem.outbox)
        /\ pc = "idle" \/ pc \in CommitSteps
    BY <1>1, <1>25 DEF VenueError, IOFailure, NoMemory, cursor, durable, staged
  <2>2. Safe' /\ Starting' /\ Running'
    BY <1>2, <2>1 DEF Safe, Starting, Running, CommitSteps
  <2> QED BY <2>2 DEF PublishInv
<1>26. CASE PowerLoss
  <2>1. /\ pc' = "down" /\ mem' = NoMemory /\ disk' = files' /\ ledger' = ledger
        /\ files'.cursor \in {files.cursor, disk.cursor}
    BY <1>26 DEF PowerLoss
  <2>2. /\ Begins(files.cursor.prefix, files.cursor.prefix)
        /\ Begins(disk.cursor.prefix, disk.cursor.prefix)
    BY <1>1, BeginsReflexive
  <2>3. Safe' /\ Starting' /\ Running'
    BY <1>2, <1>3, <2>1, <2>2 DEF Safe, Starting, Running
  <2> QED BY <2>3 DEF PublishInv
<1>27. CASE ConsumerDies
  <2>1. /\ pc' = pc /\ mem' = mem /\ files' = files /\ disk' = disk /\ ledger' = ledger /\ deaf'
    BY <1>27 DEF ConsumerDies
  <2>2. cursor' = cursor /\ durable' = durable /\ staged' = staged
    BY <2>1 DEF cursor, durable, staged
  <2>3. Safe' /\ Starting' /\ Running'
    BY <1>2, <2>1, <2>2 DEF Safe, Starting, Running
  <2> QED BY <2>3 DEF PublishInv
<1>28. CASE UNCHANGED vars
  BY <1>2, <1>28 DEF vars, PublishInv, Safe, Starting, Running, cursor, durable, staged
<1> QED
  BY <1>5, <1>6, <1>7, <1>8, <1>9, <1>10, <1>11, <1>12, <1>13, <1>14, <1>15, <1>16, <1>17,
     <1>18, <1>20, <1>21, <1>22, <1>23, <1>24, <1>25, <1>26, <1>27, <1>28
     DEF Next, Working, Producing, Faulting

\* Before the first start nothing is published.
LEMMA PublishInit ==
  ASSUME Init
  PROVE  PublishInv
<1>1. /\ files.cursor.prefix = <<>> /\ disk.cursor = files.cursor /\ ledger = <<>>
      /\ pc = "down" /\ mem = NoMemory
  BY FreshParts DEF Init, NoFiles, NoCursor
<1>2. Begins(<<>>, <<>>)
  BY EmptySeq, BeginsReflexive
<1> QED
  BY <1>1, <1>2 DEF PublishInv, Safe, Starting, Running, Initializing, Recovering, Batching,
                    Reporting, Sealing, CursorUnsynced

\* Persist before publish: whatever the consumer holds is the beginning of the
\* committed stream, also of the one a power loss at any instant leaves behind.
THEOREM PersistBeforePublish ==
  ASSUME WriteBack = TRUE
  PROVE  Spec => []PublishedIsDurable
<1>1. Init => TypeInv /\ PublishInv
  BY TypeInit, PublishInit
<1>2. TypeInv /\ PublishInv /\ [Next]_vars => PublishInv'
  BY PublishStep
<1>3. TypeInv /\ PublishInv => PublishedIsDurable
  <2> SUFFICES ASSUME TypeInv, PublishInv PROVE PublishedIsDurable
    OBVIOUS
  <2>1. /\ files.cursor.prefix \in Seq(Message) /\ disk.cursor.prefix \in Seq(Message)
        /\ ledger \in Seq(Message)
    BY Parts DEF TypeInv
  <2>2. Begins(ledger, disk.cursor.prefix) /\ Begins(ledger, files.cursor.prefix)
    BY <2>1, BeginsTransitive DEF PublishInv, Safe
  <2> QED BY <2>1, <2>2, BeginsIsPrefix DEF PublishedIsDurable
<1> QED
  BY <1>1, <1>2, <1>3, TypeInvariance, PTL DEF Spec
-----------------------------------------------------------------------------
(* What the journal retains can be read, at every step of a commit, a seal, *)
(* an expiry and a recovery.  Here nothing is assumed about what a killed   *)
(* process leaves to the kernel.                                            *)

Gathering == {"idle", "anchorSync", "append", "appendSync", "commitCursor", "commitCursorSync"}
Reopening == {"recoverFsync", "replay"}
Closed == Initializing \cup {"recover", "recoverDirty", "recoverSync", "recoverReplay"}

\* The process may still commit: no commit has failed.
Usable == pc \in Gathering \cup Reporting \cup Reopening \/ (pc = "salvage" /\ ~mem.unusable)

\* The cursor is what is committed, followed by what is staged.
Batch ==
  /\ pc = "down" => mem = NoMemory
  /\ pc \in Closed => staged = <<>> /\ segments = <<>>
  /\ pc \in Gathering \/ (pc = "salvage" /\ ~mem.unusable) =>
       Splits(cursor.prefix, durable.prefix, staged)
  /\ pc \in Reopening \cup Reporting => staged = <<>> /\ cursor.prefix = durable.prefix
  /\ pc = "anchorSync" => staged = <<>>

\* The lines of the batch that the open segment holds already.
Appended ==
  IF pc = "append" THEN mem.written
  ELSE IF pc \in {"appendSync", "commitCursor", "commitCursorSync"} THEN Len(staged)
  ELSE 0

\* The open segment holds its part of the committed stream, then that of the batch.
OpenLines ==
  LET committed == Index(durable) - durable.segment
      lines     == files.segments[durable.segment]
  IN  /\ Len(lines) = committed + Appended
      /\ \A k \in 1..Appended : lines[committed + k] = staged[k]

Layout ==
  /\ RetainedIsReadable
  /\ Usable => OpenLines
  /\ pc \in {"sealSegmentSync", "sealCursor", "sealCursorSync",
             "initSegmentSync", "initCursor", "initCursorSync"} =>
       files.segments[Index(cursor)] = <<>>

RetentionInv == Batch /\ Layout
-----------------------------------------------------------------------------
\* What the proof uses of the types.
LEMMA RetentionParts ==
  ASSUME TypeInv
  PROVE  /\ DOMAIN mem = DOMAIN NoMemory /\ DOMAIN files = {"cursor", "checkpoints", "segments"}
         /\ FilesOK(files) /\ cursor \in Cursor /\ durable \in Cursor
         /\ cursor.prefix \in Seq(Message) /\ durable.prefix \in Seq(Message)
         /\ staged \in Seq(Message) /\ Len(staged) \in Nat /\ mem.written \in Nat
         /\ Index(cursor) = Len(cursor.prefix) /\ Index(durable) = Len(durable.prefix)
         /\ Index(cursor) \in Nat /\ Index(durable) \in Nat /\ durable.segment \in Nat
         /\ DOMAIN segments \in SUBSET Nat /\ Bases \in SUBSET Nat
         /\ \A b \in Bases : files.segments[b] \in Seq(Message) /\ Len(files.segments[b]) \in Nat
BY CursorParts, LenProperties
   DEF TypeInv, TypeOK, FilesOK, MemoryOK, Directory, Index, Bases, cursor, durable, staged, segments

\* The batch follows the committed stream through every step.
LEMMA BatchStep ==
  ASSUME TypeInv, Batch, [Next]_vars
  PROVE  Batch'
<1> USE DEF Initializing, Closed, Gathering, Reporting, Reopening, Sealing
<1>1. /\ DOMAIN mem = DOMAIN NoMemory
      /\ cursor.prefix \in Seq(Message) /\ durable.prefix \in Seq(Message) /\ staged \in Seq(Message)
      /\ cursor \in Cursor /\ files.cursor \in Cursor
  BY RetentionParts DEF TypeInv, TypeOK, FilesOK
\* The four parts of the memory that matter are unchanged.
<1>2. ASSUME cursor' = cursor, durable' = durable, staged' = staged, segments' = segments,
             pc' \notin {"down", "anchorSync"},
             pc' \in Closed => pc \in Closed,
             pc' \in Gathering \/ (pc' = "salvage" /\ ~mem'.unusable) =>
               pc \in Gathering \/ (pc = "salvage" /\ ~mem.unusable),
             pc' \in Reopening \cup Reporting => pc \in Reopening \cup Reporting
      PROVE  Batch'
  <2> HIDE DEF Initializing, Closed, Gathering, Reporting, Reopening, Sealing
  <2> QED BY <1>2 DEF Batch
<1>3. CASE WriteCheckpoint \/ CreateSegment \/ ReplaceCursor \/ SyncJournalDir \/ SyncAppended
           \/ ExpireCheckpoint
  <2>1. mem' = mem /\ pc' = After(pc)
    BY <1>3 DEF WriteCheckpoint, CreateSegment, ReplaceCursor, SyncJournalDir, SyncAppended,
                ExpireCheckpoint, Step
  <2>2. pc \in {"initCheckpoint", "sealCheckpoint", "initSegment", "sealSegment", "initCursor",
          "commitCursor", "sealCursor", "initCheckpointSync", "initSegmentSync",
          "sealCheckpointSync", "sealSegmentSync", "expireSegmentSync", "expireCheckpointSync",
          "recoverSync", "appendSync", "expireCheckpoint"}
    BY <1>3 DEF WriteCheckpoint, CreateSegment, ReplaceCursor, SyncJournalDir, SyncAppended,
                ExpireCheckpoint, Step
  <2>3. cursor' = cursor /\ durable' = durable /\ staged' = staged /\ segments' = segments
    BY <2>1 DEF cursor, durable, staged, segments
  <2> QED BY <1>2, <2>1, <2>2, <2>3 DEF After
<1>4. CASE RecoverRemove \/ RecoverScanned \/ RecoverFsync \/ RetainDone \/ Anchor \/ ConsumerDies
           \/ UNCHANGED vars
  <2>1. mem' = mem
    BY <1>4 DEF RecoverRemove, RecoverScanned, RecoverFsync, RetainDone, Anchor, ConsumerDies, vars
  <2>2. \/ pc' = pc
        \/ /\ pc \in {"recover", "recoverDirty"}
           /\ pc' \in {"recoverDirty", "refused", "recoverReplay", "recoverSync"}
        \/ pc = "recoverFsync" /\ pc' \in {"refused", "expired", "replay"}
        \/ pc = "retain" /\ pc' = "publish"
        \/ pc = "idle" /\ pc' = "anchorSync"
    BY <1>4 DEF RecoverRemove, RecoverScanned, RecoverFsync, RetainDone, Anchor, ConsumerDies, vars
  <2>3. cursor' = cursor /\ durable' = durable /\ staged' = staged /\ segments' = segments
    BY <2>1 DEF cursor, durable, staged, segments
  <2>4. CASE pc' = pc
    BY <2>1, <2>3, <2>4 DEF Batch
  <2>5. CASE Anchor
    BY <1>1, <2>3, <2>5 DEF Anchor, Batch
  <2> QED BY <1>2, <1>4, <2>1, <2>2, <2>3, <2>4, <2>5
     DEF RecoverRemove, RecoverScanned, RecoverFsync, RetainDone, ConsumerDies, vars
<1>5. CASE Replay \/ Flush \/ AppendLine \/ VenueError \/ IOFailure \/ PublishLine
  <2>1. cursor' = cursor /\ durable' = durable /\ staged' = staged /\ segments' = segments
    BY <1>1, <1>5 DEF Replay, Flush, AppendLine, VenueError, IOFailure, PublishLine, NoMemory,
                      cursor, durable, staged, segments
  <2>2. \/ pc \in {"replay", "publish"} /\ pc' = "publish"
        \/ pc = "append" /\ pc' \in {"append", "appendSync"}
        \/ pc \in {"idle", "salvage"} /\ ~mem.unusable /\ pc' = "append"
        \/ pc = "idle" /\ pc' = "salvage"
        \/ pc' = "salvage" /\ mem'.unusable
    BY <1>1, <1>5 DEF Replay, Flush, AppendLine, VenueError, IOFailure, PublishLine, NoMemory
  <2> QED BY <1>2, <2>1, <2>2
<1>6. CASE StartFresh \/ Resume
  <2>1. mem = NoMemory
    BY <1>6 DEF StartFresh, Resume, Batch
  <2>2. staged' = <<>> /\ segments' = <<>>
    BY <1>6, <2>1 DEF StartFresh, Resume, NoMemory, staged, segments
  <2>3. pc' \in {"refused", "initCheckpoint", "recover"}
    BY <1>6 DEF StartFresh, Resume
  <2> QED BY <2>2, <2>3 DEF Batch
<1>7. CASE Initialized
  <2>1. /\ cursor' = cursor /\ durable' = cursor /\ staged' = staged /\ pc' = "idle"
        /\ pc = "initCursorSync"
    BY <1>1, <1>7 DEF Initialized, CursorSynced, NoMemory, cursor, durable, staged
  <2>2. staged = <<>> /\ Splits(cursor.prefix, cursor.prefix, <<>>)
    BY <1>1, <2>1, SplitsNothing DEF Batch
  <2> QED BY <2>1, <2>2 DEF Batch
<1>8. CASE Anchored
  <2>1. /\ cursor' = files.cursor /\ durable' = files.cursor /\ staged' = staged /\ pc' = "idle"
        /\ pc = "anchorSync" /\ files.cursor.prefix = cursor.prefix
    BY <1>1, <1>8 DEF Anchored, CursorSynced, NoMemory, TypeInv, OpenSegment, cursor, durable, staged
  <2>2. staged = <<>> /\ Splits(cursor.prefix, cursor.prefix, <<>>)
    BY <1>1, <2>1, SplitsNothing DEF Batch
  <2> QED BY <2>1, <2>2 DEF Batch
<1>9. CASE RecoverReplay
  <2>1. CASE RecoverVerified
    <3> DEFINE read == [b \in Bases |-> SegmentOf(files.checkpoints[b])]
    <3>1. /\ mem' = [mem EXCEPT !.durable = cursor, !.segments = read]
          /\ pc = "recoverReplay" /\ pc' = "recoverFsync"
      BY <1>9, <2>1 DEF RecoverReplay
    <3> HIDE DEF read
    <3>2. durable' = cursor /\ cursor' = cursor /\ staged' = staged
      BY <1>1, <3>1 DEF NoMemory, durable, cursor, staged
    <3> QED BY <3>1, <3>2 DEF Batch
  <2> QED BY <1>9, <2>1 DEF RecoverReplay, Batch
<1>10. CASE Committed
  <2>1. /\ cursor' = cursor /\ durable' = cursor /\ staged' = <<>>
        /\ pc' \in {"sealCheckpoint", "retain"}
    BY <1>1, <1>10 DEF Committed, CursorSynced, NoMemory, cursor, durable, staged
  <2> QED BY <2>1 DEF Batch
<1>11. CASE Sealed
  <2>1. /\ cursor'.prefix = cursor.prefix /\ durable'.prefix = durable.prefix /\ staged' = staged
        /\ pc = "sealCursorSync" /\ pc' = "retain"
    BY <1>1, <1>11, RetentionParts DEF Sealed, CursorSynced, NoMemory, Cursor, cursor, durable, staged
  <2> QED BY <2>1 DEF Batch
<1>12. CASE ExpireSegment
  <2>1. /\ cursor' = cursor /\ durable' = durable /\ staged' = staged
        /\ pc = "retain" /\ pc' = "expireSegmentSync"
    BY <1>1, <1>12 DEF ExpireSegment, NoMemory, cursor, durable, staged
  <2> QED BY <2>1 DEF Batch
<1>13. CASE Published
  <2>1. CASE Exit
    BY <2>1 DEF Exit, Batch
  <2>2. CASE ~Exit
    <3>1. mem' = mem /\ pc = "publish" /\ pc' = "idle"
      BY <1>13, <2>2 DEF Published
    <3>2. cursor' = cursor /\ durable' = durable /\ staged' = staged
      BY <3>1 DEF cursor, durable, staged
    <3>3. Splits(cursor.prefix, durable.prefix, staged)
      BY <1>1, <3>1, SplitsNothing DEF Batch
    <3> QED BY <3>1, <3>2, <3>3 DEF Batch
  <2> QED BY <2>1, <2>2
<1>14. CASE Salvaged \/ OutputLost \/ ConsumerRebuilds \/ Kill \/ PowerLoss
  BY <1>14 DEF Salvaged, OutputLost, ConsumerRebuilds, Kill, PowerLoss, Exit, Batch
<1>15. ASSUME NEW m \in Candidates, Stage(m) PROVE Batch'
  <2>1. /\ cursor' = Staged(cursor, m) /\ durable' = durable /\ staged' = Append(staged, m)
        /\ pc = "idle" /\ pc' = "idle"
    BY <1>1, <1>15 DEF Stage, NoMemory, cursor, durable, staged
  <2>2. m \in Message /\ Staged(cursor, m).prefix = Append(cursor.prefix, m)
    BY <1>1, CandidatesType, StagedParts
  <2>3. Splits(cursor'.prefix, durable.prefix, staged')
    <3>1. Splits(cursor.prefix, durable.prefix, staged)
      BY <2>1 DEF Batch
    <3> QED BY <1>1, <2>1, <2>2, <3>1, SplitsAppend
  <2> QED BY <2>1, <2>3 DEF Batch
<1> QED
  BY <1>3, <1>4, <1>5, <1>6, <1>7, <1>8, <1>9, <1>10, <1>11, <1>12, <1>13, <1>14, <1>15
     DEF Next, Working, Producing, Faulting

\* The last base at or before an index.
LEMMA LastBase ==
  ASSUME NEW D \in SUBSET Nat, D # {}, NEW i \in Nat, Min(D) <= i
  PROVE  LET b == Max({x \in D : x <= i} \cup {Min(D)})
         IN  b \in D /\ b <= i /\ \A x \in D : x <= i => x <= b
<1> DEFINE S == {x \in D : x <= i} \cup {Min(D)}
<1>1. Min(D) \in D
  BY MinOfNats
<1>2. S \in SUBSET Nat /\ S # {} /\ \A x \in S : x <= i
  BY <1>1
<1>3. Max(S) \in S /\ \A x \in S : Max(S) >= x
  BY <1>2, MaxOfNats
<1>4. Max(S) \in D /\ Max(S) <= i
  BY <1>1, <1>2, <1>3
<1>5. \A x \in D : x <= i => x <= Max(S)
  <2> SUFFICES ASSUME NEW x \in D, x <= i PROVE x <= Max(S)
    OBVIOUS
  <2>1. x \in S
    OBVIOUS
  <2> HIDE DEF S
  <2> QED BY <1>3, <1>4, <2>1
<1> QED BY <1>4, <1>5

\* There is one such base.
LEMMA OneLastBase ==
  ASSUME NEW D \in SUBSET Nat, NEW i \in Nat, Min(D) <= i, NEW c \in D, c <= i,
         \A x \in D : x <= i => x <= c
  PROVE  Max({x \in D : x <= i} \cup {Min(D)}) = c
<1> DEFINE b == Max({x \in D : x <= i} \cup {Min(D)})
<1>1. b \in D /\ b <= i /\ \A x \in D : x <= i => x <= b
  BY LastBase
<1> HIDE DEF b
<1>2. b <= c /\ c <= b /\ b \in Nat /\ c \in Nat
  BY <1>1
<1>3. b = c
  BY <1>2
<1> QED BY <1>3 DEF b

\* The indices that are retained, and where they are read.
LEMMA RetainedIndex ==
  ASSUME TypeInv, Opened
  PROVE  /\ FirstRetained \in DOMAIN segments /\ FirstRetained \in Nat
         /\ \A b \in DOMAIN segments : FirstRetained <= b
         /\ \A i \in FirstRetained..(Index(durable) - 1) :
              /\ i \in Nat /\ FirstRetained <= i /\ i < Index(durable)
              /\ SegmentFor(i) \in DOMAIN segments /\ SegmentFor(i) \in Nat /\ SegmentFor(i) <= i
              /\ \A x \in DOMAIN segments : x <= i => x <= SegmentFor(i)
<1>1. DOMAIN segments \in SUBSET Nat /\ DOMAIN segments # {} /\ Index(durable) \in Nat
  BY RetentionParts DEF Opened
<1>2. FirstRetained \in DOMAIN segments /\ \A b \in DOMAIN segments : FirstRetained <= b
  BY <1>1, MinOfNats DEF FirstRetained
<1>3. ASSUME NEW i \in FirstRetained..(Index(durable) - 1)
      PROVE  /\ i \in Nat /\ FirstRetained <= i /\ i < Index(durable)
             /\ SegmentFor(i) \in DOMAIN segments /\ SegmentFor(i) <= i
             /\ \A x \in DOMAIN segments : x <= i => x <= SegmentFor(i)
  <2>1. i \in Nat /\ FirstRetained <= i /\ i < Index(durable)
    BY <1>1, <1>2
  <2> QED BY <1>1, <2>1, LastBase DEF SegmentFor, FirstRetained
<1> QED BY <1>1, <1>2, <1>3

\* Segments that only grow keep what was readable.
LEMMA StillReadable ==
  ASSUME TypeInv, TypeOK', RetainedIsReadable, segments' = segments,
         durable'.prefix = durable.prefix,
         \A b \in DOMAIN segments \cap Bases :
           b \in Bases' /\ Begins(files.segments[b], files'.segments[b])
  PROVE  RetainedIsReadable'
<1> SUFFICES ASSUME Opened
             PROVE  \A i \in FirstRetained..(Index(durable) - 1) :
                      LET b == SegmentFor(i)
                      IN  /\ b \in Bases' /\ i - b + 1 \in DOMAIN files'.segments[b]
                          /\ files'.segments[b][i - b + 1] = durable.prefix[i + 1]
  BY DEF RetainedIsReadable, Opened, FirstRetained, SegmentFor, ReadAt, Index
<1> TAKE i \in FirstRetained..(Index(durable) - 1)
<1> DEFINE b == SegmentFor(i)
<1>1. b \in DOMAIN segments /\ b \in Nat /\ i \in Nat /\ b <= i
  BY RetainedIndex
<1>2. /\ b \in Bases /\ i - b + 1 \in DOMAIN files.segments[b]
      /\ files.segments[b][i - b + 1] = durable.prefix[i + 1]
  BY DEF RetainedIsReadable, ReadAt
<1>3. b \in Bases' /\ Begins(files.segments[b], files'.segments[b])
  BY <1>1, <1>2
<1>4. files.segments[b] \in Seq(Message) /\ files'.segments[b] \in Seq(Message)
  BY <1>2, <1>3 DEF TypeInv, TypeOK, FilesOK, Directory, Bases
<1> HIDE DEF b
<1>5. i - b + 1 \in 1..Len(files.segments[b])
  BY <1>2, <1>4, LenProperties
<1>6. i - b + 1 \in 1..Len(files'.segments[b]) /\ files'.segments[b][i - b + 1] = files.segments[b][i - b + 1]
  BY <1>1, <1>3, <1>4, <1>5, LenProperties, SMTT(30) DEF Begins
<1> QED BY <1>2, <1>3, <1>4, <1>6, LenProperties DEF b

\* Where index i is, in a segment from o on and in a batch of n lines from d on.
LEMMA Positions ==
  ASSUME NEW i \in Nat, NEW o \in Nat, NEW d \in Nat, NEW n \in Nat,
         o <= d, d <= i, i < d + n
  PROVE  /\ i - o + 1 \in 1..((d + n) - o) /\ i - d + 1 \in 1..n
         /\ i - o + 1 = (d - o) + (i - d + 1) /\ i + 1 = d + (i - d + 1)
OBVIOUS

\* Nothing is open, so nothing is retained.
LEMMA NothingOpen ==
  ASSUME segments' = <<>>, ~Usable',
         pc' \notin {"sealSegmentSync", "sealCursor", "sealCursorSync",
                  "initSegmentSync", "initCursor", "initCursorSync"}
  PROVE  Layout'
<1>1. DOMAIN segments' = {}
  BY EmptySeq
<1> QED BY <1>1 DEF Layout, RetainedIsReadable, Opened

\* Every step keeps the layout.
LEMMA LayoutStep ==
  ASSUME TypeInv, Batch, Layout, [Next]_vars
  PROVE  Layout'
<1> USE DEF Initializing, Closed, Gathering, Reporting, Reopening, Sealing, Usable
<1> DEFINE Created == {"sealSegmentSync", "sealCursor", "sealCursorSync",
                       "initSegmentSync", "initCursor", "initCursorSync"}
<1>1. /\ DOMAIN mem = DOMAIN NoMemory /\ DOMAIN files = {"cursor", "checkpoints", "segments"}
      /\ FilesOK(files) /\ cursor \in Cursor /\ durable \in Cursor
      /\ cursor.prefix \in Seq(Message) /\ durable.prefix \in Seq(Message)
      /\ staged \in Seq(Message) /\ Len(staged) \in Nat /\ mem.written \in Nat
      /\ Index(cursor) = Len(cursor.prefix) /\ Index(durable) = Len(durable.prefix)
      /\ Index(cursor) \in Nat /\ Index(durable) \in Nat /\ durable.segment \in Nat
      /\ DOMAIN segments \in SUBSET Nat /\ Bases \in SUBSET Nat
      /\ \A b \in Bases : files.segments[b] \in Seq(Message) /\ Len(files.segments[b]) \in Nat
  BY RetentionParts
<1>2. TypeInv' /\ TypeOK'
  BY TypeInvStep DEF TypeInv
<1>3. RetainedIsReadable /\ (Usable => OpenLines)
      /\ (pc \in Created => files.segments[Index(cursor)] = <<>>)
  BY DEF Layout
<1>4. Usable => /\ durable.segment \in DOMAIN segments /\ DOMAIN segments \subseteq Bases
                /\ \A b \in DOMAIN segments : b <= durable.segment
                /\ cursor.segment = durable.segment /\ durable.segment <= Index(durable)
                /\ Index(durable) <= Index(cursor) /\ Opened
  <2>1. Usable => pc \in Holding
    BY DEF Holding, CommitSteps
  <2>2. pc \in Holding =>
          /\ durable.segment \in DOMAIN segments /\ DOMAIN segments \subseteq Bases
          /\ \A b \in DOMAIN segments : b <= durable.segment
          /\ cursor.segment = durable.segment /\ durable.segment <= Index(durable)
          /\ Index(durable) <= Index(cursor)
    BY DEF TypeInv, OpenSegment
  <2> HIDE DEF Usable
  <2> QED BY <2>1, <2>2 DEF Opened
\* Segments, cursors and batch are unchanged.
<1>5. ASSUME files'.segments = files.segments, cursor' = cursor, durable' = durable,
             staged' = staged, segments' = segments,
             Usable' => Usable /\ Appended' = Appended,
             pc' \in Created => pc \in Created
      PROVE  Layout'
  <2> HIDE DEF Initializing, Closed, Gathering, Reporting, Reopening, Sealing, Usable
  <2>1. Bases' = Bases
    BY <1>5 DEF Bases
  <2>2. RetainedIsReadable'
    BY <1>1, <1>2, <1>3, <1>5, <2>1, StillReadable, BeginsReflexive
  <2>3. Usable' => OpenLines'
    BY <1>3, <1>5 DEF OpenLines, Index
  <2>4. pc' \in Created => files'.segments[Index(cursor)'] = <<>>
    BY <1>3, <1>5 DEF Index
  <2> QED BY <2>2, <2>3, <2>4 DEF Layout
<1>6. CASE WriteCheckpoint \/ ReplaceCursor \/ SyncJournalDir \/ SyncAppended \/ ExpireCheckpoint
  <2>1. mem' = mem /\ pc' = After(pc) /\ files'.segments = files.segments
    BY <1>1, <1>6 DEF WriteCheckpoint, ReplaceCursor, SyncJournalDir, SyncAppended,
                      ExpireCheckpoint, Step
  <2>2. pc \in {"initCheckpoint", "sealCheckpoint", "initCursor", "commitCursor", "sealCursor",
          "initCheckpointSync", "initSegmentSync", "sealCheckpointSync", "sealSegmentSync",
          "expireSegmentSync", "expireCheckpointSync", "recoverSync", "appendSync",
          "expireCheckpoint"}
    BY <1>6 DEF WriteCheckpoint, ReplaceCursor, SyncJournalDir, SyncAppended, ExpireCheckpoint, Step
  <2>3. cursor' = cursor /\ durable' = durable /\ staged' = staged /\ segments' = segments
    BY <2>1 DEF cursor, durable, staged, segments
  <2>4. Usable' => Usable /\ Appended' = Appended
    BY <2>1, <2>2, <2>3 DEF After, Appended
  <2>5. pc' \in Created => pc \in Created
    BY <2>1, <2>2 DEF After
  <2> QED BY <1>5, <2>1, <2>3, <2>4, <2>5
<1>7. CASE RecoverScanned \/ RecoverFsync \/ RetainDone \/ Anchor \/ ConsumerDies \/ UNCHANGED vars
  <2>1. mem' = mem /\ files'.segments = files.segments
    BY <1>1, <1>7 DEF RecoverScanned, RecoverFsync, RetainDone, Anchor, ConsumerDies, vars
  <2>2. \/ pc' = pc
        \/ pc' \in {"refused", "recoverReplay", "recoverSync", "expired"}
        \/ pc = "recoverFsync" /\ pc' = "replay"
        \/ pc = "retain" /\ pc' = "publish"
        \/ pc = "idle" /\ pc' = "anchorSync"
    BY <1>7 DEF RecoverScanned, RecoverFsync, RetainDone, Anchor, ConsumerDies, vars
  <2>3. cursor' = cursor /\ durable' = durable /\ staged' = staged /\ segments' = segments
    BY <2>1 DEF cursor, durable, staged, segments
  <2>4. Usable' => Usable /\ Appended' = Appended
    BY <2>1, <2>2, <2>3 DEF Appended
  <2> QED BY <1>5, <2>1, <2>2, <2>3, <2>4
<1>8. CASE Replay \/ Flush \/ VenueError \/ IOFailure \/ PublishLine
  <2>1. /\ cursor' = cursor /\ durable' = durable /\ staged' = staged /\ segments' = segments
        /\ files'.segments = files.segments
    BY <1>1, <1>8 DEF Replay, Flush, VenueError, IOFailure, PublishLine, NoMemory,
                      cursor, durable, staged, segments
  <2>2. \/ pc \in {"replay", "publish"} /\ pc' = "publish"
        \/ pc \in {"idle", "salvage"} /\ ~mem.unusable /\ pc' = "append" /\ mem'.written = 0
        \/ pc = "idle" /\ pc' = "salvage"
        \/ pc' = "salvage" /\ mem'.unusable
    BY <1>1, <1>8 DEF Replay, Flush, VenueError, IOFailure, PublishLine, NoMemory
  <2>3. Usable' => Usable /\ Appended' = Appended
    BY <2>1, <2>2 DEF Appended
  <2> QED BY <1>5, <2>1, <2>2, <2>3
<1>9. ASSUME mem' = NoMemory, pc' = "down" PROVE Layout'
  BY <1>9, NothingOpen DEF segments, NoMemory
<1>10. CASE Salvaged \/ OutputLost \/ ConsumerRebuilds \/ Kill \/ PowerLoss
  BY <1>9, <1>10 DEF Salvaged, OutputLost, ConsumerRebuilds, Kill, PowerLoss, Exit
<1>11. CASE Published
  <2>1. CASE Exit
    BY <1>9, <2>1 DEF Exit
  <2>2. CASE ~Exit
    <3>1. mem' = mem /\ files' = files /\ pc = "publish" /\ pc' = "idle"
      BY <1>11, <2>2 DEF Published
    <3>2. cursor' = cursor /\ durable' = durable /\ staged' = staged /\ segments' = segments
      BY <3>1 DEF cursor, durable, staged, segments
    <3> QED BY <1>5, <3>1, <3>2 DEF Appended
  <2> QED BY <2>1, <2>2
<1>12. CASE StartFresh \/ Resume \/ RecoverRemove
  <2>1. segments = <<>>
    BY <1>12 DEF StartFresh, Resume, RecoverRemove, Batch, NoMemory, segments
  <2>2. segments' = <<>>
    BY <1>1, <1>12, <2>1 DEF StartFresh, Resume, RecoverRemove, NoMemory, segments
  <2>3. pc' \in {"refused", "initCheckpoint", "recover", "recoverDirty"}
    BY <1>12 DEF StartFresh, Resume, RecoverRemove
  <2> QED BY <2>2, <2>3, NothingOpen
\* A new segment is empty, and in nobody's way.
<1>13. CASE CreateSegment
  <2>1. /\ mem' = mem
        /\ \/ pc = "initSegment" /\ pc' = "initSegmentSync"
           \/ pc = "sealSegment" /\ pc' = "sealSegmentSync"
        /\ Index(cursor) \notin Bases
        /\ files'.segments = With(files.segments, Index(cursor), <<>>)
    BY <1>1, <1>13 DEF CreateSegment, Step, After
  <2>2. cursor' = cursor /\ durable' = durable /\ staged' = staged /\ segments' = segments
    BY <2>1 DEF cursor, durable, staged, segments
  <2>3. /\ Bases' = Bases \cup {Index(cursor)} /\ files'.segments[Index(cursor)] = <<>>
        /\ \A b \in Bases : files'.segments[b] = files.segments[b]
    BY <2>1 DEF With, Bases
  <2>4. RetainedIsReadable'
    BY <1>1, <1>2, <1>3, <2>2, <2>3, StillReadable, BeginsReflexive
  <2>5. pc' \in Created => files'.segments[Index(cursor)'] = <<>>
    BY <2>2, <2>3 DEF Index
  <2>6. Usable' => OpenLines'
    <3>1. Usable' => Usable /\ Appended = 0 /\ Appended' = 0
      BY <2>1 DEF Appended
    <3>2. Usable => files'.segments[durable.segment] = files.segments[durable.segment]
      BY <1>4, <2>3
    <3> HIDE DEF Usable
    <3> QED BY <1>3, <2>2, <3>1, <3>2 DEF OpenLines, Index
  <2> QED BY <2>4, <2>5, <2>6 DEF Layout
\* The open segment grows by the next line of the batch.
<1>14. CASE AppendLine
  <2> DEFINE o == durable.segment
             m == staged[mem.written + 1]
  <2>1. /\ pc = "append" /\ mem' = [mem EXCEPT !.written = mem.written + 1]
        /\ pc' = IF mem.written + 1 = Len(staged) THEN "appendSync" ELSE "append"
    BY <1>14 DEF AppendLine
  <2>2. /\ cursor' = cursor /\ durable' = durable /\ staged' = staged /\ segments' = segments
        /\ mem'.written = mem.written + 1
    BY <1>1, <2>1 DEF NoMemory, cursor, durable, staged, segments
  <2>3. o \in Bases /\ o \in DOMAIN segments /\ OpenLines /\ o <= Index(durable)
    BY <1>3, <1>4, <2>1
  <2>4. files'.segments = [files.segments EXCEPT ![o] = Append(files.segments[o], m)]
    BY <1>1, <1>14 DEF AppendLine
  <2>5. mem.written + 1 \in 1..Len(staged) /\ m \in Message
    <3>1. mem.written < Len(staged)
      BY <2>1 DEF TypeInv, Appending
    <3>2. mem.written + 1 \in 1..Len(staged)
      BY <1>1, <3>1
    <3> QED BY <1>1, <3>2, ElementOfSeq
  <2>6. /\ Bases' = Bases /\ files'.segments[o] = Append(files.segments[o], m)
        /\ \A b \in Bases : b # o => files'.segments[b] = files.segments[b]
    BY <2>3, <2>4 DEF Bases
  <2>7. /\ Len(files'.segments[o]) = Len(files.segments[o]) + 1
        /\ \A k \in 1..Len(files.segments[o]) : files'.segments[o][k] = files.segments[o][k]
        /\ files'.segments[o][Len(files.segments[o]) + 1] = m
    <3> HIDE DEF m
    <3> QED BY <1>1, <2>3, <2>5, <2>6, AppendProperties
  <2>8. RetainedIsReadable'
    <3> HIDE DEF o, m, Created, Initializing, Closed, Gathering, Reporting, Reopening, Sealing, Usable
    <3>1. ASSUME NEW b \in Bases PROVE Begins(files.segments[b], files'.segments[b])
      <4>1. CASE b = o
        <5>1. Len(files.segments[o]) <= Len(files'.segments[o])
          BY <1>1, <2>3, <2>7
        <5> QED BY <2>7, <4>1, <5>1 DEF Begins
      <4>2. CASE b # o
        BY <1>1, <2>6, <4>2, BeginsReflexive
      <4> QED BY <4>1, <4>2
    <3> QED BY <1>2, <1>3, <2>2, <2>6, <3>1, StillReadable
  <2>9. OpenLines'
    <3> DEFINE committed == Index(durable) - o
    <3>1. /\ committed \in Nat /\ Len(files.segments[o]) = committed + mem.written
          /\ \A k \in 1..mem.written : files.segments[o][committed + k] = staged[k]
      BY <1>1, <2>1, <2>3 DEF OpenLines, Appended
    <3>2. Appended' = mem.written + 1
      BY <2>1, <2>2 DEF Appended
    <3>3. Len(files'.segments[o]) = committed + (mem.written + 1)
      BY <1>1, <2>7, <3>1
    <3>4. \A k \in 1..(mem.written + 1) : files'.segments[o][committed + k] = staged[k]
      <4> TAKE k \in 1..(mem.written + 1)
      <4>1. CASE k = mem.written + 1
        <5>1. committed + k = Len(files.segments[o]) + 1
          BY <1>1, <3>1, <4>1
        <5> QED BY <2>7, <4>1, <5>1
      <4>2. CASE k # mem.written + 1
        <5>1. k \in 1..mem.written /\ committed + k \in 1..Len(files.segments[o])
          BY <1>1, <3>1, <4>2, SMTT(30)
        <5> QED BY <2>7, <3>1, <5>1
      <4> QED BY <4>1, <4>2
    <3> QED BY <2>2, <3>2, <3>3, <3>4 DEF OpenLines, Index
  <2> QED BY <2>1, <2>8, <2>9 DEF Layout
\* What was staged is committed: the open segment holds it.
<1>15. CASE Committed
  <2>1. /\ pc = "commitCursorSync" /\ pc' \in {"sealCheckpoint", "retain"} /\ files' = files
        /\ cursor' = cursor /\ durable' = cursor /\ staged' = <<>> /\ segments' = segments
    BY <1>1, <1>15 DEF Committed, CursorSynced, NoMemory, cursor, durable, staged, segments
  <2>2. /\ Splits(cursor.prefix, durable.prefix, staged) /\ OpenLines /\ Appended = Len(staged)
        /\ durable.segment \in DOMAIN segments /\ DOMAIN segments \subseteq Bases
        /\ \A b \in DOMAIN segments : b <= durable.segment
        /\ cursor.segment = durable.segment /\ durable.segment <= Index(durable)
        /\ Index(durable) <= Index(cursor) /\ Opened
    BY <1>3, <1>4, <2>1 DEF Batch, Appended
  <2>3. Index(cursor) = Index(durable) + Len(staged) /\ Appended' = 0
    BY <1>1, <2>1, <2>2 DEF Splits, Appended
  <2> HIDE DEF Created, Initializing, Closed, Gathering, Reporting, Reopening, Sealing, Usable
  <2>4. /\ Len(files.segments[durable.segment]) = Index(cursor) - durable.segment
        /\ \A k \in 1..Len(staged) :
             files.segments[durable.segment][Index(durable) - durable.segment + k] = staged[k]
    <3>1. /\ Len(files.segments[durable.segment]) = Index(durable) - durable.segment + Len(staged)
          /\ \A k \in 1..Len(staged) :
               files.segments[durable.segment][Index(durable) - durable.segment + k] = staged[k]
      BY <2>2 DEF OpenLines
    <3>2. Index(durable) - durable.segment + Len(staged) = Index(cursor) - durable.segment
      BY <1>1, <2>3
    <3> QED BY <3>1, <3>2
  <2>5. OpenLines'
    BY <1>1, <2>1, <2>2, <2>3, <2>4 DEF OpenLines, Index
  <2>6. RetainedIsReadable'
    <3>1. FirstRetained' = FirstRetained /\ Bases' = Bases /\ Index(durable)' = Index(cursor)
      BY <2>1 DEF FirstRetained, Bases, Index
    <3>2. ASSUME NEW i \in FirstRetained..(Index(cursor) - 1)
          PROVE  /\ SegmentFor(i) \in Bases /\ i - SegmentFor(i) + 1 \in DOMAIN files.segments[SegmentFor(i)]
                 /\ ReadAt(i) = cursor.prefix[i + 1]
      <4>0. FirstRetained \in Nat /\ i \in Nat /\ FirstRetained <= i /\ i < Index(cursor)
        BY <1>1, <2>2, RetainedIndex
      <4>1. CASE i < Index(durable)
        <5>1. i \in FirstRetained..(Index(durable) - 1)
          BY <1>1, <4>0, <4>1
        <5>2. /\ SegmentFor(i) \in Bases /\ i - SegmentFor(i) + 1 \in DOMAIN files.segments[SegmentFor(i)]
              /\ ReadAt(i) = durable.prefix[i + 1]
          BY <1>3, <2>2, <5>1 DEF RetainedIsReadable
        <5>3. cursor.prefix[i + 1] = durable.prefix[i + 1]
          <6>1. i + 1 \in 1..Len(durable.prefix)
            BY <1>1, <4>0, <4>1
          <6> QED BY <2>2, <6>1 DEF Splits
        <5> QED BY <5>2, <5>3
      <4>2. CASE Index(durable) <= i
        <5>1. SegmentFor(i) = durable.segment
          <6>1. /\ durable.segment <= i /\ \A b \in DOMAIN segments : b <= i => b <= durable.segment
                /\ Min(DOMAIN segments) <= i
            BY <1>1, <2>2, <4>0, <4>2 DEF FirstRetained
          <6> QED BY <1>1, <2>2, <4>0, <6>1, OneLastBase DEF SegmentFor, FirstRetained
        <5>2. /\ i - durable.segment + 1 \in 1..Len(files.segments[durable.segment])
              /\ i - Index(durable) + 1 \in 1..Len(staged)
              /\ i - durable.segment + 1 = Index(durable) - durable.segment + (i - Index(durable) + 1)
              /\ i + 1 = Len(durable.prefix) + (i - Index(durable) + 1)
          <6>1. /\ Len(files.segments[durable.segment]) = Index(cursor) - durable.segment
                /\ Index(durable) \in Nat /\ durable.segment \in Nat /\ durable.segment <= Index(durable)
                /\ Index(cursor) \in Nat /\ Index(cursor) = Index(durable) + Len(staged)
                /\ Len(staged) \in Nat /\ Index(durable) = Len(durable.prefix)
            BY <1>1, <2>2, <2>3, <2>4
          <6>2. i \in Nat /\ Index(durable) <= i /\ i < Index(durable) + Len(staged)
            BY <4>0, <4>2, <6>1
          <6> DEFINE o == durable.segment
                     d == Index(durable)
                     n == Len(staged)
          <6>3. o \in Nat /\ d \in Nat /\ n \in Nat /\ i \in Nat /\ o <= d /\ d <= i /\ i < d + n
            BY ONLY <6>1, <6>2
          <6>4. /\ i - o + 1 \in 1..((d + n) - o) /\ i - d + 1 \in 1..n
                /\ i - o + 1 = (d - o) + (i - d + 1) /\ i + 1 = d + (i - d + 1)
            <7> HIDE DEF o, d, n
            <7> QED BY ONLY <6>3, Positions, SMTT(20)
          <6> QED BY ONLY <6>1, <6>4
        <5>3. files.segments[durable.segment][i - durable.segment + 1] = staged[i - Index(durable) + 1]
          BY <2>4, <5>2
        <5>4. cursor.prefix[i + 1] = staged[i - Index(durable) + 1]
          BY <2>2, <5>2 DEF Splits
        <5>5. i - durable.segment + 1 \in DOMAIN files.segments[durable.segment]
          BY <1>1, <2>2, <5>2, LenProperties
        <5> QED BY <2>2, <5>1, <5>3, <5>4, <5>5 DEF ReadAt
      <4> QED BY <1>1, <4>0, <4>1, <4>2
    <3> QED BY <2>1, <3>1, <3>2 DEF RetainedIsReadable, SegmentFor, ReadAt, FirstRetained
  <2> QED BY <2>1, <2>5, <2>6 DEF Layout
\* The successor, still empty, is the open segment from now on.
<1>16. CASE Sealed
  <2>1. /\ pc = "sealCursorSync" /\ pc' = "retain" /\ files' = files /\ staged' = staged
        /\ cursor' = [cursor EXCEPT !.segment = Index(durable)]
        /\ durable' = [durable EXCEPT !.segment = Index(durable)]
        /\ segments' = With(segments, Index(durable), SegmentOf(durable))
    BY <1>1, <1>16 DEF Sealed, CursorSynced, NoMemory, cursor, durable, staged, segments
  <2>2. /\ durable'.prefix = durable.prefix /\ durable'.segment = Index(durable)
        /\ Index(durable)' = Index(durable) /\ Bases' = Bases
        /\ DOMAIN segments' = DOMAIN segments \cup {Index(durable)}
    BY <1>1, <2>1 DEF Cursor, Index, Bases, With
  <2>3. /\ files.segments[Index(durable)] = <<>> /\ cursor = durable /\ Index(durable) \in Bases
        /\ durable.segment \in DOMAIN segments /\ durable.segment <= Index(durable)
        /\ \A b \in DOMAIN segments : b <= durable.segment
        /\ Opened
    BY <1>3, <1>4, <2>1 DEF TypeInv, OpenSegment
  <2> HIDE DEF Created, Initializing, Closed, Gathering, Reporting, Reopening, Sealing, Usable
  <2>4. FirstRetained' = FirstRetained
    <3> DEFINE D == DOMAIN segments \cup {Index(durable)}
    <3>1. D \in SUBSET Nat /\ DOMAIN segments \in SUBSET Nat /\ DOMAIN segments # {}
      BY <1>1, <2>3
    <3>2. Min(D) \in D /\ (\A y \in D : Min(D) <= y)
      BY <3>1, MinOfNats
    <3>3. FirstRetained \in DOMAIN segments /\ FirstRetained \in Nat
          /\ \A y \in DOMAIN segments : FirstRetained <= y
      BY <2>3, RetainedIndex
    <3>4. FirstRetained \in D /\ \A y \in D : FirstRetained <= y
      BY <1>1, <2>3, <3>3
    <3> HIDE DEF D
    <3>5. Min(D) <= FirstRetained /\ FirstRetained <= Min(D) /\ Min(D) \in Nat
      BY <3>1, <3>2, <3>4
    <3>6. Min(D) = FirstRetained
      BY <3>3, <3>5
    <3> QED BY <2>2, <3>6 DEF FirstRetained, D
  <2>5. ASSUME NEW i \in FirstRetained..(Index(durable) - 1)
        PROVE  SegmentFor(i)' = SegmentFor(i) /\ ReadAt(i)' = ReadAt(i)
    <3>1. i < Index(durable) /\ i \in Nat
      BY <2>3, RetainedIndex
    <3>2. \A x : x \in DOMAIN segments' /\ x <= i <=> x \in DOMAIN segments /\ x <= i
      BY <1>1, <2>2, <3>1
    <3>3. {x \in DOMAIN segments' : x <= i} = {x \in DOMAIN segments : x <= i}
      BY <3>2
    <3> QED BY <2>1, <2>4, <3>3 DEF SegmentFor, ReadAt
  <2>6. RetainedIsReadable'
    BY <1>3, <2>1, <2>2, <2>3, <2>4, <2>5 DEF RetainedIsReadable
  <2>7. OpenLines'
    <3>1. Appended' = 0
      BY <2>1 DEF Appended
    <3>2. Len(files'.segments[durable'.segment]) = 0
      BY <2>1, <2>2, <2>3, EmptySeq
    <3> QED BY <1>1, <2>2, <3>1, <3>2 DEF OpenLines
  <2> QED BY <2>1, <2>6, <2>7 DEF Layout, Created
\* The oldest segment goes; what is read of the others is not touched.
<1>17. CASE ExpireSegment
  <2>1. /\ pc = "retain" /\ pc' = "expireSegmentSync"
        /\ cursor' = cursor /\ durable' = durable /\ staged' = staged
        /\ segments' = Without(segments, FirstRetained)
        /\ files'.segments = Without(files.segments, FirstRetained)
        /\ DOMAIN segments # {FirstRetained}
    BY <1>1, <1>17 DEF ExpireSegment, Expirable, NoMemory, cursor, durable, staged, segments
  <2>2. /\ DOMAIN segments' = DOMAIN segments \ {FirstRetained}
        /\ Bases' = Bases \ {FirstRetained}
        /\ \A b \in Bases' : files'.segments[b] = files.segments[b]
    BY <2>1 DEF Without, Bases
  <2>3. /\ Opened /\ OpenLines /\ durable.segment \in DOMAIN segments
        /\ \A b \in DOMAIN segments : b <= durable.segment
        /\ durable.segment \in Bases
    BY <1>3, <1>4, <2>1
  <2> HIDE DEF Created, Initializing, Closed, Gathering, Reporting, Reopening, Sealing, Usable
  <2>4. FirstRetained \in DOMAIN segments /\ FirstRetained \in Nat
        /\ \A b \in DOMAIN segments : FirstRetained <= b
    BY <2>3, RetainedIndex
  <2>5. DOMAIN segments' \in SUBSET Nat /\ DOMAIN segments' # {}
    <3>1. DOMAIN segments \in SUBSET Nat
      BY <1>1
    <3> QED BY ONLY <2>1, <2>2, <2>3, <3>1
  <2>6. /\ FirstRetained' \in DOMAIN segments' /\ FirstRetained < FirstRetained'
        /\ FirstRetained' \in Nat
    <3>1. FirstRetained' \in DOMAIN segments'
      BY <2>5, MinOfNats DEF FirstRetained
    <3>2. FirstRetained <= FirstRetained' /\ FirstRetained # FirstRetained' /\ FirstRetained' \in Nat
      BY <1>1, <2>2, <2>4, <3>1
    <3> QED BY <2>4, <3>1, <3>2
  <2>7. durable.segment # FirstRetained
    <3>1. PICK b \in DOMAIN segments : b # FirstRetained
      BY <2>1, <2>4
    <3> QED BY <1>1, <2>3, <2>4, <3>1
  <2>8. ASSUME NEW i \in FirstRetained'..(Index(durable) - 1)
        PROVE  /\ i \in FirstRetained..(Index(durable) - 1)
               /\ SegmentFor(i)' = SegmentFor(i) /\ SegmentFor(i) # FirstRetained
    <3>1. i \in FirstRetained..(Index(durable) - 1)
      BY <1>1, <2>4, <2>6
    <3>2. /\ i \in Nat /\ SegmentFor(i) \in DOMAIN segments /\ SegmentFor(i) \in Nat /\ SegmentFor(i) <= i
          /\ \A x \in DOMAIN segments : x <= i => x <= SegmentFor(i)
      BY <2>3, <3>1, RetainedIndex
    <3>3. FirstRetained' <= SegmentFor(i) /\ FirstRetained' <= i
      BY <1>1, <2>2, <2>6, <3>2
    <3>4. SegmentFor(i) \in DOMAIN segments'
      BY <2>2, <2>4, <2>6, <3>2, <3>3
    <3>5. \A x \in DOMAIN segments' : x <= i => x <= SegmentFor(i)
      BY <2>2, <3>2
    <3>6. SegmentFor(i)' = SegmentFor(i)
      <4> DEFINE c == SegmentFor(i)
                 D == DOMAIN segments'
      <4>1. Min(D) <= i /\ c \in D /\ c <= i /\ (\A x \in D : x <= i => x <= c)
        BY <3>2, <3>3, <3>4, <3>5 DEF FirstRetained
      <4>2. SegmentFor(i)' = Max({x \in D : x <= i} \cup {Min(D)})
        BY DEF SegmentFor, FirstRetained
      <4> HIDE DEF c, D
      <4>3. D \in SUBSET Nat /\ D # {}
        BY <2>5 DEF D
      <4>4. Max({x \in D : x <= i} \cup {Min(D)}) = c
        BY <3>2, <4>1, <4>3, OneLastBase
      <4> QED BY <4>2, <4>4 DEF c
    <3>7. SegmentFor(i) # FirstRetained
      BY <2>2, <3>4
    <3> QED BY <3>1, <3>6, <3>7
  <2>9. RetainedIsReadable'
    <3>1. ASSUME NEW i \in FirstRetained'..(Index(durable) - 1)
          PROVE  LET b == SegmentFor(i)
                 IN  /\ b \in Bases' /\ i - b + 1 \in DOMAIN files'.segments[b]
                     /\ files'.segments[b][i - b + 1] = durable.prefix[i + 1]
                     /\ SegmentFor(i)' = b
      BY <1>3, <2>2, <2>3, <2>8 DEF RetainedIsReadable, ReadAt
    <3> QED BY <2>1, <3>1 DEF RetainedIsReadable, ReadAt, Index
  <2>10. OpenLines'
    <3>1. Appended = 0 /\ Appended' = 0
      BY <2>1 DEF Appended
    <3>2. files'.segments[durable.segment] = files.segments[durable.segment]
      BY <2>2, <2>3, <2>7
    <3> QED BY <2>1, <2>3, <3>1, <3>2 DEF OpenLines, Index
  <2> QED BY <2>1, <2>9, <2>10 DEF Layout, Created
\* Recovery reads what it verified.
<1>18. CASE RecoverReplay
  <2>1. CASE RecoverVerified
    <3>1. RetainedIsReadable'
      BY <1>1, <1>18, <2>1, RecoveredIsReadable
    <3> DEFINE read == [b \in Bases |-> SegmentOf(files.checkpoints[b])]
    <3>2. /\ mem' = [mem EXCEPT !.durable = cursor, !.segments = read] /\ pc' = "recoverFsync"
          /\ files'.segments = [files.segments EXCEPT ![cursor.segment] = Lines(cursor.segment)]
      BY <1>1, <1>18, <2>1 DEF RecoverReplay
    <3> HIDE DEF read
    <3>3. durable' = cursor
      BY <1>1, <3>2 DEF NoMemory, durable
    <3>4. cursor.segment \in Bases /\ SegmentVerified(cursor.segment)
      BY <2>1 DEF RecoverVerified
    <3>5. Len(Lines(cursor.segment)) = Index(cursor) - cursor.segment
      BY <1>1, <3>4, LinesType
    <3>6. files'.segments[cursor.segment] = Lines(cursor.segment)
      BY <3>2, <3>4 DEF Bases
    <3>7. Appended' = 0
      BY <3>2 DEF Appended
    <3>8. cursor.segment \in Nat
      BY <1>1 DEF Cursor
    <3>9. OpenLines'
      BY <1>1, <3>3, <3>5, <3>6, <3>7, <3>8 DEF OpenLines, Index
    <3> QED BY <3>1, <3>2, <3>9 DEF Layout
  <2>2. CASE ~RecoverVerified
    <3>1. segments = <<>> /\ pc' = "refused" /\ mem' = mem
      BY <1>18, <2>2 DEF RecoverReplay, Batch
    <3>2. segments' = <<>>
      BY <3>1 DEF segments
    <3> QED BY <3>1, <3>2, NothingOpen
  <2> QED BY <2>1, <2>2
\* A new stream has one empty segment.
<1>19. CASE Initialized
  <2>1. /\ pc = "initCursorSync" /\ pc' = "idle" /\ files' = files
        /\ cursor' = cursor /\ durable' = cursor /\ staged' = staged
        /\ segments' = [b \in {Index(cursor)} |-> SegmentOf(cursor)]
    BY <1>1, <1>19 DEF Initialized, CursorSynced, NoMemory, cursor, durable, staged, segments
  <2>2. Index(cursor) = 0 /\ cursor.segment = 0 /\ files.segments[0] = <<>> /\ 0 \in Bases
    BY <1>3, <2>1 DEF TypeInv, OpenSegment
  <2>3. DOMAIN segments' = {0}
    BY <2>1, <2>2
  <2>4. FirstRetained' = 0
    <3>1. {0} \in SUBSET Nat /\ {0} # {}
      OBVIOUS
    <3>2. Min({0}) \in {0}
      BY <3>1, MinOfNats
    <3> QED BY <2>3, <3>2 DEF FirstRetained
  <2>5. RetainedIsReadable'
    <3>1. 0..(0 - 1) = {}
      OBVIOUS
    <3>2. FirstRetained'..(Index(durable)' - 1) = {}
      BY <2>1, <2>2, <2>4, <3>1 DEF Index
    <3> QED BY <3>2 DEF RetainedIsReadable
  <2>6. OpenLines'
    <3>1. Appended' = 0
      BY <2>1 DEF Appended
    <3> QED BY <2>1, <2>2, <3>1, EmptySeq DEF OpenLines, Index
  <2> QED BY <2>1, <2>5, <2>6 DEF Layout
\* The predecessor is no message.
<1>20. CASE Anchored
  <2>1. /\ pc = "anchorSync" /\ pc' = "idle" /\ files' = files
        /\ cursor' = files.cursor /\ durable' = files.cursor /\ staged' = staged /\ segments' = segments
    BY <1>1, <1>20 DEF Anchored, CursorSynced, NoMemory, cursor, durable, staged, segments
  <2>2. durable.prefix = cursor.prefix
    BY <1>1, <2>1, SplitsNothing DEF Batch
  <2>3. /\ files.cursor.prefix = durable.prefix /\ files.cursor.segment = durable.segment
    BY <2>1, <2>2 DEF TypeInv, OpenSegment
  <2>4. RetainedIsReadable'
    BY <1>1, <1>2, <1>3, <2>1, <2>3, StillReadable, BeginsReflexive DEF Bases
  <2>5. OpenLines'
    BY <1>3, <2>1, <2>3 DEF OpenLines, Appended, Index
  <2> QED BY <2>1, <2>4, <2>5 DEF Layout
\* What is staged is not in the files yet.
<1>21. ASSUME NEW m \in Candidates, Stage(m) PROVE Layout'
  <2>1. /\ pc = "idle" /\ pc' = "idle" /\ files' = files /\ durable' = durable /\ segments' = segments
    BY <1>1, <1>21 DEF Stage, NoMemory, durable, segments
  <2>2. RetainedIsReadable'
    BY <1>1, <1>2, <1>3, <2>1, StillReadable, BeginsReflexive DEF Bases
  <2>3. OpenLines'
    <3>1. Appended = 0 /\ Appended' = 0
      BY <2>1 DEF Appended
    <3> QED BY <1>3, <2>1, <3>1 DEF OpenLines, Index
  <2> QED BY <2>1, <2>2, <2>3 DEF Layout
<1> HIDE DEF Initializing, Closed, Gathering, Reporting, Reopening, Sealing, Usable, Created
<1> QED
  BY <1>6, <1>7, <1>8, <1>10, <1>11, <1>12, <1>13, <1>14, <1>15, <1>16, <1>17, <1>18, <1>19,
     <1>20, <1>21
     DEF Next, Working, Producing, Faulting

LEMMA RetentionInit ==
  ASSUME Init
  PROVE  RetentionInv
<1>1. pc = "down" /\ mem = NoMemory
  BY DEF Init
<1>2. staged = <<>> /\ segments = <<>> /\ DOMAIN segments = {}
  BY <1>1, EmptySeq DEF NoMemory, staged, segments
<1>3. Batch
  BY <1>1, <1>2 DEF Batch, Closed, Initializing, Gathering, Reporting, Reopening, Sealing
<1>4. Layout
  BY <1>1, <1>2 DEF Layout, RetainedIsReadable, Opened, Usable, Gathering, Reporting, Reopening, Sealing
<1> QED BY <1>3, <1>4 DEF RetentionInv

\* RetentionInv is an inductive invariant, relative to the types.
THEOREM RetentionInvariance == Spec => []RetentionInv
<1>1. Init => RetentionInv
  BY RetentionInit
<1>2. TypeInv /\ RetentionInv /\ [Next]_vars => RetentionInv'
  BY BatchStep, LayoutStep DEF RetentionInv
<1> QED BY <1>1, <1>2, TypeInvariance, PTL DEF Spec

\* At every step of a commit, a seal, an expiry, an initialization and a
\* recovery, whatever a kill or a power loss left behind, the segments that
\* state.cpp counts as retained read as the contiguous end of the committed
\* stream.
THEOREM RetainedAlwaysReadable == Spec => []RetainedIsReadable
<1>1. RetentionInv => RetainedIsReadable
  BY DEF RetentionInv, Layout
<1> QED BY <1>1, RetentionInvariance, PTL

-----------------------------------------------------------------------------
(* The states advance() runs through over a stream.                        *)

Fresh == [seq |-> 0, cut |-> Start, last |-> -1]
Before(s, pred) == [pred |-> pred, seq |-> s.seq, cut |-> s.cut, last |-> s.last]

\* h are the states before the first message of p and after each.
Run(h, p, pred) ==
  /\ h \in [0..Len(p) -> Segment] /\ h[0] = Fresh
  /\ \A k \in 1..Len(p) :
       /\ CanAdvance(Before(h[k - 1], pred), p[k]) /\ h[k] = Advance(h[k - 1], p[k])
       /\ p[k].type # "tick" => p[k].id = 0

\* Of numbers up to n, none is bad if 0 is not and each bad one follows a bad one.
LEMMA NoneIsBad ==
  ASSUME NEW n \in Nat, NEW Bad \in SUBSET (0..n), 0 \notin Bad,
         \A k \in 1..n : k \in Bad => k - 1 \in Bad
  PROVE  Bad = {}
<1> SUFFICES ASSUME Bad # {} PROVE FALSE
  OBVIOUS
<1>1. Bad \in SUBSET Nat
  OBVIOUS
<1>2. Min(Bad) \in Bad /\ \A y \in Bad : Min(Bad) <= y
  BY <1>1, MinOfNats
<1> DEFINE m == Min(Bad)
<1> HIDE DEF m
<1>3. m \in 1..n /\ m \in Bad /\ m - 1 \in Nat
  <2>1. m \in Bad /\ m \in 0..n /\ m # 0
    BY <1>2 DEF m
  <2> QED BY <2>1
<1>4. m - 1 \in Bad
  BY <1>3
<1>5. m <= m - 1 /\ m \in Nat
  BY <1>2, <1>3, <1>4 DEF m
<1> QED BY <1>5

\* One message of a run.
LEMMA RunStep ==
  ASSUME NEW h, NEW p \in Seq(Message), NEW pred \in Nat, Run(h, p, pred), NEW k \in 1..Len(p)
  PROVE  /\ p[k] \in Message /\ h[k - 1] \in Segment /\ h[k] \in Segment /\ k - 1 \in 0..Len(p) /\ k \in Nat
         /\ h[k - 1].cut \in Nat /\ h[k].cut \in Nat /\ h[k - 1].seq \in Nat /\ h[k].seq \in Nat
         /\ h[k - 1].last \in Int /\ h[k].last \in Int
         /\ \/ /\ p[k].type = "tick" /\ Mode = "ticks" /\ p[k].id = h[k].seq /\ h[k - 1].seq < h[k].seq
               /\ h[k].cut = h[k - 1].cut /\ h[k].last = p[k].ts
               /\ h[k].cut <= p[k].ts /\ p[k].ts < h[k].cut + Minute /\ h[k - 1].last <= h[k].last
            \/ /\ p[k].type = "bar" /\ Mode = "bars" /\ p[k].id = 0 /\ h[k].seq = h[k - 1].seq
               /\ h[k].cut = h[k - 1].cut + Minute /\ h[k].last = h[k - 1].last
               /\ p[k].ts = h[k - 1].cut
            \/ /\ p[k].type = "time" /\ Mode = "ticks" /\ p[k].id = 0 /\ h[k].seq = h[k - 1].seq
               /\ h[k].cut = h[k - 1].cut + Minute /\ h[k].last = h[k - 1].last
               /\ p[k].ts = h[k].cut /\ h[k].last < h[k].cut
<1>1. k - 1 \in 0..Len(p) /\ k \in 0..Len(p) /\ k \in Nat
  BY LenProperties
<1>2. p[k] \in Message /\ h[k - 1] \in Segment /\ h[k] \in Segment
  BY <1>1, ElementOfSeq DEF Run
<1>3. /\ CanAdvance(Before(h[k - 1], pred), p[k]) /\ h[k] = Advance(h[k - 1], p[k])
      /\ p[k].type # "tick" => p[k].id = 0
  BY DEF Run
<1>4. Minute \in Nat \ {0}
  BY JournalAssumption
<1> DEFINE s == h[k - 1]
           m == p[k]
<1>5. s \in Segment /\ m \in Message /\ CanAdvance(Before(s, pred), m) /\ h[k] = Advance(s, m)
      /\ (m.type # "tick" => m.id = 0)
  BY <1>2, <1>3
<1> HIDE DEF s, m
<1>6. s.cut \in Nat /\ s.seq \in Nat /\ s.last \in Int /\ m.ts \in Nat /\ m.id \in Nat
  BY <1>5 DEF Segment, Message
<1>7. CASE m.type = "tick"
  <2>1. h[k] = [seq |-> m.id, cut |-> s.cut, last |-> m.ts]
    BY <1>5, <1>7 DEF Advance, Segment
  <2>2. Mode = "ticks" /\ m.ts >= s.cut /\ m.ts < s.cut + Minute /\ m.ts >= s.last /\ s.seq < m.id
    BY <1>5, <1>6, <1>7 DEF CanAdvance, Before, Previous
  <2> QED BY <1>1, <1>2, <1>4, <1>6, <1>7, <2>1, <2>2 DEF s, m, Segment
<1>8. CASE m.type = "bar"
  <2>1. h[k] = [seq |-> s.seq, cut |-> s.cut + Minute, last |-> s.last]
    BY <1>5, <1>8 DEF Advance, Segment
  <2>2. Mode = "bars" /\ m.ts = s.cut /\ m.id = 0
    BY <1>5, <1>6, <1>8 DEF CanAdvance, Before, Previous
  <2> QED BY <1>1, <1>2, <1>4, <1>6, <1>8, <2>1, <2>2 DEF s, m, Segment
<1>9. CASE m.type = "time"
  <2>1. h[k] = [seq |-> s.seq, cut |-> m.ts, last |-> s.last]
    BY <1>5, <1>9 DEF Advance, Segment
  <2>2. Mode = "ticks" /\ m.ts = s.cut + Minute /\ m.ts > s.last /\ m.id = 0
    BY <1>5, <1>6, <1>9 DEF CanAdvance, Before, Previous
  <2> QED BY <1>1, <1>2, <1>4, <1>6, <1>9, <2>1, <2>2 DEF s, m, Segment
<1> QED BY <1>5, <1>7, <1>8, <1>9 DEF Message

\* ... and neither the open minute nor the newest print goes back.
LEMMA RunStepGrows ==
  ASSUME NEW h, NEW p \in Seq(Message), NEW pred \in Nat, Run(h, p, pred), NEW k \in 1..Len(p)
  PROVE  /\ k - 1 \in Nat /\ k \in Nat /\ k - 1 \in 0..Len(p)
         /\ h[k - 1].cut \in Nat /\ h[k].cut \in Nat /\ h[k - 1].seq \in Nat /\ h[k].seq \in Nat
         /\ h[k - 1].cut <= h[k].cut /\ h[k - 1].seq <= h[k].seq
<1> DEFINE x == h[k - 1]
           y == h[k]
           m == p[k]
<1>1. Minute \in Nat
  BY JournalAssumption
<1>2. /\ k - 1 \in 0..Len(p) /\ k \in Nat
      /\ x.cut \in Nat /\ y.cut \in Nat /\ x.seq \in Nat /\ y.seq \in Nat
      /\ \/ y.cut = x.cut /\ x.seq < y.seq
         \/ y.cut = x.cut + Minute /\ y.seq = x.seq
  BY RunStep
<1> HIDE DEF x, y
<1>3. x.cut <= y.cut /\ x.seq <= y.seq
  BY <1>1, <1>2
<1> QED BY <1>2, <1>3 DEF x, y

\* Over a run the open minute, the newest print and its time only grow.
LEMMA RunGrows ==
  ASSUME NEW h, NEW p \in Seq(Message), NEW pred \in Nat, Run(h, p, pred),
         NEW j \in 0..Len(p), NEW i \in 0..j
  PROVE  h[i].cut <= h[j].cut /\ h[i].seq <= h[j].seq
<1> DEFINE n == Len(p)
           Bad == {k \in 0..n : i <= k /\ ~ (h[i].cut <= h[k].cut /\ h[i].seq <= h[k].seq)}
<1>0. n \in Nat /\ i \in 0..n /\ j \in Nat /\ i \in Nat
  BY LenProperties
<1>1. h[i].cut \in Nat /\ h[i].seq \in Nat
  BY <1>0 DEF Run, Segment
<1>2. 0 \notin Bad
  <2>1. i <= 0 => i = 0
    BY <1>0
  <2> QED BY <1>1, <2>1
<1>3. ASSUME NEW k \in 1..n, k \in Bad PROVE k - 1 \in Bad
  <2>1. /\ k - 1 \in Nat /\ k \in Nat /\ k - 1 \in 0..Len(p)
        /\ h[k - 1].cut \in Nat /\ h[k].cut \in Nat /\ h[k - 1].seq \in Nat /\ h[k].seq \in Nat
        /\ h[k - 1].cut <= h[k].cut /\ h[k - 1].seq <= h[k].seq
    <3> HIDE DEF Bad
    <3>1. k \in 1..Len(p)
      BY <1>3
    <3> HIDE DEF n
    <3> QED BY <3>1, RunStepGrows
  <2>2. i <= k /\ ~ (h[i].cut <= h[k].cut /\ h[i].seq <= h[k].seq)
    BY <1>3
  <2>3. i # k
    BY <1>1, <2>2
  <2>4. i <= k - 1
    BY <1>0, <2>1, <2>2, <2>3
  <2>5. ~ (h[i].cut <= h[k - 1].cut /\ h[i].seq <= h[k - 1].seq)
    <3> DEFINE a == h[i]
               x == h[k - 1]
               y == h[k]
    <3>1. /\ a.cut \in Nat /\ x.cut \in Nat /\ y.cut \in Nat /\ a.seq \in Nat /\ x.seq \in Nat /\ y.seq \in Nat
          /\ x.cut <= y.cut /\ x.seq <= y.seq /\ ~ (a.cut <= y.cut /\ a.seq <= y.seq)
      BY <1>1, <2>1, <2>2
    <3> HIDE DEF a, x, y
    <3>2. ~ (a.cut <= x.cut /\ a.seq <= x.seq)
      BY <3>1
    <3> QED BY <3>2 DEF a, x
  <2> QED BY <1>0, <2>1, <2>4, <2>5
<1>4. Bad = {}
  <2> HIDE DEF n
  <2>1. Bad \in SUBSET (0..n)
    OBVIOUS
  <2> HIDE DEF Bad
  <2> QED BY <1>0, <1>2, <1>3, <2>1, NoneIsBad
<1>5. j \in 0..n /\ i <= j
  BY <1>0
<1> QED BY <1>4, <1>5

\* Two runs over the same messages are the same.
LEMMA RunsAgree ==
  ASSUME NEW h, NEW p \in Seq(Message), NEW a \in Nat, Run(h, p, a),
         NEW g, NEW q \in Seq(Message), NEW b \in Nat, Run(g, q, b),
         Begins(p, q), NEW j \in 0..Len(p)
  PROVE  h[j] = g[j]
<1> DEFINE n == Len(p)
           Bad == {k \in 0..n : h[k] # g[k]}
<1>0. n \in Nat /\ Len(q) \in Nat /\ n <= Len(q)
  BY LenProperties DEF Begins
<1>1. 0 \notin Bad
  BY DEF Run
<1>2. ASSUME NEW k \in 1..n, k \in Bad PROVE k - 1 \in Bad
  <2>1. k \in 1..Len(q) /\ k - 1 \in 0..n /\ q[k] = p[k]
    BY <1>0 DEF Begins
  <2>2. h[k] = Advance(h[k - 1], p[k]) /\ g[k] = Advance(g[k - 1], q[k])
    BY <2>1 DEF Run
  <2>3. h[k - 1] # g[k - 1]
    BY <1>2, <2>1, <2>2
  <2> QED BY <2>1, <2>3
<1>3. Bad = {}
  <2> HIDE DEF n
  <2>1. Bad \in SUBSET (0..n)
    OBVIOUS
  <2> HIDE DEF Bad
  <2> QED BY <1>0, <1>1, <1>2, <2>1, NoneIsBad
<1> QED BY <1>3

\* A run goes on with a message that advance() accepts.
LEMMA RunGoesOn ==
  ASSUME NEW h, NEW p \in Seq(Message), NEW a \in Nat, Run(h, p, a),
         NEW m \in Message, CanAdvance(Before(h[Len(p)], a), m), m.type # "tick" => m.id = 0,
         Advance(h[Len(p)], m) \in Segment
  PROVE  LET g == [k \in 0..Len(p) + 1 |-> IF k <= Len(p) THEN h[k] ELSE Advance(h[Len(p)], m)]
         IN  Run(g, Append(p, m), a) /\ g[Len(p) + 1] = Advance(h[Len(p)], m)
<1> DEFINE n == Len(p)
           x == Advance(h[Len(p)], m)
           g == [k \in 0..n + 1 |-> IF k <= n THEN h[k] ELSE x]
           q == Append(p, m)
<1>0. n \in Nat /\ n + 1 \in 0..n + 1 /\ ~ (n + 1 <= n)
  BY LenProperties
<1>1. Len(q) = n + 1 /\ (\A k \in 1..n : q[k] = p[k]) /\ q[n + 1] = m
  BY AppendProperties
<1>2. /\ CanAdvance(Before(h[n], a), m) /\ x = Advance(h[n], m)
      /\ (\A k \in 0..n : h[k] \in Segment) /\ x \in Segment /\ h[0] = Fresh
      /\ \A k \in 1..n :
           /\ CanAdvance(Before(h[k - 1], a), p[k]) /\ h[k] = Advance(h[k - 1], p[k])
           /\ p[k].type # "tick" => p[k].id = 0
  BY DEF Run
<1> HIDE DEF q, x, n
<1>3. (\A k \in 0..n : g[k] = h[k]) /\ g[n + 1] = x
  BY <1>0
<1>4. g \in [0..n + 1 -> Segment]
  BY <1>0, <1>2
<1>5. g[0] = Fresh
  BY <1>0, <1>2
<1> HIDE DEF g
<1>6. ASSUME NEW k \in 1..n + 1
      PROVE  /\ CanAdvance(Before(g[k - 1], a), q[k]) /\ g[k] = Advance(g[k - 1], q[k])
             /\ q[k].type # "tick" => q[k].id = 0
  <2>1. CASE k = n + 1
    <3>1. g[k] = x /\ q[k] = m /\ g[k - 1] = h[n]
      BY <1>0, <1>1, <1>3, <2>1
    <3> QED BY <1>2, <3>1
  <2>2. CASE k # n + 1
    <3>1. k \in 1..n /\ k \in 0..n /\ k - 1 \in 0..n
      BY <1>0, <2>2
    <3>2. g[k] = h[k] /\ q[k] = p[k] /\ g[k - 1] = h[k - 1]
      BY <1>1, <1>3, <3>1
    <3> QED BY <1>2, <3>1, <3>2
  <2> QED BY <2>1, <2>2
<1>7. Run(g, q, a)
  BY <1>1, <1>4, <1>5, <1>6 DEF Run
<1> QED BY <1>3, <1>7 DEF g, q, x, n

\* A time from the q-th minute on, and before the next, is of the q-th.
LEMMA WithinMinute ==
  ASSUME NEW q \in Nat, NEW t \in Nat, q * Minute <= t, t < q * Minute + Minute
  PROVE  t - (t % Minute) = q * Minute
<1>1. Minute \in Nat \ {0}
  BY JournalAssumption
<1>2. t = Minute * (t \div Minute) + (t % Minute) /\ t % Minute \in 0..(Minute - 1) /\ t \div Minute \in Int
  BY <1>1
<1> DEFINE a == t \div Minute
           r == t % Minute
<1>3. a \in Int /\ r \in Int /\ 0 <= r /\ r < Minute /\ t = Minute * a + r
  BY <1>1, <1>2
<1> HIDE DEF a, r
<1>4. ASSUME a >= q + 1 PROVE FALSE
  <2>1. Minute * a >= Minute * (q + 1) /\ Minute * (q + 1) = q * Minute + Minute
    BY <1>1, <1>3, <1>4
  <2> QED BY <1>1, <1>3, <2>1
<1>5. ASSUME q >= a + 1 PROVE FALSE
  <2>1. Minute * q >= Minute * (a + 1) /\ Minute * (a + 1) = Minute * a + Minute /\ Minute * q = q * Minute
    BY <1>1, <1>3, <1>5
  <2> QED BY <1>1, <1>3, <2>1
<1>6. a = q
  BY <1>3, <1>4, <1>5
<1>7. Minute * a = q * Minute /\ Minute * a \in Int
  BY <1>1, <1>6
<1>8. t - r = Minute * a
  BY <1>3, <1>7
<1> QED BY <1>7, <1>8 DEF r

\* Every message of a run is of the minute that is open before it.
LEMMA RunMinutes ==
  ASSUME NEW h, NEW p \in Seq(Message), NEW pred \in Nat, Run(h, p, pred)
  PROVE  \A k \in 1..Len(p) : MinuteOf(p[k]) = h[k - 1].cut
<1> DEFINE n == Len(p)
           Bad == {k \in 0..n : ~ \E q \in Nat : h[k].cut = q * Minute}
<1>0. n \in Nat /\ Minute \in Nat
  BY LenProperties, JournalAssumption
<1>1. 0 \notin Bad
  <2>1. h[0].cut = 1 * Minute
    BY <1>0 DEF Run, Fresh, Start
  <2> QED BY <2>1
<1>2. ASSUME NEW k \in 1..n, k \in Bad PROVE k - 1 \in Bad
  <2>1. k - 1 \in 0..n /\ h[k - 1].cut \in Nat /\ (h[k].cut = h[k - 1].cut \/ h[k].cut = h[k - 1].cut + Minute)
    BY RunStep
  <2>2. SUFFICES ASSUME NEW q \in Nat, h[k - 1].cut = q * Minute PROVE FALSE
    BY <2>1
  <2>3. (q + 1) * Minute = q * Minute + Minute
    BY <1>0
  <2>4. q + 1 \in Nat
    OBVIOUS
  <2> QED BY <1>2, <2>1, <2>2, <2>3, <2>4
<1>3. Bad = {}
  <2> HIDE DEF n
  <2>1. Bad \in SUBSET (0..n)
    OBVIOUS
  <2> HIDE DEF Bad
  <2> QED BY <1>0, <1>1, <1>2, <2>1, NoneIsBad
<1> SUFFICES ASSUME NEW k \in 1..n PROVE MinuteOf(p[k]) = h[k - 1].cut
  OBVIOUS
<1>4. k - 1 \in 0..n
  BY <1>0
<1>5. PICK q \in Nat : h[k - 1].cut = q * Minute
  BY <1>3, <1>4
<1>6. p[k] \in Message /\ h[k - 1].cut \in Nat
  BY RunStep
<1>7. CASE p[k].type = "tick"
  <2>1. h[k].cut = h[k - 1].cut /\ h[k].cut <= p[k].ts /\ p[k].ts < h[k].cut + Minute
    BY <1>7, RunStep
  <2>2. h[k - 1].cut <= p[k].ts /\ p[k].ts < h[k - 1].cut + Minute
    BY <2>1
  <2>3. p[k].ts \in Nat
    BY <1>6 DEF Message
  <2> QED BY <1>5, <1>7, <2>2, <2>3, WithinMinute DEF MinuteOf
<1>8. CASE p[k].type = "time"
  <2>1. p[k].ts = h[k - 1].cut + Minute
    BY <1>8, RunStep
  <2> QED BY <1>0, <1>6, <1>8, <2>1 DEF MinuteOf
<1>9. CASE p[k].type = "bar"
  <2>1. p[k].ts = h[k - 1].cut
    BY <1>9, RunStep
  <2> QED BY <1>9, <2>1 DEF MinuteOf
<1> QED BY <1>6, <1>7, <1>8, <1>9 DEF Message

\* The newest print is in the open minute only if the minute has one.
LEMMA RunPrints ==
  ASSUME NEW h, NEW p \in Seq(Message), NEW pred \in Nat, Run(h, p, pred), Mode = "ticks",
         NEW j \in 0..Len(p), h[j].last >= h[j].cut
  PROVE  \E i \in 1..j : h[i - 1].cut = h[j].cut
<1> DEFINE n == Len(p)
           Bad == {k \in 0..n : h[k].last >= h[k].cut /\ ~ \E i \in 1..k : h[i - 1].cut = h[k].cut}
<1>0. n \in Nat
  BY LenProperties
<1>1. 0 \notin Bad
  BY JournalAssumption DEF Run, Fresh, Start
<1>2. ASSUME NEW k \in 1..n, k \in Bad PROVE k - 1 \in Bad
  <2>1. k - 1 \in 0..n /\ k \in Nat /\ h[k - 1].cut \in Nat /\ h[k].cut \in Nat /\ h[k].last \in Int
    BY RunStep
  <2>2. h[k].last >= h[k].cut /\ ~ \E i \in 1..k : h[i - 1].cut = h[k].cut
    BY <1>2
  <2>3. k \in 1..k
    BY <2>1
  <2>4. h[k - 1].cut # h[k].cut
    BY <2>2, <2>3
  <2>5. ~ (h[k].last < h[k].cut)
    BY <2>1, <2>2
  <2> QED BY <2>4, <2>5, RunStep
<1>3. Bad = {}
  <2> HIDE DEF n
  <2>1. Bad \in SUBSET (0..n)
    OBVIOUS
  <2> HIDE DEF Bad
  <2> QED BY <1>0, <1>1, <1>2, <2>1, NoneIsBad
<1> QED BY <1>3

\* The newest print that is after the i-th message is among those after it.
LEMMA RunNewest ==
  ASSUME NEW h, NEW p \in Seq(Message), NEW pred \in Nat, Run(h, p, pred),
         NEW j \in 0..Len(p), NEW i \in 0..j, h[i].seq < h[j].seq
  PROVE  \E k \in i + 1..j : p[k].id = h[j].seq
<1> DEFINE n == Len(p)
           Bad == {k \in 0..n : i <= k /\ h[i].seq < h[k].seq /\ ~ \E l \in i + 1..k : p[l].id = h[k].seq}
<1>0. n \in Nat /\ i \in 0..n /\ j \in Nat /\ i \in Nat /\ j \in 0..n /\ i <= j
  BY LenProperties
<1>1. 0 \notin Bad
  <2>1. i <= 0 => i = 0
    BY <1>0
  <2>2. h[i].seq \in Nat
    BY <1>0 DEF Run, Segment
  <2> QED BY <2>1, <2>2
<1>2. ASSUME NEW k \in 1..n, k \in Bad PROVE k - 1 \in Bad
  <2>1. k - 1 \in 0..n /\ k \in Nat /\ h[k - 1].seq \in Nat /\ h[k].seq \in Nat
        /\ (h[k].seq = h[k - 1].seq \/ p[k].id = h[k].seq)
    BY RunStep
  <2>2. i <= k /\ h[i].seq < h[k].seq /\ ~ \E l \in i + 1..k : p[l].id = h[k].seq
    BY <1>2
  <2>3. i # k
    BY <2>1, <2>2
  <2>4. k \in i + 1..k /\ i <= k - 1
    BY <1>0, <2>1, <2>2, <2>3
  <2>5. h[k].seq = h[k - 1].seq
    BY <2>1, <2>2, <2>4
  <2>6. \A l \in i + 1..k - 1 : l \in i + 1..k
    BY <1>0, <2>1
  <2>7. ~ \E l \in i + 1..k - 1 : p[l].id = h[k - 1].seq
    BY <2>2, <2>5, <2>6
  <2>8. h[i].seq < h[k - 1].seq
    BY <2>2, <2>5
  <2> HIDE DEF n
  <2> QED BY <2>1, <2>4, <2>7, <2>8
<1>3. Bad = {}
  <2> HIDE DEF n
  <2>1. Bad \in SUBSET (0..n)
    OBVIOUS
  <2> HIDE DEF Bad
  <2> QED BY <1>0, <1>1, <1>2, <2>1, NoneIsBad
<1> QED BY <1>0, <1>3
-----------------------------------------------------------------------------
(* Every cursor and checkpoint is where its stream leads.                  *)

\* advance() accepts the stream that c names, and leads to the counters of c.
Truthful(c) == \E h : Run(h, c.prefix, c.pred) /\ h[Len(c.prefix)] = SegmentOf(c)

\* The proofs are of minutes that are closed, in the order they were closed in.
Proven(c) ==
  \A k \in 1..Len(c.proofs) : c.proofs[k] < c.cut /\ \A j \in 1..k : c.proofs[j] <= c.proofs[k]

Honest(c) == Truthful(c) /\ Proven(c)
HonestFiles(f) == Honest(f.cursor) /\ \A b \in DOMAIN f.checkpoints : Truthful(f.checkpoints[b])

Truth == HonestFiles(files) /\ HonestFiles(disk) /\ Honest(cursor) /\ Honest(durable)

\* What is known of a retained segment is the state of the stream at its base.
Known ==
  \A b \in DOMAIN segments :
    /\ b <= Index(durable)
    /\ \A h : Run(h, durable.prefix, durable.pred) => segments[b] = h[b]

HistoryInv == Truth /\ Known

\* Truth reads neither the epoch nor the open segment, and of an empty stream
\* not the predecessor.
LEMMA SameTruth ==
  ASSUME NEW c \in Cursor, Honest(c)
  PROVE  /\ Truthful(CheckpointOf(c)) /\ \A b \in Nat : Honest([c EXCEPT !.segment = b])
         /\ c.prefix = <<>> => \A p \in PredIds : Honest([c EXCEPT !.pred = p])
<1>1. {"pred", "segment"} \subseteq DOMAIN c
  BY DEF Cursor
<1>2. Truthful(CheckpointOf(c))
  BY DEF Honest, Truthful, CheckpointOf, SegmentOf
<1>3. ASSUME NEW b \in Nat PROVE Honest([c EXCEPT !.segment = b])
  <2> DEFINE d == [c EXCEPT !.segment = b]
  <2>1. /\ d.prefix = c.prefix /\ d.pred = c.pred /\ d.proofs = c.proofs /\ d.cut = c.cut
        /\ d.seq = c.seq /\ d.last = c.last
    BY <1>1 DEF Cursor
  <2> HIDE DEF d
  <2>2. SegmentOf(d) = SegmentOf(c)
    BY <2>1 DEF SegmentOf
  <2>3. Honest(d)
    BY <2>1, <2>2 DEF Honest, Truthful, Proven
  <2> QED BY <2>3 DEF d
<1>4. ASSUME c.prefix = <<>>, NEW p \in PredIds PROVE Honest([c EXCEPT !.pred = p])
  <2> DEFINE d == [c EXCEPT !.pred = p]
  <2>1. /\ d.prefix = c.prefix /\ d.proofs = c.proofs /\ d.cut = c.cut
        /\ d.seq = c.seq /\ d.last = c.last
    BY <1>1 DEF Cursor
  <2> HIDE DEF d
  <2>2. SegmentOf(d) = SegmentOf(c)
    BY <2>1 DEF SegmentOf
  <2>3. PICK h : Run(h, c.prefix, c.pred) /\ h[Len(c.prefix)] = SegmentOf(c)
    BY DEF Honest, Truthful
  <2>4. Run(h, d.prefix, d.pred)
    <3>1. 1..Len(c.prefix) = {}
      BY <1>4, EmptySeq
    <3> QED BY <2>1, <2>3, <3>1 DEF Run
  <2>5. Truthful(d)
    BY <2>1, <2>2, <2>3, <2>4 DEF Truthful
  <2>6. Honest(d)
    BY <2>1, <2>5 DEF Honest, Proven
  <2> QED BY <2>6 DEF d
<1> QED BY <1>2, <1>3, <1>4

\* A new stream is.
LEMMA FreshTruth ==
  ASSUME NEW e
  PROVE  Honest(FreshCursor(e))
<1> DEFINE c == FreshCursor(e)
           h == [k \in 0..0 |-> Fresh]
<1>1. /\ c.prefix = <<>> /\ c.proofs = <<>> /\ SegmentOf(c) = Fresh
      /\ Len(<<>>) = 0 /\ 1..0 = {}
  BY EmptySeq DEF FreshCursor, SegmentOf, Fresh
<1>2. Fresh \in Segment
  BY JournalAssumption DEF Fresh, Segment, Start
<1>3. h \in [0..0 -> Segment] /\ h[0] = Fresh
  BY <1>2
<1> HIDE DEF h, c
<1>4. Run(h, c.prefix, c.pred) /\ h[Len(c.prefix)] = SegmentOf(c)
  BY <1>1, <1>3 DEF Run
<1>5. Proven(c)
  BY <1>1 DEF Proven
<1> QED BY <1>4, <1>5 DEF Honest, Truthful, c

\* The window of proofs stays in order when a minute after all of them closes.
LEMMA ProofsStayInOrder ==
  ASSUME NEW q \in Seq(Nat), NEW t \in Nat, NEW u \in Nat, t < u,
         \A k \in 1..Len(q) : q[k] < t /\ \A j \in 1..k : q[j] <= q[k]
  PROVE  \A k \in 1..Len(PushProof(q, t)) :
           /\ PushProof(q, t)[k] < u /\ \A j \in 1..k : PushProof(q, t)[j] <= PushProof(q, t)[k]
<1> DEFINE l == Append(q, t)
           n == Len(q)
<1>0. n \in Nat /\ \A k \in 1..n : q[k] \in Nat
  BY LenProperties, ElementOfSeq
<1>1. l \in Seq(Nat) /\ Len(l) = n + 1 /\ (\A k \in 1..n : l[k] = q[k]) /\ l[n + 1] = t /\ l # <<>>
  <2>1. l \in Seq(Nat) /\ Len(l) = n + 1 /\ (\A k \in 1..n : l[k] = q[k]) /\ l[n + 1] = t
    BY AppendProperties
  <2>2. l # <<>>
    <3>1. Len(<<>>) = 0 /\ n + 1 # 0
      BY <1>0
    <3> HIDE DEF l, n
    <3> QED BY <2>1, <3>1
  <2> QED BY <2>1, <2>2
<1> HIDE DEF l, n
<1>2. ASSUME NEW k \in 1..n + 1
      PROVE  l[k] \in Nat /\ l[k] < u /\ \A j \in 1..k : l[j] <= l[k]
  <2>1. CASE k = n + 1
    <3>1. l[k] = t
      BY <1>1, <2>1
    <3>2. ASSUME NEW j \in 1..k PROVE l[j] <= l[k]
      <4>1. CASE j = n + 1
        BY <1>1, <3>1, <4>1
      <4>2. CASE j # n + 1
        <5>1. j \in 1..n
          BY <1>0, <2>1, <4>2
        <5>2. l[j] = q[j] /\ q[j] \in Nat /\ q[j] < t
          BY <1>0, <1>1, <5>1 DEF n
        <5> QED BY <3>1, <5>2
      <4> QED BY <4>1, <4>2
    <3> QED BY <3>1, <3>2
  <2>2. CASE k # n + 1
    <3>1. k \in 1..n /\ \A j \in 1..k : j \in 1..n
      BY <1>0, <2>2
    <3>2. l[k] = q[k] /\ q[k] \in Nat /\ q[k] < t /\ \A j \in 1..k : q[j] <= q[k]
      BY <1>0, <1>1, <3>1 DEF n
    <3>3. \A j \in 1..k : l[j] = q[j]
      BY <1>1, <3>1
    <3> QED BY <3>2, <3>3
  <2> QED BY <2>1, <2>2
<1>3. CASE Len(l) > MaxProofs
  <2>1. PushProof(q, t) = Tail(l)
    BY <1>3 DEF PushProof, l
  <2>2. Len(Tail(l)) = n /\ \A k \in 1..n : Tail(l)[k] = l[k + 1]
    BY <1>0, <1>1, HeadTailProperties
  <2> DEFINE r == Tail(l)
  <2> HIDE DEF r
  <2>3. ASSUME NEW k \in 1..n PROVE r[k] < u /\ \A j \in 1..k : r[j] <= r[k]
    <3>1. k + 1 \in 1..n + 1 /\ \A j \in 1..k : j \in 1..n /\ j + 1 \in 1..k + 1
      BY <1>0
    <3> QED BY <1>2, <2>2, <3>1 DEF r
  <2> QED BY <2>1, <2>2, <2>3 DEF r
<1>4. CASE ~(Len(l) > MaxProofs)
  <2>1. PushProof(q, t) = l
    BY <1>4 DEF PushProof, l
  <2> QED BY <1>1, <1>2, <2>1
<1> QED BY <1>3, <1>4

\* What a session offers keeps a cursor where its stream leads.
LEMMA StagedTruth ==
  ASSUME NEW c \in Cursor, Honest(c), NEW m \in Message, CanAdvance(c, m), m.type # "tick" => m.id = 0
  PROVE  Honest(Staged(c, m))
<1> DEFINE d == Staged(c, m)
           s == SegmentOf(c)
           n == Len(c.prefix)
<1>1. d \in Cursor /\ d.prefix = Append(c.prefix, m)
  BY StagedIsCursor, StagedParts
<1>2. c.prefix \in Seq(Message) /\ c.cut \in Nat /\ c.pred \in Nat /\ c.proofs \in Seq(Nat) /\ s \in Segment
  <2>1. c.pred \in {0} \cup PredIds /\ PredIds \subseteq Nat
    BY JournalAssumption DEF Cursor
  <2> QED BY <2>1, CursorParts
<1>3. Advance(c, m) = [c EXCEPT !.seq = Advance(s, m).seq, !.cut = Advance(s, m).cut, !.last = Advance(s, m).last]
  <2>1. s = [seq |-> c.seq, cut |-> c.cut, last |-> c.last]
    BY DEF SegmentOf
  <2> HIDE DEF s
  <2> QED BY <2>1 DEF Advance, Cursor, Message
<1>4. /\ d.pred = c.pred /\ SegmentOf(d) = Advance(s, m) /\ d.cut = Advance(s, m).cut
      /\ d.proofs = IF m.type = "tick" THEN c.proofs ELSE PushProof(c.proofs, c.cut)
  <2>1. s = [seq |-> c.seq, cut |-> c.cut, last |-> c.last]
    BY DEF SegmentOf
  <2>2. Advance(s, m) = [seq |-> Advance(s, m).seq, cut |-> Advance(s, m).cut, last |-> Advance(s, m).last]
    BY <2>1 DEF Advance, Message
  <2>3. /\ d.pred = c.pred /\ d.seq = Advance(s, m).seq /\ d.cut = Advance(s, m).cut /\ d.last = Advance(s, m).last
        /\ d.proofs = IF m.type = "tick" THEN c.proofs ELSE PushProof(c.proofs, c.cut)
    <3> HIDE DEF s
    <3> QED BY <1>3 DEF Staged, Cursor
  <2> QED BY <2>2, <2>3 DEF SegmentOf
<1>5. Advance(s, m).cut = IF m.type = "tick" THEN c.cut ELSE c.cut + Minute
  BY DEF Advance, SegmentOf, CanAdvance, Message
<1>6. Truthful(d)
  <2>1. PICK h : Run(h, c.prefix, c.pred) /\ h[n] = s
    BY DEF Honest, Truthful
  <2>2. CanAdvance(Before(h[n], c.pred), m)
    BY <2>1 DEF CanAdvance, Before, Previous, SegmentOf
  <2>3. Advance(h[n], m) \in Segment
    <3>1. SegmentOf(d) \in Segment
      BY <1>1, CursorParts
    <3> QED BY <1>4, <2>1, <3>1
  <2>4. PICK g : Run(g, Append(c.prefix, m), c.pred) /\ g[n + 1] = Advance(h[n], m)
    <3> DEFINE g == [k \in 0..n + 1 |-> IF k <= n THEN h[k] ELSE Advance(h[n], m)]
    <3>1. Run(g, Append(c.prefix, m), c.pred) /\ g[n + 1] = Advance(h[n], m)
      BY <1>2, <2>1, <2>2, <2>3, RunGoesOn
    <3> HIDE DEF g
    <3> QED BY <3>1
  <2>5. Len(d.prefix) = n + 1
    BY <1>1, <1>2, AppendProperties
  <2> QED BY <1>1, <1>4, <2>1, <2>4, <2>5 DEF Truthful
<1>7. Proven(d)
  <2>1. \A k \in 1..Len(c.proofs) : c.proofs[k] < c.cut /\ \A j \in 1..k : c.proofs[j] <= c.proofs[k]
    BY DEF Honest, Proven
  <2>2. CASE m.type = "tick"
    BY <1>4, <1>5, <2>1, <2>2 DEF Proven
  <2>3. CASE m.type # "tick"
    <3>1. c.cut < d.cut /\ d.cut \in Nat /\ d.proofs = PushProof(c.proofs, c.cut)
      <4>1. Minute \in Nat \ {0}
        BY JournalAssumption
      <4> QED BY <1>2, <1>4, <1>5, <2>3, <4>1
    <3> QED BY <1>2, <2>1, <3>1, ProofsStayInOrder DEF Proven
  <2> QED BY <2>2, <2>3
<1> QED BY <1>6, <1>7 DEF Honest

\* Removing a checkpoint, or changing a segment, says nothing new.
Keeps(f, g) ==
  /\ g.cursor = f.cursor
  /\ \A b \in DOMAIN g.checkpoints : b \in DOMAIN f.checkpoints /\ g.checkpoints[b] = f.checkpoints[b]

LEMMA KeptTruth ==
  ASSUME NEW f, NEW g, HonestFiles(f), Keeps(f, g)
  PROVE  HonestFiles(g)
BY DEF HonestFiles, Keeps

\* What the sessions offer is a message, and only a print has an id.
LEMMA CandidatesId ==
  ASSUME NEW m \in Candidates
  PROVE  m.type # "tick" => m.id = 0
BY DEF Candidates

\* Every step keeps the truth, whatever a kill or a power loss leaves.
LEMMA TruthStep ==
  ASSUME TypeInv, Truth, [Next]_vars
  PROVE  Truth'
<1>1. /\ DOMAIN mem = DOMAIN NoMemory /\ DOMAIN files = {"cursor", "checkpoints", "segments"}
      /\ DOMAIN disk = {"cursor", "checkpoints", "segments"}
      /\ cursor \in Cursor /\ durable \in Cursor /\ files.cursor \in Cursor
      /\ Index(cursor) \in Nat /\ Index(durable) \in Nat
  BY Parts, CursorParts DEF TypeInv
<1>2. HonestFiles(files) /\ HonestFiles(disk) /\ Honest(cursor) /\ Honest(durable)
  BY DEF Truth
<1>3. Honest(NoMemory.cursor) /\ Honest(NoMemory.durable)
  BY FreshTruth DEF NoMemory, NoCursor
<1>4. Keeps(files, files) /\ Keeps(disk, disk)
  BY DEF Keeps
<1>5. SUFFICES /\ HonestFiles(files') /\ HonestFiles(disk')
               /\ Honest(mem'.cursor) /\ Honest(mem'.durable)
  BY DEF Truth, cursor, durable
<1>7. CASE UNCHANGED vars
  BY <1>2, <1>7 DEF vars, cursor, durable
<1>8. CASE WriteCheckpoint
  <2>1. Truthful(CheckpointOf(cursor))
    BY <1>1, <1>2, SameTruth
  <2>2. HonestFiles(files')
    <3>1. /\ files'.cursor = files.cursor
          /\ files'.checkpoints = With(files.checkpoints, Index(cursor), CheckpointOf(cursor))
      BY <1>1, <1>8 DEF WriteCheckpoint
    <3> QED BY <1>2, <2>1, <3>1 DEF HonestFiles, With
  <2> QED BY <1>2, <1>8, <2>2 DEF WriteCheckpoint, cursor, durable
<1>9. CASE ReplaceCursor
  <2>1. Honest([cursor EXCEPT !.segment = Index(cursor)])
    BY <1>1, <1>2, SameTruth
  <2>2. HonestFiles(files')
    BY <1>1, <1>2, <1>9, <2>1 DEF ReplaceCursor, HonestFiles
  <2> QED BY <1>2, <1>9, <2>2 DEF ReplaceCursor, cursor, durable
<1>10. CASE Anchor
  <2>1. PICK p \in PredIds : files' = [files EXCEPT !.cursor = [cursor EXCEPT !.pred = p]]
    BY <1>10 DEF Anchor
  <2>2. cursor.prefix = <<>>
    <3>1. cursor.prefix \in Seq(Message) /\ Len(cursor.prefix) = 0
      BY <1>1, <1>10, CursorParts DEF Anchor, Index
    <3> QED BY <3>1, EmptySeq
  <2>3. Honest([cursor EXCEPT !.pred = p])
    BY <1>1, <1>2, <2>2, SameTruth
  <2>4. HonestFiles(files')
    BY <1>1, <1>2, <2>1, <2>3 DEF HonestFiles
  <2> QED BY <1>2, <1>10, <2>4 DEF Anchor, cursor, durable
<1>11. CASE SyncJournalDir
  <2>1. disk'.cursor = disk.cursor /\ disk'.checkpoints = files.checkpoints
    BY <1>1, <1>11 DEF SyncJournalDir, SyncedJournal
  <2>2. HonestFiles(disk')
    BY <1>2, <2>1 DEF HonestFiles
  <2> QED BY <1>2, <1>11, <2>2 DEF SyncJournalDir, cursor, durable
<1>12. ASSUME disk' = [disk EXCEPT !.cursor = files.cursor]
       PROVE  HonestFiles(disk')
  BY <1>1, <1>2, <1>12 DEF HonestFiles
<1>13. CASE Initialized
  <2>1. mem'.cursor = cursor /\ mem'.durable = cursor
    BY <1>1, <1>13 DEF Initialized, cursor, NoMemory
  <2> QED BY <1>2, <1>12, <1>13, <2>1 DEF Initialized, CursorSynced
<1>14. CASE Anchored
  <2>1. mem'.cursor = files.cursor /\ mem'.durable = files.cursor
    BY <1>1, <1>14 DEF Anchored, NoMemory
  <2> QED BY <1>2, <1>12, <1>14, <2>1 DEF Anchored, CursorSynced, HonestFiles
<1>15. CASE Committed
  <2>1. mem'.cursor = cursor /\ mem'.durable = cursor
    BY <1>1, <1>15 DEF Committed, NoMemory, cursor
  <2> QED BY <1>2, <1>12, <1>15, <2>1 DEF Committed, CursorSynced
<1>16. CASE Sealed
  <2>1. /\ mem'.cursor = [cursor EXCEPT !.segment = Index(durable)]
        /\ mem'.durable = [durable EXCEPT !.segment = Index(durable)]
    BY <1>1, <1>16 DEF Sealed, NoMemory, cursor, durable
  <2>2. Honest(mem'.cursor) /\ Honest(mem'.durable)
    BY <1>1, <1>2, <2>1, SameTruth
  <2> QED BY <1>2, <1>12, <1>16, <2>2 DEF Sealed, CursorSynced
<1>17. CASE StartFresh
  <2>1. Keeps(files, files')
    <3>1. \/ files' = files
          \/ files' = [files EXCEPT !.checkpoints = <<>>, !.segments = <<>>]
      BY <1>17 DEF StartFresh
    <3>2. DOMAIN <<>> = {}
      BY EmptySeq
    <3> QED BY <1>1, <1>4, <3>1, <3>2 DEF Keeps
  <2>2. Honest(mem'.cursor) /\ mem'.durable = durable
    <3>1. mem' = mem \/ mem' = [mem EXCEPT !.cursor = FreshCursor(epoch')]
      BY <1>17 DEF StartFresh
    <3>2. Honest(FreshCursor(epoch'))
      <4> DEFINE e == epoch'
      <4> HIDE DEF e
      <4>1. Honest(FreshCursor(e))
        BY FreshTruth
      <4> QED BY <4>1 DEF e
    <3> QED BY <1>1, <1>2, <3>1, <3>2 DEF NoMemory, cursor, durable
  <2> QED BY <1>2, <1>17, <2>1, <2>2, KeptTruth DEF StartFresh
<1>18. CASE Resume
  <2>1. mem'.cursor = files.cursor /\ mem'.durable = durable
    BY <1>1, <1>18 DEF Resume, NoMemory, durable
  <2> QED BY <1>2, <1>18, <2>1 DEF Resume, HonestFiles
<1>19. CASE CreateSegment \/ RecoverScanned \/ RetainDone
  <2>1. Keeps(files, files') /\ UNCHANGED <<disk, mem>>
    BY <1>1, <1>19 DEF CreateSegment, RecoverScanned, RetainDone, Keeps
  <2> QED BY <1>2, <2>1, KeptTruth DEF cursor, durable
<1>20. CASE RecoverRemove
  <2>1. Keeps(files, files') /\ UNCHANGED <<disk, mem>>
    BY <1>1, <1>20 DEF RecoverRemove, Keeps, Without
  <2> QED BY <1>2, <2>1, KeptTruth DEF cursor, durable
<1>21. CASE RecoverReplay
  <2>1. Keeps(files, files') /\ UNCHANGED disk
    BY <1>1, <1>4, <1>21 DEF RecoverReplay, Keeps
  <2>2. mem'.cursor = cursor /\ mem'.durable \in {cursor, durable}
    BY <1>1, <1>21 DEF RecoverReplay, NoMemory, cursor, durable
  <2> QED BY <1>2, <2>1, <2>2, KeptTruth
<1>22. CASE RecoverFsync \/ SyncAppended
  <2>1. Keeps(disk, disk') /\ UNCHANGED <<files, mem>>
    BY <1>1, <1>22 DEF RecoverFsync, SyncAppended, Keeps
  <2> QED BY <1>2, <2>1, KeptTruth DEF cursor, durable
<1>23. CASE Replay \/ Flush \/ AppendLine \/ ExpireSegment \/ PublishLine
  <2>1. Keeps(files, files') /\ UNCHANGED disk
    BY <1>1, <1>23 DEF Replay, Flush, AppendLine, ExpireSegment, PublishLine, Keeps
  <2>2. mem'.cursor = cursor /\ mem'.durable = durable
    BY <1>1, <1>23 DEF Replay, Flush, AppendLine, ExpireSegment, PublishLine, NoMemory, cursor, durable
  <2> QED BY <1>2, <2>1, <2>2, KeptTruth
<1>24. CASE ExpireCheckpoint
  <2>1. Keeps(files, files') /\ UNCHANGED <<disk, mem>>
    BY <1>1, <1>24 DEF ExpireCheckpoint, Keeps
  <2> QED BY <1>2, <2>1, KeptTruth DEF cursor, durable
<1>25. CASE Published \/ Salvaged \/ OutputLost \/ Kill
  <2>1. Exit \/ UNCHANGED <<files, disk, mem>>
    BY <1>25 DEF Published, Salvaged, OutputLost, Kill
  <2>2. ASSUME Exit PROVE /\ HonestFiles(files') /\ HonestFiles(disk') /\ Honest(mem'.cursor) /\ Honest(mem'.durable)
    BY <1>2, <1>3, <2>2 DEF Exit
  <2> QED BY <1>2, <2>1, <2>2 DEF cursor, durable
<1>26. CASE ConsumerRebuilds
  BY <1>2, <1>3, <1>26 DEF ConsumerRebuilds
<1>27. CASE \E m \in Candidates : Stage(m)
  <2>1. PICK m \in Candidates : Stage(m)
    BY <1>27
  <2>2. Honest(Staged(cursor, m))
    <3>1. m \in Message /\ (m.type # "tick" => m.id = 0) /\ CanAdvance(cursor, m)
      BY <1>1, <2>1, CandidatesType, CandidatesId DEF Stage
    <3> QED BY <1>1, <1>2, <3>1, StagedTruth
  <2>3. mem'.cursor = Staged(cursor, m) /\ mem'.durable = durable /\ UNCHANGED <<files, disk>>
    BY <1>1, <2>1 DEF Stage, NoMemory, durable
  <2> QED BY <1>2, <2>2, <2>3
<1>28. CASE VenueError \/ IOFailure \/ ConsumerDies
  <2>1. mem'.cursor = cursor /\ mem'.durable = durable /\ UNCHANGED <<files, disk>>
    BY <1>1, <1>28 DEF VenueError, IOFailure, ConsumerDies, NoMemory, cursor, durable
  <2> QED BY <1>2, <2>1
<1>29. CASE PowerLoss
  <2>1. mem' = NoMemory /\ disk' = files'
    BY <1>29 DEF PowerLoss
  <2>2. PICK c \in {files.cursor, disk.cursor},
             keptCheckpoints \in SUBSET Unsynced(files.checkpoints, disk.checkpoints),
             keptSegments \in SUBSET Unsynced(files.segments, disk.segments), n \in TornLengths :
          files' = [cursor |-> c,
                    checkpoints |-> Survivors(files.checkpoints, disk.checkpoints, keptCheckpoints),
                    segments |-> SurvivingSegments(keptSegments, n)]
    BY <1>29 DEF PowerLoss
  <2>3. HonestFiles(files')
    BY <1>2, <2>2 DEF HonestFiles, Survivors
  <2> QED BY <1>3, <2>1, <2>3
<1> QED
  BY <1>7, <1>8, <1>9, <1>10, <1>11, <1>13, <1>14, <1>15, <1>16, <1>17, <1>18, <1>19, <1>20, <1>21, <1>22,
     <1>23, <1>24, <1>25, <1>26, <1>27, <1>28, <1>29
     DEF Next, Working, Producing, Faulting

\* The state after a part of the stream is the state after that part of the whole.
LEMMA StateAtEnd ==
  ASSUME NEW p \in Seq(Message), NEW a \in Nat, NEW h, Run(h, p, a),
         NEW d, d.prefix \in Seq(Message), d.pred \in Nat, Truthful(d), Begins(d.prefix, p)
  PROVE  SegmentOf(d) = h[Len(d.prefix)]
<1>1. PICK g : Run(g, d.prefix, d.pred) /\ g[Len(d.prefix)] = SegmentOf(d)
  BY DEF Truthful
<1>2. Len(d.prefix) \in 0..Len(d.prefix)
  BY LenProperties
<1>3. g[Len(d.prefix)] = h[Len(d.prefix)]
  <2> DEFINE q == d.prefix
             b == d.pred
  <2>1. q \in Seq(Message) /\ b \in Nat /\ Run(g, q, b) /\ Begins(q, p) /\ Len(q) \in 0..Len(q)
    BY <1>1, <1>2
  <2> HIDE DEF q, b
  <2>2. g[Len(q)] = h[Len(q)]
    BY <2>1, RunsAgree
  <2> QED BY <2>2 DEF q
<1> QED BY <1>1, <1>3

\* A predecessor is a number.
LEMMA PredType ==
  /\ \A c \in Cursor : c.pred \in Nat /\ c.prefix \in Seq(Message)
  /\ \A c \in Checkpoint : c.pred \in Nat /\ c.prefix \in Seq(Message)
<1>1. \A x \in {0} \cup PredIds : x \in Nat
  BY JournalAssumption
<1> QED BY <1>1 DEF Cursor, Checkpoint

\* What was known stays true when the committed stream grows.
LEMMA KnownGrows ==
  ASSUME TypeInv, Truth, Known, TypeOK', \A b \in DOMAIN segments' : b \in DOMAIN segments /\ segments'[b] = segments[b],
         Begins(durable.prefix, durable'.prefix)
  PROVE  Known'
<1>1. /\ durable.prefix \in Seq(Message) /\ durable.pred \in Nat
      /\ durable'.prefix \in Seq(Message) /\ durable'.pred \in Nat
  BY PredType DEF TypeInv, TypeOK, MemoryOK, durable
<1>2. PICK h : Run(h, durable.prefix, durable.pred)
  BY DEF Truth, Honest, Truthful
<1> SUFFICES ASSUME NEW b \in DOMAIN segments'
             PROVE  /\ b <= Len(durable'.prefix)
                    /\ \A g : Run(g, durable'.prefix, durable'.pred) => segments'[b] = g[b]
  BY DEF Known, Index
<1>3. b \in Nat /\ b <= Len(durable.prefix) /\ segments'[b] = h[b]
  <2>1. b \in DOMAIN segments /\ segments'[b] = segments[b]
    OBVIOUS
  <2>2. DOMAIN segments \subseteq Nat
    BY RetentionParts
  <2> QED BY <1>2, <2>1, <2>2 DEF Known, Index
<1>4. Len(durable.prefix) \in Nat /\ Len(durable'.prefix) \in Nat /\ Len(durable.prefix) <= Len(durable'.prefix)
  BY <1>1, LenProperties DEF Begins
<1>5. ASSUME NEW g, Run(g, durable'.prefix, durable'.pred) PROVE segments'[b] = g[b]
  <2>1. b \in 0..Len(durable.prefix)
    BY <1>3, <1>4
  <2> DEFINE q == durable'.prefix
             a == durable'.pred
  <2>2. q \in Seq(Message) /\ a \in Nat /\ Run(g, q, a) /\ Begins(durable.prefix, q)
    BY <1>1, <1>5
  <2> HIDE DEF q, a
  <2>3. h[b] = g[b]
    BY <1>1, <1>2, <2>1, <2>2, RunsAgree
  <2> QED BY <1>3, <2>3
<1> QED BY <1>3, <1>4, <1>5

\* Nothing is retained that could be wrong.
LEMMA NothingKnown ==
  ASSUME segments' = <<>>
  PROVE  Known'
<1>1. DOMAIN segments' = {}
  BY EmptySeq
<1> QED BY <1>1 DEF Known

\* Every step keeps what is known of the retained segments.
LEMMA KnownStep ==
  ASSUME TypeInv, TypeInv', Batch, Truth, Truth', Known, [Next]_vars
  PROVE  Known'
<1> USE DEF Initializing, Closed, Gathering, Reporting, Reopening, Sealing
<1>1. /\ DOMAIN mem = DOMAIN NoMemory /\ cursor \in Cursor /\ durable \in Cursor
      /\ cursor.prefix \in Seq(Message) /\ durable.prefix \in Seq(Message)
      /\ Index(cursor) \in Nat /\ Index(durable) \in Nat /\ FilesOK(files) /\ TypeOK'
  BY RetentionParts, CursorParts DEF TypeInv
<1>2. Begins(durable.prefix, durable.prefix)
  BY <1>1, BeginsReflexive
<1>3. ASSUME segments' = segments, durable'.prefix = durable.prefix PROVE Known'
  BY <1>1, <1>2, <1>3, KnownGrows
<1>4. NoMemory.segments = <<>>
  BY DEF NoMemory
<1>5. CASE UNCHANGED mem
  BY <1>3, <1>5 DEF segments, durable
<1>6. CASE Exit \/ mem' = NoMemory
  BY <1>4, <1>6, NothingKnown DEF Exit, segments
<1>7. CASE StartFresh \/ Resume \/ Replay \/ Flush \/ AppendLine \/ PublishLine \/ VenueError \/ IOFailure
  BY <1>1, <1>3, <1>7
     DEF StartFresh, Resume, Replay, Flush, AppendLine, PublishLine, VenueError, IOFailure,
         NoMemory, segments, durable
<1>8. CASE \E m \in Candidates : Stage(m)
  BY <1>1, <1>3, <1>8 DEF Stage, NoMemory, segments, durable
<1>9. CASE ExpireSegment
  <2>1. segments' = Without(segments, FirstRetained) /\ durable' = durable
    BY <1>1, <1>9 DEF ExpireSegment, NoMemory, segments, durable
  <2>2. \A b \in DOMAIN segments' : b \in DOMAIN segments /\ segments'[b] = segments[b]
    BY <2>1 DEF Without
  <2> QED BY <1>1, <1>2, <2>1, <2>2, KnownGrows
<1>10. CASE Committed
  <2>1. segments' = segments /\ durable' = cursor
    BY <1>1, <1>10 DEF Committed, NoMemory, segments, durable, cursor
  <2>2. Begins(durable.prefix, cursor.prefix)
    <3>1. staged \in Seq(Message) /\ Splits(cursor.prefix, durable.prefix, staged)
      BY <1>10, RetentionParts DEF Committed, CursorSynced, Batch
    <3> QED BY <1>1, <3>1, SplitsBegins
  <2> QED BY <1>1, <2>1, <2>2, KnownGrows
<1>11. CASE Anchored
  <2>1. segments' = segments /\ durable' = files.cursor /\ pc = "anchorSync"
    BY <1>1, <1>11 DEF Anchored, CursorSynced, NoMemory, segments, durable
  <2>2. files.cursor.prefix = cursor.prefix /\ staged = <<>> /\ Splits(cursor.prefix, durable.prefix, staged)
    BY <2>1 DEF TypeInv, OpenSegment, Batch
  <2>3. cursor.prefix = durable.prefix
    BY <1>1, <2>2, SplitsNothing
  <2> QED BY <1>3, <2>1, <2>2, <2>3
<1>12. ASSUME NEW b \in Nat, NEW d, d.prefix \in Seq(Message), d.pred \in Nat, Truthful(d),
              Len(d.prefix) = b, Begins(d.prefix, durable'.prefix)
       PROVE  \A h : Run(h, durable'.prefix, durable'.pred) => SegmentOf(d) = h[b]
  <2> SUFFICES ASSUME NEW h, Run(h, durable'.prefix, durable'.pred) PROVE SegmentOf(d) = h[b]
    OBVIOUS
  <2> DEFINE q == durable'.prefix
             a == durable'.pred
  <2>1. q \in Seq(Message) /\ a \in Nat /\ Run(h, q, a) /\ Begins(d.prefix, q)
    BY <1>1, <1>12, PredType DEF TypeOK, MemoryOK, durable
  <2> HIDE DEF q, a
  <2>2. SegmentOf(d) = h[Len(d.prefix)]
    BY <1>12, <2>1, StateAtEnd
  <2> QED BY <1>12, <2>2
<1>13. CASE Initialized
  <2>1. segments' = [b \in {Index(cursor)} |-> SegmentOf(cursor)] /\ durable' = cursor
    BY <1>1, <1>13 DEF Initialized, CursorSynced, NoMemory, segments, durable, cursor
  <2>2. cursor.pred \in Nat /\ Truthful(cursor) /\ Begins(cursor.prefix, durable'.prefix)
    BY <1>1, <2>1, PredType, BeginsReflexive DEF Truth, Honest
  <2>3. \A h : Run(h, durable'.prefix, durable'.pred) => SegmentOf(cursor) = h[Index(cursor)]
    BY <1>1, <1>12, <2>2 DEF Index
  <2>4. /\ DOMAIN segments' = {Index(cursor)} /\ segments'[Index(cursor)] = SegmentOf(cursor)
        /\ Index(durable') = Index(cursor) /\ Index(cursor) <= Index(cursor)
    BY <1>1, <2>1
  <2>5. \A b \in DOMAIN segments' : b = Index(cursor)
    BY <2>4
  <2> QED BY <2>3, <2>4, <2>5 DEF Known, Index
<1>14. CASE Sealed
  <2>1. /\ segments' = With(segments, Index(durable), SegmentOf(durable))
        /\ durable' = [durable EXCEPT !.segment = Index(durable)]
    BY <1>1, <1>14 DEF Sealed, CursorSynced, NoMemory, segments, durable, cursor
  <2>2. durable'.prefix = durable.prefix /\ durable'.pred = durable.pred /\ Index(durable') = Index(durable)
    BY <1>1, <2>1 DEF Cursor, Index
  <2>3. durable.pred \in Nat /\ Truthful(durable) /\ Begins(durable.prefix, durable'.prefix)
    BY <1>1, <1>2, <2>2, PredType DEF Truth, Honest
  <2>4. \A h : Run(h, durable'.prefix, durable'.pred) => SegmentOf(durable) = h[Index(durable)]
    BY <1>1, <1>12, <2>3 DEF Index
  <2>5. ASSUME NEW b \in DOMAIN segments', b # Index(durable)
        PROVE  b \in DOMAIN segments /\ segments'[b] = segments[b]
    BY <2>1, <2>5 DEF With
  <2>6. segments'[Index(durable)] = SegmentOf(durable)
    BY <2>1 DEF With
  <2> SUFFICES ASSUME NEW b \in DOMAIN segments'
               PROVE  /\ b <= Index(durable')
                      /\ \A h : Run(h, durable'.prefix, durable'.pred) => segments'[b] = h[b]
    BY DEF Known, Index
  <2>7. CASE b = Index(durable)
    BY <1>1, <2>2, <2>4, <2>6, <2>7
  <2>8. CASE b # Index(durable)
    BY <2>2, <2>5, <2>8 DEF Known
  <2> QED BY <2>7, <2>8
<1>15. CASE RecoverReplay
  <2>1. CASE ~RecoverVerified
    BY <1>3, <1>15, <2>1 DEF RecoverReplay, segments, durable
  <2>2. CASE RecoverVerified
    <3>1. /\ segments' = [b \in Bases |-> SegmentOf(files.checkpoints[b])] /\ durable' = cursor
          /\ pc = "recoverReplay"
      BY <1>1, <1>15, <2>2 DEF RecoverReplay, NoMemory, segments, durable
    <3> SUFFICES ASSUME NEW b \in Bases
                 PROVE  /\ b <= Index(durable')
                        /\ \A h : Run(h, durable'.prefix, durable'.pred) => segments'[b] = h[b]
      BY <3>1 DEF Known, Index
    <3> DEFINE d == files.checkpoints[b]
    <3>2. b \in Nat /\ d \in Checkpoint /\ b \in DOMAIN files.checkpoints /\ Len(d.prefix) = b
      BY <1>1, <2>2, LinesType DEF RecoverVerified, SegmentVerified
    <3>3. Begins(d.prefix, cursor.prefix)
      BY <1>1, <2>2, VerifiedIsChained DEF Chained
    <3>4. Truthful(d)
      BY <3>2 DEF Truth, HonestFiles
    <3>5. d.prefix \in Seq(Message) /\ d.pred \in Nat
      BY <3>2, PredType
    <3>6. b <= Index(durable')
      BY <3>1, <3>2, <3>3 DEF Begins, Index
    <3>7. segments'[b] = SegmentOf(d)
      BY <3>1
    <3>8. Begins(d.prefix, durable'.prefix)
      BY <3>1, <3>3
    <3> HIDE DEF d
    <3>9. \A h : Run(h, durable'.prefix, durable'.pred) => SegmentOf(d) = h[b]
      BY <1>12, <3>2, <3>4, <3>5, <3>8
    <3> QED BY <3>6, <3>7, <3>9
  <2> QED BY <2>1, <2>2
<1>16. CASE UNCHANGED vars
  BY <1>5, <1>16 DEF vars
<1>17. CASE \/ WriteCheckpoint \/ CreateSegment \/ ReplaceCursor \/ SyncJournalDir \/ Anchor \/ RecoverRemove
            \/ RecoverScanned \/ RecoverFsync \/ SyncAppended \/ ExpireCheckpoint \/ RetainDone \/ ConsumerDies
  BY <1>5, <1>17
     DEF WriteCheckpoint, CreateSegment, ReplaceCursor, SyncJournalDir, Anchor, RecoverRemove,
         RecoverScanned, RecoverFsync, SyncAppended, ExpireCheckpoint, RetainDone, ConsumerDies
<1>18. CASE Published \/ Salvaged \/ OutputLost \/ Kill \/ ConsumerRebuilds \/ PowerLoss
  BY <1>5, <1>6, <1>18 DEF Published, Salvaged, OutputLost, Kill, ConsumerRebuilds, PowerLoss
<1> QED
  BY <1>7, <1>8, <1>9, <1>10, <1>11, <1>13, <1>14, <1>15, <1>16, <1>17, <1>18
     DEF Next, Working, Producing, Faulting

\* HistoryInv is an inductive invariant, relative to the types and the layout.
THEOREM HistoryInvariance == Spec => []HistoryInv
<1>1. Init => HistoryInv
  <2> SUFFICES ASSUME Init PROVE HistoryInv
    OBVIOUS
  <2>1. mem = NoMemory /\ files = NoFiles /\ disk = NoFiles
    BY DEF Init
  <2>2. Honest(NoCursor) /\ DOMAIN <<>> = {}
    BY FreshTruth, EmptySeq DEF NoCursor
  <2>3. Truth
    BY <2>1, <2>2 DEF Truth, HonestFiles, NoFiles, NoMemory, cursor, durable
  <2>4. Known
    BY <2>1, <2>2 DEF Known, NoMemory, segments
  <2> QED BY <2>3, <2>4 DEF HistoryInv
<1>2. TypeInv /\ TypeInv' /\ RetentionInv /\ HistoryInv /\ [Next]_vars => HistoryInv'
  BY TruthStep, KnownStep DEF HistoryInv, RetentionInv
<1> QED BY <1>1, <1>2, TypeInvariance, RetentionInvariance, PTL DEF Spec
-----------------------------------------------------------------------------
(* What the sessions look up in the retained journal.                      *)

\* The states behind the retained segments.
LEMMA RetainedStates ==
  ASSUME TypeInv, HistoryInv, Opened
  PROVE  /\ durable.prefix \in Seq(Message) /\ durable.pred \in Nat
         /\ Index(durable) = Len(durable.prefix) /\ Index(durable) \in Nat
         /\ FirstRetained \in 0..Index(durable) /\ FirstRetained \in DOMAIN segments
         /\ DOMAIN segments \in SUBSET (0..Index(durable))
         /\ \A b \in DOMAIN segments : FirstRetained <= b
         /\ \E h : /\ Run(h, durable.prefix, durable.pred)
                   /\ h[Len(durable.prefix)] = SegmentOf(durable)
                   /\ \A b \in DOMAIN segments : segments[b] = h[b]
<1>1. /\ durable.prefix \in Seq(Message) /\ Index(durable) = Len(durable.prefix) /\ Index(durable) \in Nat
      /\ DOMAIN segments \in SUBSET Nat /\ durable \in Cursor
  BY RetentionParts
<1>2. durable.pred \in Nat
  BY <1>1, PredType
<1>3. \A b \in DOMAIN segments : b <= Index(durable)
  BY DEF HistoryInv, Known
<1>4. DOMAIN segments \in SUBSET (0..Index(durable))
  BY <1>1, <1>3
<1>5. /\ FirstRetained \in DOMAIN segments /\ \A b \in DOMAIN segments : FirstRetained <= b
      /\ FirstRetained \in 0..Index(durable)
  BY <1>4, RetainedIndex
<1>6. \E h : /\ Run(h, durable.prefix, durable.pred)
             /\ h[Len(durable.prefix)] = SegmentOf(durable)
             /\ \A b \in DOMAIN segments : segments[b] = h[b]
  BY DEF HistoryInv, Truth, Honest, Truthful, Known
<1> QED BY <1>1, <1>2, <1>4, <1>5, <1>6

\* The states of a run are numbers.
LEMMA RunTypes ==
  ASSUME NEW h, NEW p \in Seq(Message), NEW pred \in Nat, Run(h, p, pred)
  PROVE  \A k \in 0..Len(p) : h[k].cut \in Nat /\ h[k].seq \in Nat /\ h[k].last \in Int
BY DEF Run, Segment

\* index_for_minute() starts early enough: reading from there visits every
\* retained message of the minute and of the later ones.
THEOREM LookupMissesNothing == Spec => []LookupIsComplete
<1>1. TypeInv /\ HistoryInv => LookupIsComplete
  <2> SUFFICES ASSUME TypeInv, HistoryInv, Opened,
                      NEW i \in (FirstRetained + 1)..Index(durable),
                      NEW j \in (FirstRetained + 1)..Index(durable),
                      MinuteOf(durable.prefix[i]) >= MinuteOf(durable.prefix[j])
               PROVE  i - 1 >= IndexForMinute(MinuteOf(durable.prefix[j]))
    BY DEF LookupIsComplete
  <2> DEFINE p == durable.prefix
             a == durable.pred
             n == Index(durable)
             F == FirstRetained
             minute == MinuteOf(p[j])
             S == {b \in DOMAIN segments : segments[b].cut < minute} \cup {F}
  <2>1. /\ p \in Seq(Message) /\ a \in Nat /\ n = Len(p) /\ n \in Nat /\ F \in 0..n
        /\ DOMAIN segments \in SUBSET (0..n) /\ F \in DOMAIN segments
    BY RetainedStates
  <2>2. PICK h : Run(h, p, a) /\ \A b \in DOMAIN segments : segments[b] = h[b]
    BY RetainedStates
  <2> HIDE DEF p, a, n, F
  <2>3. i \in 1..n /\ j \in 1..n /\ i - 1 \in 0..n /\ j - 1 \in 0..n /\ i \in F + 1..n /\ j \in F + 1..n
    BY <2>1 DEF F, n
  <2>4. MinuteOf(p[i]) = h[i - 1].cut /\ minute = h[j - 1].cut /\ MinuteOf(p[i]) >= minute
    BY <2>1, <2>2, <2>3, RunMinutes DEF p
  <2>5. \A k \in 0..n : h[k].cut \in Nat
    BY <2>1, <2>2, RunTypes
  <2> HIDE DEF minute
  <2>6. ASSUME NEW b \in S PROVE b <= i - 1
    <3>1. CASE b = F
      BY <2>1, <2>3, <3>1
    <3>2. CASE b # F
      <4>1. b \in DOMAIN segments /\ b \in 0..n /\ h[b].cut < minute
        BY <2>1, <2>2, <3>2
      <4>2. ~(h[i - 1].cut <= h[b].cut)
        BY <2>3, <2>4, <2>5, <4>1
      <4>3. ~(i - 1 \in 0..b)
        BY <2>1, <2>2, <4>1, <4>2, RunGrows
      <4> QED BY <2>3, <4>1, <4>3
    <3> QED BY <3>1, <3>2
  <2>7. S \in SUBSET (0..n) /\ S # {}
    BY <2>1
  <2> HIDE DEF S
  <2>8. Max(S) \in S
    <3>1. S \in SUBSET Nat
      BY <2>1, <2>7
    <3>2. \A x \in S : x <= n
      BY <2>1, <2>7
    <3> QED BY <2>1, <2>7, <3>1, <3>2, MaxOfNats
  <2>9. Max(S) <= i - 1 /\ Max(S) \in Nat
    <3>1. Max(S) <= i - 1
      BY <2>6, <2>8
    <3>2. Max(S) \in 0..n
      BY <2>7, <2>8
    <3> QED BY <2>1, <3>1, <3>2
  <2>10. IndexForMinute(minute) = Max(S)
    BY DEF IndexForMinute, S, F
  <2>11. i - 1 >= IndexForMinute(minute)
    BY <2>3, <2>9, <2>10
  <2> QED BY <2>11 DEF minute, p
<1> QED BY <1>1, TypeInvariance, HistoryInvariance, PTL

\* expired_minute() and expired_seq() hold of exactly the minutes and prints of
\* which a message has left the journal.
THEOREM ExpiryIsExactAlways == Spec => []ExpiryIsExact
<1>1. TypeInv /\ HistoryInv => ExpiryIsExact
  <2> SUFFICES ASSUME TypeInv, HistoryInv, Opened
               PROVE  LET dropped == {durable.prefix[i] : i \in 1..FirstRetained}
                          kept == {durable.prefix[i] : i \in (FirstRetained + 1)..Index(durable)}
                      IN  /\ \A m \in dropped :
                               ExpiredMinute(MinuteOf(m)) /\ (m.id # 0 => ExpiredSeq(m.id))
                          /\ \A m \in kept :
                               /\ m.id # 0 => ~ExpiredSeq(m.id)
                               /\ ExpiredMinute(MinuteOf(m)) => \E d \in dropped : MinuteOf(d) = MinuteOf(m)
    BY DEF ExpiryIsExact
  <2> DEFINE p == durable.prefix
             a == durable.pred
             n == Index(durable)
             F == FirstRetained
  <2>1. /\ p \in Seq(Message) /\ a \in Nat /\ n = Len(p) /\ n \in Nat /\ F \in 0..n /\ F \in Nat
        /\ F \in DOMAIN segments
    BY RetainedStates
  <2>2. PICK h : Run(h, p, a) /\ \A b \in DOMAIN segments : segments[b] = h[b]
    BY RetainedStates
  <2>3. Oldest = h[F]
    BY <2>1, <2>2 DEF Oldest
  <2>4. \A k \in 1..n : MinuteOf(p[k]) = h[k - 1].cut
    BY <2>1, <2>2, RunMinutes
  <2>5. \A k \in 0..n : h[k].cut \in Nat /\ h[k].seq \in Nat /\ h[k].last \in Int
    BY <2>1, <2>2, RunTypes
  <2> HIDE DEF p, a, n, F
  <2>6. \A k \in 1..n : /\ k \in Nat /\ k - 1 \in 0..n /\ k \in 0..n
                        /\ p[k].id # 0 => p[k].id = h[k].seq /\ h[k - 1].seq < h[k].seq
    <3> TAKE k \in 1..n
    <3>1. k \in 1..Len(p)
      BY <2>1
    <3> QED BY <2>1, <2>2, <3>1, RunStep
  <2>7. ASSUME NEW i \in 1..F
        PROVE  ExpiredMinute(MinuteOf(p[i])) /\ (p[i].id # 0 => ExpiredSeq(p[i].id))
    <3>1. i \in 1..n /\ i - 1 \in 0..F /\ i \in 0..F /\ F # 0 /\ F \in 1..n /\ F - 1 \in 0..F
          /\ i - 1 \in 0..F - 1 /\ F - 1 \in 0..n
      BY <2>1
    <3>2. h[i - 1].cut <= h[F - 1].cut /\ h[F - 1].cut <= h[F].cut /\ h[i].seq <= h[F].seq
      BY <2>1, <2>2, <3>1, RunGrows
    <3>3. h[i - 1].cut \in Nat /\ h[F - 1].cut \in Nat /\ h[F].cut \in Nat
      BY <2>5, <2>6, <3>1
    <3>4. \/ h[F - 1].cut < h[F].cut
          \/ Mode = "ticks" /\ h[F].last >= h[F].cut
      <4>1. Minute \in Nat \ {0}
        BY JournalAssumption
      <4>2. F \in 1..Len(p)
        BY <2>1, <3>1
      <4>3. \/ /\ Mode = "ticks" /\ h[F].last = p[F].ts /\ h[F].cut <= p[F].ts
            \/ h[F].cut = h[F - 1].cut + Minute
        BY <2>1, <2>2, <4>2, RunStep
      <4>4. h[F].last \in Int
        BY <2>5, <2>6, <3>1
      <4> QED BY <3>3, <4>1, <4>3, <4>4
    <3>5. ExpiredMinute(h[i - 1].cut)
      <4>1. h[i - 1].cut < h[F].cut \/ (Mode = "ticks" /\ h[i - 1].cut = h[F].cut /\ h[F].last >= h[F].cut)
        BY <3>2, <3>3, <3>4
      <4> QED BY <2>3, <3>1, <4>1 DEF ExpiredMinute, F
    <3>6. p[i].id # 0 => ExpiredSeq(p[i].id)
      BY <2>3, <2>6, <3>1, <3>2 DEF ExpiredSeq, F
    <3> QED BY <2>4, <3>1, <3>5, <3>6
  <2>8. ASSUME NEW i \in F + 1..n
        PROVE  /\ p[i].id # 0 => ~ExpiredSeq(p[i].id)
               /\ ExpiredMinute(MinuteOf(p[i])) => \E k \in 1..F : MinuteOf(p[k]) = MinuteOf(p[i])
    <3>1. i \in 1..n /\ F \in 0..i - 1 /\ i - 1 \in 0..n
      BY <2>1
    <3>2. h[F].cut <= h[i - 1].cut /\ h[F].seq <= h[i - 1].seq
      BY <2>1, <2>2, <3>1, RunGrows
    <3>3. h[F].cut \in Nat /\ h[F].seq \in Nat /\ h[i - 1].cut \in Nat /\ h[i - 1].seq \in Nat /\ h[i].seq \in Nat
      BY <2>1, <2>5, <2>6, <3>1
    <3>4. ASSUME p[i].id # 0 PROVE ~ExpiredSeq(p[i].id)
      <4>1. p[i].id = h[i].seq /\ h[i - 1].seq < h[i].seq
        BY <2>6, <3>1, <3>4
      <4>2. ~(p[i].id <= h[F].seq)
        BY <3>2, <3>3, <4>1
      <4> QED BY <2>3, <4>2 DEF ExpiredSeq
    <3>5. ASSUME ExpiredMinute(h[i - 1].cut) PROVE \E k \in 1..F : MinuteOf(p[k]) = h[i - 1].cut
      <4>1. Mode = "ticks" /\ h[i - 1].cut = h[F].cut /\ h[F].last >= h[F].cut
        BY <2>3, <3>2, <3>3, <3>5 DEF ExpiredMinute
      <4>2. PICK k \in 1..F : h[k - 1].cut = h[F].cut
        BY <2>1, <2>2, <4>1, RunPrints
      <4>3. k \in 1..n
        BY <2>1
      <4> QED BY <2>4, <4>1, <4>2, <4>3
    <3> QED BY <2>4, <3>1, <3>4, <3>5
  <2> QED BY <2>7, <2>8 DEF p, n, F
<1> QED BY <1>1, TypeInvariance, HistoryInvariance, PTL
-----------------------------------------------------------------------------
(* What is in the journal directory, as a process sees it and as it is     *)
(* synced, next to the two states of cursor.json.                          *)

\* The names in both directories and in either.
SureBases(f, g) == DOMAIN f.segments \cap DOMAIN g.segments
AnyBases(f, g) == DOMAIN f.segments \cup DOMAIN g.segments
SureChecked(f, g) == DOMAIN f.checkpoints \cap DOMAIN g.checkpoints
AnyNames(f, g) == AnyBases(f, g) \cup DOMAIN f.checkpoints \cup DOMAIN g.checkpoints

\* The lines of segment b are in their place: a sealed segment ends where the
\* next begins, the open one has all that the cursor counts.
Placed(b, lines, f, g, c) ==
  /\ b > c.segment => lines = <<>>
  /\ b = c.segment => Len(lines) >= Index(c) - b
  /\ b < c.segment => /\ lines # <<>> /\ b + Len(lines) \in SureBases(f, g)
                      /\ \A x \in AnyBases(f, g) : x <= b \/ x >= b + Len(lines)
  /\ b <= c.segment => \A k \in 1..Len(lines) : b + k <= Index(c) => lines[k] = c.prefix[b + k]

Fits(b, doc, c) ==
  /\ doc.epoch = c.epoch /\ doc.pred \in {0, c.pred}
  /\ Len(doc.prefix) = b /\ Begins(doc.prefix, c.prefix)

\* A start that finds the cursor c and, of every other file, either state accepts them.
Accepted(f, g, c) ==
  /\ c.segment \in SureBases(f, g) /\ c.segment <= Index(c)
  /\ \A b \in AnyNames(f, g) : b <= c.segment \/ b = Index(c)
  /\ \A b \in AnyBases(f, g) : b <= c.segment => b \in SureChecked(f, g)
  /\ \A b \in AnyNames(f, g) \ SureBases(f, g) : b <= c.segment => \A x \in AnyBases(f, g) : b <= x
  /\ \A b \in DOMAIN f.segments \ DOMAIN g.segments : b > c.segment
  /\ \A b \in DOMAIN f.segments : Placed(b, f.segments[b], f, g, c)
  /\ \A b \in DOMAIN g.segments : Placed(b, g.segments[b], f, g, c)
  /\ \A b \in DOMAIN f.checkpoints : Fits(b, f.checkpoints[b], c)
  /\ \A b \in DOMAIN g.checkpoints : Fits(b, g.checkpoints[b], c)

Acceptable ==
  /\ \A c \in {files.cursor, disk.cursor} : c.epoch # 0 => Accepted(files, disk, c)
  /\ files.cursor.epoch = 0 \/ disk.cursor.epoch = 0 =>
       /\ \A b \in DOMAIN files.segments : files.segments[b] = <<>>
       /\ \A b \in DOMAIN disk.segments : disk.segments[b] = <<>>

Committing == pc \in Gathering \/ (pc = "salvage" /\ ~mem.unusable)
SameStream(c, d) == c.epoch = d.epoch /\ c.pred = d.pred /\ c.segment = d.segment

\* The two states of cursor.json and what the process knows of them.
Cursors ==
  /\ pc \in Initializing => cursor = FreshCursor(cursor.epoch) /\ disk.cursor.epoch = 0
  /\ pc \in Initializing \ {"initCursorSync"} => files.cursor.epoch = 0
  /\ pc = "initCursorSync" => files.cursor = cursor
  /\ pc \notin {"down"} \cup Initializing => files.cursor.epoch # 0 /\ disk.cursor.epoch # 0
  /\ Committing => disk.cursor = durable /\ SameStream(cursor, durable)
  /\ Committing /\ pc \notin {"anchorSync", "commitCursorSync"} => files.cursor = durable
  /\ pc = "commitCursorSync" => files.cursor = cursor
  /\ pc \in Reporting => disk.cursor = durable /\ cursor = durable
  /\ pc \in Reporting \ {"sealCursorSync"} => files.cursor = durable
  /\ pc = "sealCursorSync" => files.cursor = [cursor EXCEPT !.segment = Index(cursor)]

\* How far the synced segments lag behind the visible ones.
Same(f, g) == DOMAIN f = DOMAIN g /\ \A b \in DOMAIN f : f[b] = g[b]
Unlinking == {"expireSegmentSync", "recoverDirty", "recoverSync"}
Synced ==
  /\ pc \in {"down", "expired", "recover", "recoverReplay", "replay", "initSegment", "initCursor",
             "initCursorSync"} \cup ((Gathering \cup Reporting) \ {"append", "appendSync", "sealSegmentSync", "expireSegmentSync"})
     \/ (pc = "salvage" /\ ~mem.unusable) => Same(files.segments, disk.segments)
  /\ pc \in {"append", "appendSync", "recoverFsync"} =>
       /\ DOMAIN files.segments = DOMAIN disk.segments
       /\ \A b \in Bases : b # cursor.segment => files.segments[b] = disk.segments[b]
  /\ pc \in {"initSegmentSync", "sealSegmentSync"} =>
       /\ \A b \in DOMAIN disk.segments : b \in Bases /\ files.segments[b] = disk.segments[b]
       /\ \A b \in Bases \ DOMAIN disk.segments : files.segments[b] = <<>>
  /\ pc \in Unlinking => \A b \in Bases : b \in DOMAIN disk.segments /\ files.segments[b] = disk.segments[b]
  /\ pc \in {"recoverDirty", "recoverSync"} => \A b \in DOMAIN disk.segments \ Bases : b > cursor.segment
  /\ pc \in {"down", "expired", "recover", "recoverReplay", "recoverFsync", "replay"} =>
       DOMAIN files.checkpoints = DOMAIN disk.checkpoints

\* What an initialization has created so far.
Created ==
  /\ pc \in {"initCheckpoint", "initCheckpointSync", "initSegment"} => Bases = {}
  /\ pc \in {"initSegmentSync", "initCursor", "initCursorSync"} => Bases = {0}
  /\ pc = "initCheckpoint" => DOMAIN files.checkpoints = {}
  /\ pc \in Initializing \ {"initCheckpoint", "initCursorSync"} =>
       DOMAIN files.checkpoints = {0} /\ files.checkpoints[0] = CheckpointOf(cursor)
  /\ pc \in {"initSegment", "initSegmentSync", "initCursor"} =>
       DOMAIN disk.checkpoints = {0} /\ disk.checkpoints[0] = CheckpointOf(cursor)

\* Which names an open journal has: those it retains, and a successor while it seals.
Named ==
  /\ pc \in {"recoverReplay", "recoverFsync", "replay"} \cup Gathering \cup (Reporting \ Sealing)
     \/ (pc = "salvage" /\ ~mem.unusable) => \A b \in AnyNames(files, disk) : b <= cursor.segment
  /\ pc = "recoverSync" => AboveOpen = {}
  /\ Usable => Bases \subseteq DOMAIN segments \cup
       (IF pc \in {"sealSegmentSync", "sealCursor", "sealCursorSync"} THEN {Index(cursor)} ELSE {})
  /\ pc \in Sealing => Index(cursor) > cursor.segment
  /\ pc = "sealCheckpointSync" => Index(cursor) \in DOMAIN files.checkpoints
  /\ pc \in {"sealSegment", "sealSegmentSync", "sealCursor"} => Index(cursor) \in SureChecked(files, disk)

AcceptInv == NeverRefused /\ Acceptable /\ Cursors /\ Synced /\ Created /\ Named
-----------------------------------------------------------------------------
(* What keeps the files acceptable.                                        *)

\* Bases and names are numbers, segments are sequences of messages.
LEMMA FileTypes ==
  ASSUME NEW f, FilesOK(f)
  PROVE  /\ DOMAIN f = {"cursor", "checkpoints", "segments"} /\ f.cursor \in Cursor
         /\ DOMAIN f.segments \in SUBSET Nat /\ DOMAIN f.checkpoints \in SUBSET Nat
         /\ \A b \in DOMAIN f.segments : f.segments[b] \in Seq(Message) /\ Len(f.segments[b]) \in Nat
         /\ \A b \in DOMAIN f.checkpoints : f.checkpoints[b] \in Checkpoint
BY LenProperties DEF FilesOK, Directory

\* Files that differ less, and hold nothing else, are accepted as well.
LEMMA AcceptedNarrows ==
  ASSUME NEW f, NEW g, NEW f2, NEW g2, NEW c, Accepted(f, g, c),
         AnyBases(f2, g2) \subseteq AnyBases(f, g), AnyNames(f2, g2) \subseteq AnyNames(f, g),
         SureBases(f, g) \subseteq SureBases(f2, g2), SureChecked(f, g) \subseteq SureChecked(f2, g2),
         \A b \in DOMAIN f2.segments \ DOMAIN g2.segments : b > c.segment,
         \A b \in DOMAIN f2.segments : Placed(b, f2.segments[b], f, g, c),
         \A b \in DOMAIN g2.segments : Placed(b, g2.segments[b], f, g, c),
         \A b \in DOMAIN f2.checkpoints : Fits(b, f2.checkpoints[b], c),
         \A b \in DOMAIN g2.checkpoints : Fits(b, g2.checkpoints[b], c)
  PROVE  Accepted(f2, g2, c)
<1>1. ASSUME NEW b, NEW lines, Placed(b, lines, f, g, c) PROVE Placed(b, lines, f2, g2, c)
  BY <1>1 DEF Placed
<1>2. /\ c.segment \in SureBases(f2, g2) /\ c.segment <= Index(c)
      /\ \A b \in AnyNames(f2, g2) : b <= c.segment \/ b = Index(c)
      /\ \A b \in AnyBases(f2, g2) : b <= c.segment => b \in SureChecked(f2, g2)
  BY DEF Accepted
<1>3. \A b \in AnyNames(f2, g2) \ SureBases(f2, g2) : b <= c.segment => \A x \in AnyBases(f2, g2) : b <= x
  <2>1. \A b \in AnyNames(f2, g2) \ SureBases(f2, g2) : b \in AnyNames(f, g) \ SureBases(f, g)
    OBVIOUS
  <2> QED BY <2>1 DEF Accepted
<1> QED BY <1>1, <1>2, <1>3 DEF Accepted

\* What is placed in one state of the files is no place of a base inside.
LEMMA AcceptedParts ==
  ASSUME NEW f, NEW g, FilesOK(f), FilesOK(g), NEW c \in Cursor, Accepted(f, g, c)
  PROVE  /\ AnyBases(f, g) \in SUBSET Nat /\ AnyNames(f, g) \in SUBSET Nat
         /\ SureBases(f, g) \in SUBSET Nat /\ SureBases(f, g) \subseteq AnyBases(f, g)
         /\ AnyBases(f, g) \subseteq AnyNames(f, g)
         /\ c.segment \in Nat /\ Index(c) \in Nat /\ c.segment \in SureBases(f, g) /\ c.segment <= Index(c)
         /\ c.segment \in AnyBases(f, g)
         /\ \A b \in DOMAIN f.segments : Placed(b, f.segments[b], f, g, c)
         /\ \A b \in DOMAIN g.segments : Placed(b, g.segments[b], f, g, c)
<1>1. c.segment \in Nat /\ Index(c) \in Nat
  BY CursorParts
<1>2. /\ DOMAIN f.segments \in SUBSET Nat /\ DOMAIN f.checkpoints \in SUBSET Nat
      /\ DOMAIN g.segments \in SUBSET Nat /\ DOMAIN g.checkpoints \in SUBSET Nat
  BY FileTypes
<1> QED BY <1>1, <1>2 DEF Accepted, AnyBases, AnyNames, SureBases

\* Of two versions of a segment that are in place, what a power loss leaves is.
LEMMA TornPlaced ==
  ASSUME NEW f, NEW g, FilesOK(f), FilesOK(g), NEW c \in Cursor, Accepted(f, g, c), NEW n \in Int,
         NEW b \in SureBases(f, g)
  PROVE  Placed(b, Torn(f.segments[b], g.segments[b], n), f, g, c)
<1> DEFINE p == f.segments[b]
           q == g.segments[b]
           shorter == IF Len(p) < Len(q) THEN p ELSE q
           longer == IF Len(p) < Len(q) THEN q ELSE p
           t == Torn(p, q, n)
<1>1. /\ p \in Seq(Message) /\ q \in Seq(Message) /\ Len(p) \in Nat /\ Len(q) \in Nat /\ b \in Nat
      /\ Placed(b, p, f, g, c) /\ Placed(b, q, f, g, c) /\ c.segment \in Nat /\ Index(c) \in Nat
      /\ SureBases(f, g) \in SUBSET Nat /\ SureBases(f, g) \subseteq AnyBases(f, g)
  BY FileTypes, AcceptedParts DEF SureBases
<1> HIDE DEF p, q
<1>2. t = shorter \/ t = longer \/ (n > Len(shorter) /\ n < Len(longer) /\ t = SubSeq(longer, 1, n))
  BY <1>1 DEF Torn
<1>3. shorter \in {p, q} /\ longer \in {p, q} /\ Len(shorter) <= Len(longer)
  BY <1>1
<1>4. Placed(b, shorter, f, g, c) /\ Placed(b, longer, f, g, c)
  BY <1>1, <1>3
<1>5. ASSUME n > Len(shorter), n < Len(longer), t = SubSeq(longer, 1, n) PROVE Placed(b, t, f, g, c)
  <2>1. longer \in Seq(Message) /\ Len(longer) \in Nat /\ Len(shorter) \in Nat /\ n \in Nat
    BY <1>1, <1>3, <1>5
  <2>2. Len(t) = n /\ \A k \in 1..n : t[k] = longer[k]
    <3>1. \A i \in 1..n : longer[i] \in Message
      BY <1>5, <2>1, ElementOfSeq
    <3> HIDE DEF longer, shorter
    <3> QED BY <1>5, <2>1, <3>1, SubSeqProperties
  <2> HIDE DEF t, longer, shorter
  <2>3. CASE b > c.segment
    <3>1. Len(longer) = 0
      BY <1>4, <2>3, EmptySeq DEF Placed
    <3> QED BY <1>5, <2>1, <3>1
  <2>4. CASE b < c.segment
    <3>1. /\ shorter # <<>> /\ b + Len(shorter) \in AnyBases(f, g)
          /\ b + Len(shorter) <= b \/ b + Len(shorter) >= b + Len(longer)
      BY <1>1, <1>4, <2>4 DEF Placed
    <3>2. Len(shorter) # 0
      <4>1. shorter \in Seq(Message)
        BY <1>1, <1>3
      <4> QED BY <3>1, <4>1, EmptySeq
    <3> QED BY <1>1, <1>5, <2>1, <3>1, <3>2
  <2>5. CASE b = c.segment
    <3>1. Len(shorter) >= Index(c) - b /\ \A k \in 1..Len(longer) : b + k <= Index(c) => longer[k] = c.prefix[b + k]
      BY <1>1, <1>4, <2>5 DEF Placed
    <3>2. \A k \in 1..n : k \in 1..Len(longer)
      BY <1>5, <2>1
    <3>3. Len(t) >= Index(c) - b /\ \A k \in 1..Len(t) : b + k <= Index(c) => t[k] = c.prefix[b + k]
      BY <1>1, <1>5, <2>1, <2>2, <3>1, <3>2
    <3>4. ~(b > c.segment) /\ ~(b < c.segment)
      BY <1>1, <2>5
    <3> QED BY <3>3, <3>4 DEF Placed
  <2> QED BY <1>1, <2>3, <2>4, <2>5
<1> QED BY <1>2, <1>4, <1>5 DEF p, q

\* A fsync of the journal directory: what is visible has a durable name.
LEMMA AcceptedSynced ==
  ASSUME TypeInv, NEW c \in Cursor, Accepted(files, disk, c)
  PROVE  Accepted(files, SyncedJournal, c)
<1> DEFINE g == SyncedJournal
<1>1. FilesOK(files) /\ FilesOK(disk) /\ DOMAIN disk = {"cursor", "checkpoints", "segments"}
  BY FileTypes DEF TypeInv, TypeOK
<1>2. /\ g.checkpoints = files.checkpoints /\ DOMAIN g.segments = Bases
      /\ \A b \in Bases : g.segments[b] = IF b \in DOMAIN disk.segments THEN disk.segments[b] ELSE <<>>
  BY <1>1 DEF SyncedJournal
<1> HIDE DEF g
<1>3. /\ AnyBases(files, g) = Bases /\ SureBases(files, g) = Bases
      /\ SureChecked(files, g) = DOMAIN files.checkpoints /\ AnyNames(files, g) = Bases \cup DOMAIN files.checkpoints
  BY <1>2 DEF AnyBases, SureBases, SureChecked, AnyNames, Bases
<1>4. /\ AnyBases(files, g) \subseteq AnyBases(files, disk) /\ AnyNames(files, g) \subseteq AnyNames(files, disk)
      /\ SureBases(files, disk) \subseteq SureBases(files, g) /\ SureChecked(files, disk) \subseteq SureChecked(files, g)
  BY <1>3 DEF AnyBases, SureBases, SureChecked, AnyNames, Bases
<1>5. \A b \in DOMAIN g.segments : Placed(b, g.segments[b], files, disk, c)
  <2> SUFFICES ASSUME NEW b \in Bases PROVE Placed(b, g.segments[b], files, disk, c)
    BY <1>2
  <2>1. CASE b \in DOMAIN disk.segments
    BY <1>2, <2>1 DEF Accepted
  <2>2. CASE b \notin DOMAIN disk.segments
    <3>1. b > c.segment /\ g.segments[b] = <<>> /\ b \in Nat /\ c.segment \in Nat
      BY <1>1, <1>2, <2>2, FileTypes, CursorParts DEF Accepted, Bases
    <3> QED BY <3>1 DEF Placed
  <2> QED BY <2>1, <2>2
<1>6. \A b \in DOMAIN files.segments \ DOMAIN g.segments : b > c.segment
  BY <1>2 DEF Bases
<1>7. /\ \A b \in DOMAIN files.segments : Placed(b, files.segments[b], files, disk, c)
      /\ \A b \in DOMAIN files.checkpoints : Fits(b, files.checkpoints[b], c)
      /\ \A b \in DOMAIN g.checkpoints : Fits(b, g.checkpoints[b], c)
  BY <1>2 DEF Accepted
<1>8. Accepted(files, g, c)
  BY <1>4, <1>5, <1>6, <1>7, AcceptedNarrows
<1> QED BY <1>8 DEF g

\* A kill: the kernel writes back what is visible.
LEMMA AcceptedWrittenBack ==
  ASSUME NEW f, NEW g, NEW c, Accepted(f, g, c)
  PROVE  Accepted(f, f, c)
<1>1. /\ AnyBases(f, f) \subseteq AnyBases(f, g) /\ AnyNames(f, f) \subseteq AnyNames(f, g)
      /\ SureBases(f, g) \subseteq SureBases(f, f) /\ SureChecked(f, g) \subseteq SureChecked(f, f)
  BY DEF AnyBases, SureBases, SureChecked, AnyNames
<1>2. /\ \A b \in DOMAIN f.segments : Placed(b, f.segments[b], f, g, c)
      /\ \A b \in DOMAIN f.checkpoints : Fits(b, f.checkpoints[b], c)
  BY DEF Accepted
<1>3. \A b \in DOMAIN f.segments \ DOMAIN f.segments : b > c.segment
  OBVIOUS
<1> QED BY <1>1, <1>2, <1>3, AcceptedNarrows

\* A power loss: of every entry either state.
LEMMA AcceptedSurvives ==
  ASSUME TypeInv, NEW c \in Cursor, Accepted(files, disk, c), NEW h,
         NEW keptCheckpoints, NEW keptSegments \in SUBSET Unsynced(files.segments, disk.segments), NEW n \in Int,
         h.checkpoints = Survivors(files.checkpoints, disk.checkpoints, keptCheckpoints),
         h.segments = SurvivingSegments(keptSegments, n)
  PROVE  Accepted(h, h, c)
<1>1. FilesOK(files) /\ FilesOK(disk)
  BY DEF TypeInv, TypeOK
<1>2. /\ DOMAIN h.checkpoints = (keptCheckpoints \cap DOMAIN files.checkpoints) \cup (DOMAIN disk.checkpoints \ keptCheckpoints)
      /\ \A b \in DOMAIN h.checkpoints :
           h.checkpoints[b] = IF b \in keptCheckpoints THEN files.checkpoints[b] ELSE disk.checkpoints[b]
  BY DEF Survivors
<1>3. /\ DOMAIN h.segments = (keptSegments \cap DOMAIN files.segments) \cup (DOMAIN disk.segments \ keptSegments)
      /\ \A b \in DOMAIN h.segments :
           h.segments[b] = IF b \in SureBases(files, disk) THEN Torn(files.segments[b], disk.segments[b], n)
                           ELSE IF b \in keptSegments THEN files.segments[b] ELSE disk.segments[b]
  BY DEF Survivors, SurvivingSegments, SureBases, Bases
<1>4. /\ AnyBases(h, h) \subseteq AnyBases(files, disk) /\ AnyNames(h, h) \subseteq AnyNames(files, disk)
      /\ SureBases(files, disk) \subseteq SureBases(h, h) /\ SureChecked(files, disk) \subseteq SureChecked(h, h)
  BY <1>2, <1>3 DEF AnyBases, SureBases, SureChecked, AnyNames
<1>5. \A b \in DOMAIN h.segments : Placed(b, h.segments[b], files, disk, c)
  <2> TAKE b \in DOMAIN h.segments
  <2>1. CASE b \in SureBases(files, disk)
    BY <1>1, <1>3, <2>1, TornPlaced
  <2>2. CASE b \notin SureBases(files, disk)
    BY <1>3, <2>2 DEF Accepted
  <2> QED BY <2>1, <2>2
<1>6. \A b \in DOMAIN h.checkpoints : Fits(b, h.checkpoints[b], c)
  BY <1>2 DEF Accepted
<1>7. \A b \in DOMAIN h.segments \ DOMAIN h.segments : b > c.segment
  OBVIOUS
<1> QED BY <1>4, <1>5, <1>6, <1>7, AcceptedNarrows

\* New lines in one segment, visible or synced.
LEMMA AcceptedRewritten ==
  ASSUME NEW f, NEW g, NEW f2, NEW g2, NEW c, Accepted(f, g, c), NEW s,
         f2.checkpoints = f.checkpoints, g2.checkpoints = g.checkpoints,
         DOMAIN f2.segments = DOMAIN f.segments, DOMAIN g2.segments = DOMAIN g.segments,
         \A b \in DOMAIN f.segments : b # s => f2.segments[b] = f.segments[b],
         \A b \in DOMAIN g.segments : b # s => g2.segments[b] = g.segments[b],
         s \in DOMAIN f.segments => Placed(s, f2.segments[s], f, g, c),
         s \in DOMAIN g.segments => Placed(s, g2.segments[s], f, g, c)
  PROVE  Accepted(f2, g2, c)
<1>1. /\ AnyBases(f2, g2) \subseteq AnyBases(f, g) /\ AnyNames(f2, g2) \subseteq AnyNames(f, g)
      /\ SureBases(f, g) \subseteq SureBases(f2, g2) /\ SureChecked(f, g) \subseteq SureChecked(f2, g2)
  BY DEF AnyBases, SureBases, SureChecked, AnyNames
<1>2. /\ \A b \in DOMAIN f2.segments : Placed(b, f2.segments[b], f, g, c)
      /\ \A b \in DOMAIN g2.segments : Placed(b, g2.segments[b], f, g, c)
  BY DEF Accepted
<1>3. /\ \A b \in DOMAIN f2.checkpoints : Fits(b, f2.checkpoints[b], c)
      /\ \A b \in DOMAIN g2.checkpoints : Fits(b, g2.checkpoints[b], c)
      /\ \A b \in DOMAIN f2.segments \ DOMAIN g2.segments : b > c.segment
  BY DEF Accepted
<1> QED BY <1>1, <1>2, <1>3, AcceptedNarrows

\* The checkpoint of a successor.
LEMMA AcceptedCheckpoint ==
  ASSUME NEW f, NEW g, FilesOK(f), FilesOK(g), NEW c \in Cursor, Accepted(f, g, c), NEW f2,
         f2.segments = f.segments, f2.checkpoints = With(f.checkpoints, Index(c), CheckpointOf(c)),
         Index(c) > c.segment
  PROVE  Accepted(f2, g, c)
<1> DEFINE s == Index(c)
<1>1. /\ DOMAIN f2.checkpoints = DOMAIN f.checkpoints \cup {s}
      /\ \A b \in DOMAIN f2.checkpoints : f2.checkpoints[b] = IF b = s THEN CheckpointOf(c) ELSE f.checkpoints[b]
  BY DEF With
<1>2. /\ AnyBases(f2, g) = AnyBases(f, g) /\ SureBases(f2, g) = SureBases(f, g)
      /\ AnyNames(f2, g) = AnyNames(f, g) \cup {s} /\ SureChecked(f, g) \subseteq SureChecked(f2, g)
  BY <1>1 DEF AnyBases, SureBases, AnyNames, SureChecked
<1>3. s \in Nat /\ c.segment \in Nat /\ ~(s <= c.segment)
  BY CursorParts
<1>4. Fits(s, CheckpointOf(c), c)
  <2>1. c.prefix \in Seq(Message)
    BY CursorParts
  <2> QED BY <2>1, BeginsReflexive DEF Fits, CheckpointOf, Index
<1> HIDE DEF s
<1>5. \A b \in DOMAIN f2.checkpoints : Fits(b, f2.checkpoints[b], c)
  BY <1>1, <1>4 DEF Accepted
<1>6. \A b, lines : Placed(b, lines, f, g, c) => Placed(b, lines, f2, g, c)
  BY <1>2 DEF Placed
<1>7. /\ c.segment \in SureBases(f2, g) /\ c.segment <= Index(c)
      /\ \A b \in AnyNames(f2, g) : b <= c.segment \/ b = Index(c)
      /\ \A b \in AnyBases(f2, g) : b <= c.segment => b \in SureChecked(f2, g)
      /\ \A b \in AnyNames(f2, g) \ SureBases(f2, g) : b <= c.segment => \A x \in AnyBases(f2, g) : b <= x
  BY <1>2, <1>3 DEF Accepted, s
<1>8. /\ \A b \in DOMAIN f2.segments \ DOMAIN g.segments : b > c.segment
      /\ \A b \in DOMAIN f2.segments : Placed(b, f2.segments[b], f2, g, c)
      /\ \A b \in DOMAIN g.segments : Placed(b, g.segments[b], f2, g, c)
      /\ \A b \in DOMAIN g.checkpoints : Fits(b, g.checkpoints[b], c)
  BY <1>6 DEF Accepted
<1> QED BY <1>5, <1>7, <1>8 DEF Accepted

\* A sealed segment ends before the open one.
LEMMA PlacedBelow ==
  ASSUME NEW f, NEW g, NEW c, c.segment \in AnyBases(f, g), c.segment \in Nat,
         NEW b \in Nat, NEW lines \in Seq(Message), Placed(b, lines, f, g, c), b < c.segment
  PROVE  b + Len(lines) <= c.segment /\ Len(lines) \in Nat /\ Len(lines) # 0
<1>1. Len(lines) \in Nat /\ Len(lines) # 0
  BY LenProperties, EmptySeq DEF Placed
<1>2. c.segment <= b \/ c.segment >= b + Len(lines)
  BY DEF Placed
<1> QED BY <1>1, <1>2

\* The empty segment of a successor.
LEMMA AcceptedSegment ==
  ASSUME NEW f, NEW g, FilesOK(f), FilesOK(g), NEW c \in Cursor, Accepted(f, g, c), NEW f2,
         f2.checkpoints = f.checkpoints, f2.segments = With(f.segments, Index(c), <<>>),
         Index(c) > c.segment
  PROVE  Accepted(f2, g, c)
<1> DEFINE s == Index(c)
<1>1. /\ DOMAIN f2.segments = DOMAIN f.segments \cup {s}
      /\ \A b \in DOMAIN f2.segments : f2.segments[b] = IF b = s THEN <<>> ELSE f.segments[b]
  BY DEF With
<1>2. /\ AnyBases(f2, g) = AnyBases(f, g) \cup {s} /\ SureBases(f, g) \subseteq SureBases(f2, g)
      /\ AnyNames(f2, g) = AnyNames(f, g) \cup {s} /\ SureChecked(f, g) = SureChecked(f2, g)
  BY <1>1 DEF AnyBases, SureBases, AnyNames, SureChecked
<1>3. /\ s \in Nat /\ c.segment \in Nat /\ ~(s <= c.segment) /\ c.segment \in AnyBases(f, g)
      /\ AnyNames(f, g) \in SUBSET Nat /\ \A b \in DOMAIN f.segments : f.segments[b] \in Seq(Message)
      /\ \A b \in DOMAIN g.segments : g.segments[b] \in Seq(Message)
      /\ DOMAIN f.segments \in SUBSET Nat /\ DOMAIN g.segments \in SUBSET Nat
  BY CursorParts, AcceptedParts, FileTypes
<1> HIDE DEF s
<1>4. ASSUME NEW b \in Nat, NEW lines \in Seq(Message), Placed(b, lines, f, g, c) PROVE Placed(b, lines, f2, g, c)
  <2>1. CASE b < c.segment
    <3>1. b + Len(lines) <= c.segment /\ Len(lines) \in Nat
      BY <1>3, <1>4, <2>1, PlacedBelow
    <3>2. s >= b + Len(lines)
      BY <1>3, <3>1
    <3>3. \A x \in AnyBases(f2, g) : x <= b \/ x >= b + Len(lines)
      BY <1>2, <1>4, <2>1, <3>2 DEF Placed
    <3> QED BY <1>2, <1>4, <2>1, <3>3 DEF Placed
  <2>2. CASE ~(b < c.segment)
    BY <1>4, <2>2 DEF Placed
  <2> QED BY <2>1, <2>2
<1>5. Placed(s, <<>>, f2, g, c)
  BY <1>3 DEF Placed
<1>6. \A b \in DOMAIN f2.segments : Placed(b, f2.segments[b], f2, g, c)
  <2>1. \A b \in DOMAIN f.segments : Placed(b, f.segments[b], f2, g, c)
    BY <1>3, <1>4 DEF Accepted
  <2> QED BY <1>1, <1>5, <2>1
<1>7. \A b \in DOMAIN g.segments : Placed(b, g.segments[b], f2, g, c)
  BY <1>3, <1>4 DEF Accepted
<1>8. /\ c.segment \in SureBases(f2, g) /\ c.segment <= Index(c)
      /\ \A b \in AnyNames(f2, g) : b <= c.segment \/ b = Index(c)
      /\ \A b \in AnyBases(f2, g) : b <= c.segment => b \in SureChecked(f2, g)
  BY <1>2, <1>3 DEF Accepted, s
<1>9. ASSUME NEW b \in AnyNames(f2, g) \ SureBases(f2, g), b <= c.segment, NEW x \in AnyBases(f2, g) PROVE b <= x
  <2>1. b \in AnyNames(f, g) \ SureBases(f, g)
    BY <1>2, <1>3, <1>9
  <2>2. CASE x = s
    BY <1>3, <1>9, <2>1, <2>2
  <2>3. CASE x # s
    BY <1>2, <1>9, <2>1, <2>3 DEF Accepted
  <2> QED BY <2>2, <2>3
<1>10. \A b \in DOMAIN f2.segments \ DOMAIN g.segments : b > c.segment
  BY <1>1, <1>3 DEF Accepted, s
<1>11. /\ \A b \in DOMAIN f2.checkpoints : Fits(b, f2.checkpoints[b], c)
       /\ \A b \in DOMAIN g.checkpoints : Fits(b, g.checkpoints[b], c)
  BY DEF Accepted
<1> QED BY <1>6, <1>7, <1>8, <1>9, <1>10, <1>11 DEF Accepted

\* A segment is erased: the oldest, or a successor that was never opened.
LEMMA AcceptedErased ==
  ASSUME NEW f, NEW g, FilesOK(f), FilesOK(g), NEW c \in Cursor, Accepted(f, g, c), NEW f2, NEW s \in Nat,
         f2.checkpoints = f.checkpoints, f2.segments = Without(f.segments, s),
         s > c.segment \/ (s # c.segment /\ \A x \in AnyBases(f, g) : s <= x)
  PROVE  Accepted(f2, g, c)
<1>1. /\ DOMAIN f2.segments = DOMAIN f.segments \ {s}
      /\ \A b \in DOMAIN f2.segments : f2.segments[b] = f.segments[b]
  BY DEF Without
<1>2. /\ AnyBases(f2, g) \subseteq AnyBases(f, g) /\ SureBases(f2, g) = SureBases(f, g) \ {s}
      /\ AnyNames(f2, g) \subseteq AnyNames(f, g) /\ SureChecked(f, g) = SureChecked(f2, g)
  BY <1>1 DEF AnyBases, SureBases, AnyNames, SureChecked
<1>3. /\ c.segment \in Nat /\ c.segment \in AnyBases(f, g)
      /\ AnyNames(f, g) \in SUBSET Nat /\ (\A b \in DOMAIN f.segments : f.segments[b] \in Seq(Message) /\ b \in AnyBases(f, g))
      /\ (\A b \in DOMAIN g.segments : g.segments[b] \in Seq(Message) /\ b \in AnyBases(f, g))
      /\ DOMAIN f.segments \in SUBSET Nat /\ DOMAIN g.segments \in SUBSET Nat
  BY CursorParts, AcceptedParts, FileTypes DEF AnyBases
<1>4. ASSUME NEW b \in Nat, b \in AnyBases(f, g), NEW lines \in Seq(Message), Placed(b, lines, f, g, c)
      PROVE  Placed(b, lines, f2, g, c)
  <2>1. CASE b < c.segment
    <3>1. b + Len(lines) <= c.segment /\ Len(lines) \in Nat /\ Len(lines) # 0
      BY <1>3, <1>4, <2>1, PlacedBelow
    <3>2. b + Len(lines) # s
      BY <1>3, <1>4, <3>1
    <3>3. b + Len(lines) \in SureBases(f2, g)
      BY <1>2, <1>4, <2>1, <3>2 DEF Placed
    <3> QED BY <1>2, <1>4, <2>1, <3>3 DEF Placed
  <2>2. CASE ~(b < c.segment)
    BY <1>4, <2>2 DEF Placed
  <2> QED BY <2>1, <2>2
<1>5. \A b \in DOMAIN f2.segments : Placed(b, f2.segments[b], f2, g, c)
  BY <1>1, <1>3, <1>4 DEF Accepted
<1>6. \A b \in DOMAIN g.segments : Placed(b, g.segments[b], f2, g, c)
  BY <1>3, <1>4 DEF Accepted
<1>7. /\ c.segment \in SureBases(f2, g) /\ c.segment <= Index(c)
      /\ \A b \in AnyNames(f2, g) : b <= c.segment \/ b = Index(c)
      /\ \A b \in AnyBases(f2, g) : b <= c.segment => b \in SureChecked(f2, g)
  BY <1>2, <1>3 DEF Accepted
<1>8. ASSUME NEW b \in AnyNames(f2, g) \ SureBases(f2, g), b <= c.segment, NEW x \in AnyBases(f2, g) PROVE b <= x
  <2>1. CASE b = s
    BY <1>2, <1>3, <1>8, <2>1
  <2>2. CASE b # s
    BY <1>2, <1>8, <2>2 DEF Accepted
  <2> QED BY <2>1, <2>2
<1>9. /\ \A b \in DOMAIN f2.segments \ DOMAIN g.segments : b > c.segment
      /\ \A b \in DOMAIN f2.checkpoints : Fits(b, f2.checkpoints[b], c)
      /\ \A b \in DOMAIN g.checkpoints : Fits(b, g.checkpoints[b], c)
  BY <1>1 DEF Accepted
<1> QED BY <1>5, <1>6, <1>7, <1>8, <1>9 DEF Accepted

\* A checkpoint is erased that no segment needs.
LEMMA AcceptedForgets ==
  ASSUME NEW f, NEW g, NEW c, Accepted(f, g, c), NEW f2, f2.segments = f.segments,
         \A b \in DOMAIN f2.checkpoints : b \in DOMAIN f.checkpoints /\ f2.checkpoints[b] = f.checkpoints[b],
         \A b \in AnyBases(f, g) : b \in DOMAIN f.checkpoints /\ b <= c.segment => b \in DOMAIN f2.checkpoints
  PROVE  Accepted(f2, g, c)
<1>1. /\ AnyBases(f2, g) = AnyBases(f, g) /\ SureBases(f2, g) = SureBases(f, g)
      /\ AnyNames(f2, g) \subseteq AnyNames(f, g)
  BY DEF AnyBases, SureBases, AnyNames
<1>2. \A b, lines : Placed(b, lines, f, g, c) => Placed(b, lines, f2, g, c)
  BY <1>1 DEF Placed
<1>3. \A b \in AnyBases(f2, g) : b <= c.segment => b \in SureChecked(f2, g)
  BY <1>1 DEF Accepted, SureChecked
<1>4. /\ c.segment \in SureBases(f2, g) /\ c.segment <= Index(c)
      /\ \A b \in AnyNames(f2, g) : b <= c.segment \/ b = Index(c)
      /\ \A b \in AnyNames(f2, g) \ SureBases(f2, g) : b <= c.segment => \A x \in AnyBases(f2, g) : b <= x
  BY <1>1 DEF Accepted
<1>5. /\ \A b \in DOMAIN f2.segments : Placed(b, f2.segments[b], f2, g, c)
      /\ \A b \in DOMAIN g.segments : Placed(b, g.segments[b], f2, g, c)
  BY <1>2 DEF Accepted
<1>6. /\ \A b \in DOMAIN f2.segments \ DOMAIN g.segments : b > c.segment
      /\ \A b \in DOMAIN f2.checkpoints : Fits(b, f2.checkpoints[b], c)
      /\ \A b \in DOMAIN g.checkpoints : Fits(b, g.checkpoints[b], c)
  BY DEF Accepted
<1> QED BY <1>3, <1>4, <1>5, <1>6 DEF Accepted

\* A cursor of the same stream, or of an empty one that gets its predecessor.
LEMMA AcceptedAlike ==
  ASSUME NEW f, NEW g, NEW c, Accepted(f, g, c), NEW d,
         d.epoch = c.epoch, d.segment = c.segment, d.prefix = c.prefix, c.pred \in {0, d.pred}
  PROVE  Accepted(f, g, d)
<1>1. Index(d) = Index(c)
  BY DEF Index
<1>2. \A b, lines : Placed(b, lines, f, g, c) => Placed(b, lines, f, g, d)
  BY <1>1 DEF Placed
<1>3. \A b, doc : Fits(b, doc, c) => Fits(b, doc, d)
  BY DEF Fits
<1> QED BY <1>1, <1>2, <1>3 DEF Accepted

\* The first cursor of a new stream.
LEMMA AcceptedFresh ==
  ASSUME NEW f, NEW g, NEW e,
         DOMAIN f.segments = {0}, DOMAIN g.segments = {0}, f.segments[0] = <<>>, g.segments[0] = <<>>,
         DOMAIN f.checkpoints = {0}, DOMAIN g.checkpoints = {0},
         f.checkpoints[0] = CheckpointOf(FreshCursor(e)), g.checkpoints[0] = CheckpointOf(FreshCursor(e))
  PROVE  Accepted(f, g, FreshCursor(e))
<1> DEFINE c == FreshCursor(e)
<1>1. c.segment = 0 /\ c.prefix = <<>> /\ Len(<<>>) = 0 /\ <<>> \in Seq(Message)
  BY EmptySeq DEF FreshCursor
<1>2. Index(c) = 0
  BY <1>1 DEF Index
<1>3. Fits(0, CheckpointOf(c), c)
  <2>1. Begins(<<>>, <<>>)
    BY <1>1, BeginsReflexive
  <2> HIDE DEF c
  <2> QED BY <1>1, <2>1 DEF Fits, CheckpointOf
<1> HIDE DEF c
<1>4. Placed(0, <<>>, f, g, c)
  <2>1. ~(0 > 0) /\ ~(0 < 0) /\ 0 >= 0 - 0 /\ 1..0 = {}
    OBVIOUS
  <2> QED BY <1>1, <1>2, <2>1 DEF Placed
<1>5. AnyBases(f, g) = {0} /\ SureBases(f, g) = {0} /\ AnyNames(f, g) = {0} /\ SureChecked(f, g) = {0}
  BY DEF AnyBases, SureBases, AnyNames, SureChecked
<1>6. f.checkpoints[0] = CheckpointOf(c) /\ g.checkpoints[0] = CheckpointOf(c)
  BY DEF c
<1> QED BY <1>1, <1>2, <1>3, <1>4, <1>5, <1>6 DEF Accepted, c

\* A commit: the open segment has the lines of the batch before the cursor counts them.
LEMMA AcceptedCommits ==
  ASSUME NEW f, NEW g, FilesOK(f), FilesOK(g), NEW c \in Cursor, Accepted(f, g, c), NEW d \in Cursor,
         d.epoch = c.epoch, d.segment = c.segment, d.pred = c.pred, Begins(c.prefix, d.prefix),
         \A b \in AnyNames(f, g) : b <= c.segment,
         \A lines \in {f.segments[c.segment], g.segments[c.segment]} :
           /\ Len(lines) >= Index(d) - c.segment
           /\ \A k \in 1..Len(lines) : c.segment + k <= Index(d) => lines[k] = d.prefix[c.segment + k]
  PROVE  Accepted(f, g, d)
<1>1. /\ c.segment \in Nat /\ Index(c) \in Nat /\ Index(d) \in Nat /\ c.segment <= Index(c)
      /\ Index(c) <= Index(d) /\ Index(c) = Len(c.prefix) /\ c.segment \in AnyBases(f, g)
      /\ AnyBases(f, g) \in SUBSET Nat
  BY CursorParts, AcceptedParts DEF Begins, Index
<1>2. ASSUME NEW b \in AnyBases(f, g), NEW lines \in Seq(Message), Placed(b, lines, f, g, c),
             b = c.segment => lines \in {f.segments[c.segment], g.segments[c.segment]}
      PROVE  Placed(b, lines, f, g, d)
  <2>0. b \in Nat /\ b <= c.segment
    BY <1>1 DEF AnyNames
  <2>1. CASE b = c.segment
    BY <1>1, <1>2, <2>1 DEF Placed
  <2>2. CASE b < c.segment
    <3>1. b + Len(lines) <= c.segment /\ Len(lines) \in Nat
      BY <1>1, <1>2, <2>0, <2>2, PlacedBelow
    <3>2. ASSUME NEW k \in 1..Len(lines) PROVE lines[k] = d.prefix[b + k]
      <4>1. b + k \in 1..Len(c.prefix) /\ b + k <= Index(c)
        BY <1>1, <2>0, <3>1
      <4>2. lines[k] = c.prefix[b + k]
        BY <1>1, <1>2, <2>0, <2>2, <4>1 DEF Placed
      <4> QED BY <4>1, <4>2 DEF Begins
    <3> QED BY <1>1, <1>2, <2>0, <2>2, <3>2 DEF Placed
  <2> QED BY <1>1, <2>0, <2>1, <2>2
<1>3. \A b \in DOMAIN f.segments : Placed(b, f.segments[b], f, g, d)
  <2> TAKE b \in DOMAIN f.segments
  <2>1. b \in AnyBases(f, g) /\ f.segments[b] \in Seq(Message) /\ Placed(b, f.segments[b], f, g, c)
    BY FileTypes DEF Accepted, AnyBases
  <2> QED BY <1>2, <2>1
<1>4. \A b \in DOMAIN g.segments : Placed(b, g.segments[b], f, g, d)
  <2> TAKE b \in DOMAIN g.segments
  <2>1. b \in AnyBases(f, g) /\ g.segments[b] \in Seq(Message) /\ Placed(b, g.segments[b], f, g, c)
    BY FileTypes DEF Accepted, AnyBases
  <2> QED BY <1>2, <2>1
<1>5. ASSUME NEW b, NEW doc \in Checkpoint, Fits(b, doc, c) PROVE Fits(b, doc, d)
  <2>1. doc.prefix \in Seq(Message) /\ c.prefix \in Seq(Message) /\ d.prefix \in Seq(Message)
    BY PredType
  <2> QED BY <1>5, <2>1, BeginsTransitive DEF Fits
<1>6. /\ \A b \in DOMAIN f.checkpoints : Fits(b, f.checkpoints[b], d)
      /\ \A b \in DOMAIN g.checkpoints : Fits(b, g.checkpoints[b], d)
  BY <1>5, FileTypes DEF Accepted
<1>7. d.segment \in SureBases(f, g) /\ d.segment <= Index(d)
  BY <1>1 DEF Accepted
<1>8. /\ \A b \in AnyNames(f, g) : b <= d.segment \/ b = Index(d)
      /\ \A b \in AnyBases(f, g) : b <= d.segment => b \in SureChecked(f, g)
      /\ \A b \in AnyNames(f, g) \ SureBases(f, g) : b <= d.segment => \A x \in AnyBases(f, g) : b <= x
      /\ \A b \in DOMAIN f.segments \ DOMAIN g.segments : b > d.segment
  BY DEF Accepted
<1> QED BY <1>3, <1>4, <1>6, <1>7, <1>8 DEF Accepted

\* A seal: the successor is there before the cursor opens it.
LEMMA AcceptedSeals ==
  ASSUME NEW f, NEW g, FilesOK(f), FilesOK(g), NEW c \in Cursor, Accepted(f, g, c), NEW d,
         d.epoch = c.epoch, d.segment = Index(c), d.pred = c.pred, d.prefix = c.prefix,
         Index(c) > c.segment, Index(c) \in SureBases(f, g), Index(c) \in SureChecked(f, g),
         DOMAIN f.segments = DOMAIN g.segments,
         Len(f.segments[c.segment]) = Index(c) - c.segment, Len(g.segments[c.segment]) = Index(c) - c.segment
  PROVE  Accepted(f, g, d)
<1> DEFINE s == Index(c)
<1>1. /\ c.segment \in Nat /\ s \in Nat /\ c.segment < s /\ Index(d) = s /\ d.segment = s
      /\ c.segment \in AnyBases(f, g) /\ AnyBases(f, g) \in SUBSET Nat
      /\ \A b \in AnyBases(f, g) : b <= c.segment \/ b = s
      /\ s \in SureBases(f, g) /\ s \in SureChecked(f, g)
  <2>1. \A b \in AnyBases(f, g) : b <= c.segment \/ b = s
    BY DEF Accepted, AnyNames
  <2>2. Index(d) = s
    BY DEF Index
  <2> QED BY <2>1, <2>2, CursorParts, AcceptedParts
<1>2. \A lines \in {f.segments[c.segment], g.segments[c.segment]} : Len(lines) = s - c.segment
  OBVIOUS
<1> HIDE DEF s
<1>3. ASSUME NEW b \in AnyBases(f, g), NEW lines \in Seq(Message), Placed(b, lines, f, g, c),
             b = c.segment => lines \in {f.segments[c.segment], g.segments[c.segment]}
      PROVE  Placed(b, lines, f, g, d)
  <2>0. b \in Nat /\ Len(lines) \in Nat
    BY <1>1, LenProperties
  <2>1. CASE b = s
    <3>1. lines = <<>> /\ Len(<<>>) = 0
      BY <1>1, <1>3, <2>1 DEF Placed
    <3>2. ~(b > d.segment) /\ ~(b < d.segment) /\ Len(lines) >= Index(d) - b
      BY <1>1, <2>1, <3>1
    <3>3. 1..Len(lines) = {}
      BY <3>1
    <3> QED BY <3>2, <3>3 DEF Placed
  <2>2. CASE b = c.segment
    <3>1. Len(lines) = s - b /\ ~(b > d.segment) /\ b < d.segment /\ b # d.segment /\ b + Len(lines) = s
      BY <1>1, <1>2, <1>3, <2>0, <2>2, SMTT(40)
    <3>2. lines # <<>>
      <4>1. Len(lines) # 0
        BY <1>1, <2>2, <3>1
      <4> QED BY <4>1, EmptySeq
    <3>3. \A x \in AnyBases(f, g) : x <= b \/ x >= b + Len(lines)
      BY <1>1, <2>2, <3>1
    <3>4. \A k \in 1..Len(lines) : lines[k] = d.prefix[b + k]
      <4>1. \A k \in 1..Len(lines) : b + k <= s
        BY <1>1, <2>0, <3>1
      <4>2. b <= c.segment
        BY <1>1, <2>2
      <4> QED BY <1>3, <4>1, <4>2 DEF Placed, s
    <3> QED BY <1>1, <3>1, <3>2, <3>3, <3>4 DEF Placed
  <2>3. CASE b < c.segment
    <3>1. b < d.segment /\ b # d.segment /\ ~(b > d.segment) /\ b <= c.segment
      BY <1>1, <2>0, <2>3
    <3>2. Index(d) = Index(c)
      BY <1>1 DEF s
    <3> QED BY <1>3, <2>3, <3>1, <3>2 DEF Placed
  <2> QED BY <1>1, <2>0, <2>1, <2>2, <2>3
<1>4. \A b \in DOMAIN f.segments : Placed(b, f.segments[b], f, g, d)
  <2> TAKE b \in DOMAIN f.segments
  <2>1. b \in AnyBases(f, g) /\ f.segments[b] \in Seq(Message) /\ Placed(b, f.segments[b], f, g, c)
    BY FileTypes DEF Accepted, AnyBases
  <2> QED BY <1>3, <2>1
<1>5. \A b \in DOMAIN g.segments : Placed(b, g.segments[b], f, g, d)
  <2> TAKE b \in DOMAIN g.segments
  <2>1. b \in AnyBases(f, g) /\ g.segments[b] \in Seq(Message) /\ Placed(b, g.segments[b], f, g, c)
    BY FileTypes DEF Accepted, AnyBases
  <2> QED BY <1>3, <2>1
<1>6. \A b, doc : Fits(b, doc, c) => Fits(b, doc, d)
  BY DEF Fits
<1>7. d.segment \in SureBases(f, g) /\ d.segment <= Index(d)
  BY <1>1
<1>8. AnyNames(f, g) \in SUBSET Nat
  BY AcceptedParts
<1>9. \A b \in AnyNames(f, g) : b <= c.segment \/ b = s
  BY DEF Accepted, s
<1>10. \A b \in AnyNames(f, g) : b <= d.segment \/ b = Index(d)
  BY <1>1, <1>8, <1>9
<1>11. \A b \in AnyBases(f, g) : b <= d.segment => b \in SureChecked(f, g)
  BY <1>1 DEF Accepted
<1>12. \A b \in AnyNames(f, g) \ SureBases(f, g) : b <= d.segment => \A x \in AnyBases(f, g) : b <= x
  BY <1>1, <1>9 DEF Accepted
<1> QED BY <1>4, <1>5, <1>6, <1>7, <1>10, <1>11, <1>12 DEF Accepted
-----------------------------------------------------------------------------
(* Acceptable files are accepted.                                          *)

\* advance() over a part of a stream leads from its state before to that after.
LEMMA ReplayedRun ==
  ASSUME NEW p \in Seq(Message), NEW a \in Nat, NEW h, Run(h, p, a), NEW b \in 0..Len(p),
         NEW lines \in Seq(Message), b + Len(lines) <= Len(p), \A k \in 1..Len(lines) : lines[k] = p[b + k]
  PROVE  LET end == b + Len(lines)
         IN  Replayed([pred |-> a, seq |-> h[b].seq, cut |-> h[b].cut, last |-> h[b].last, ok |-> TRUE], lines)
             = [pred |-> a, seq |-> h[end].seq, cut |-> h[end].cut, last |-> h[end].last, ok |-> TRUE]
<1> DEFINE At(k) == [pred |-> a, seq |-> h[b + k].seq, cut |-> h[b + k].cut, last |-> h[b + k].last, ok |-> TRUE]
           n == Len(lines)
           Step1(t, k) == IF t.ok /\ CanAdvance(t, lines[k]) THEN Advance(t, lines[k]) ELSE [t EXCEPT !.ok = FALSE]
           Is(f) == f = [k \in 0..n |-> IF k = 0 THEN At(0) ELSE Step1(f[k - 1], k)]
           g == [k \in 0..n |-> At(k)]
<1>0. n \in Nat /\ b \in Nat /\ Len(p) \in Nat /\ b + 0 = b
  BY LenProperties
<1>1. ASSUME NEW k \in 1..n PROVE Step1(At(k - 1), k) = At(k)
  <2>1. b + k \in 1..Len(p) /\ (b + k) - 1 = b + (k - 1) /\ lines[k] = p[b + k]
    BY <1>0
  <2> DEFINE s == h[b + (k - 1)]
             t == h[b + k]
             m == lines[k]
  <2>2. CanAdvance(Before(s, a), m) /\ t = Advance(s, m) /\ s \in Segment /\ m \in Message
    <3>1. CanAdvance(Before(h[(b + k) - 1], a), p[b + k]) /\ h[b + k] = Advance(h[(b + k) - 1], p[b + k])
      BY <2>1 DEF Run
    <3>2. h[(b + k) - 1] \in Segment /\ p[b + k] \in Message
      BY <2>1, RunStep
    <3> QED BY <2>1, <3>1, <3>2
  <2> HIDE DEF s, t, m
  <2>3. CanAdvance([pred |-> a, seq |-> s.seq, cut |-> s.cut, last |-> s.last, ok |-> TRUE], m)
    BY <2>2 DEF CanAdvance, Before, Previous
  <2>4. Advance([pred |-> a, seq |-> s.seq, cut |-> s.cut, last |-> s.last, ok |-> TRUE], m)
        = [pred |-> a, seq |-> t.seq, cut |-> t.cut, last |-> t.last, ok |-> TRUE]
    BY <2>2 DEF Advance, Segment, Message
  <2> QED BY <2>3, <2>4 DEF s, t, m
<1>2. Is(g)
  <2>1. ASSUME NEW k \in 0..n PROVE g[k] = IF k = 0 THEN At(0) ELSE Step1(g[k - 1], k)
    <3>1. CASE k = 0
      BY <3>1
    <3>2. CASE k # 0
      <4>1. k \in 1..n /\ k - 1 \in 0..n
        BY <1>0, <3>2
      <4>2. g[k] = At(k) /\ g[k - 1] = At(k - 1)
        BY <4>1
      <4> HIDE DEF g, At, Step1
      <4> QED BY <1>1, <3>2, <4>1, <4>2
    <3> QED BY <3>1, <3>2
  <2>2. g = [k \in 0..n |-> g[k]]
    OBVIOUS
  <2> HIDE DEF g, At, Step1
  <2> QED BY <2>1, <2>2
<1> DEFINE state == CHOOSE f : Is(f)
<1>3. Is(state)
  <2> HIDE DEF Is, g
  <2> QED BY <1>2
<1>4. Replayed(At(0), lines) = state[n]
  BY DEF Replayed
<1> HIDE DEF state
<1> DEFINE Bad == {k \in 0..n : state[k] # At(k)}
<1>5. 0 \notin Bad
  <2> HIDE DEF At, Step1
  <2>1. 0 \in 0..n
    BY <1>0
  <2> QED BY <1>3, <2>1
<1>6. ASSUME NEW k \in 1..n, k \in Bad PROVE k - 1 \in Bad
  <2>1. k \in 0..n /\ k # 0 /\ k - 1 \in 0..n
    BY <1>0
  <2> HIDE DEF At, Step1
  <2>2. state[k] = Step1(state[k - 1], k)
    BY <1>3, <2>1
  <2>3. state[k - 1] # At(k - 1)
    BY <1>1, <1>6, <2>2
  <2> QED BY <2>1, <2>3
<1>7. Bad = {}
  <2> HIDE DEF n, At
  <2>1. Bad \in SUBSET (0..n)
    OBVIOUS
  <2> HIDE DEF Bad
  <2> QED BY <1>0, <1>5, <1>6, <2>1, NoneIsBad
<1>8. state[n] = At(n)
  <2>1. n \in 0..n
    BY <1>0
  <2> HIDE DEF At, n
  <2>2. n \notin Bad
    BY <1>7
  <2> QED BY <2>1, <2>2
<1>9. Replayed(At(0), lines) = At(n)
  BY <1>4, <1>8
<1> QED BY <1>0, <1>9

\* Nothing in the directories is unexpected.
LEMMA AcceptedIsExpected ==
  ASSUME TypeInv, Accepted(files, disk, cursor)
  PROVE  ~Unexpected
<1>1. /\ FilesOK(files) /\ FilesOK(disk) /\ cursor \in Cursor /\ cursor.segment \in Nat
      /\ Bases \in SUBSET Nat /\ Names \in SUBSET Nat
  <2>1. FilesOK(files) /\ FilesOK(disk) /\ cursor \in Cursor
    BY RetentionParts DEF TypeInv, TypeOK
  <2> QED BY <2>1, FileTypes, CursorParts DEF Bases, Names
<1>2. Bases \subseteq AnyBases(files, disk) /\ Names \subseteq AnyNames(files, disk) /\ SureBases(files, disk) \subseteq Bases
  BY DEF AnyBases, AnyNames, SureBases, Bases, Names
<1>3. ASSUME NEW b \in AboveOpen PROVE b = Index(cursor) /\ (b \in Bases => files.segments[b] = <<>>)
  <2>1. b \in Names /\ b > cursor.segment /\ b \in Nat
    BY <1>1 DEF AboveOpen
  <2>2. b = Index(cursor)
    BY <1>1, <1>2, <2>1 DEF Accepted
  <2>3. b \in Bases => Placed(b, files.segments[b], files, disk, cursor)
    BY DEF Accepted, Bases
  <2> QED BY <2>1, <2>2, <2>3 DEF Placed
<1>4. ASSUME NEW b \in Names \ AboveOpen PROVE (b \in Bases \/ b \in Orphans) /\ b \in DOMAIN files.checkpoints
  <2>1. b \in Nat /\ b <= cursor.segment
    BY <1>1 DEF AboveOpen
  <2>2. CASE b \in Bases
    <3>1. b \in SureChecked(files, disk)
      BY <1>2, <2>1, <2>2 DEF Accepted
    <3> QED BY <2>2, <3>1 DEF SureChecked
  <2>3. CASE b \notin Bases
    <3>1. b \in DOMAIN files.checkpoints
      BY <2>3 DEF Names
    <3>2. \A x \in {cursor.segment} \cup Bases : b < x
      <4>1. cursor.segment \in Bases
        BY <1>2 DEF Accepted
      <4> SUFFICES ASSUME NEW x \in Bases PROVE b < x
        BY <4>1
      <4>2. b <= x
        BY <1>2, <2>1, <2>3 DEF Accepted
      <4>3. b # x /\ x \in Nat
        BY <1>1, <2>3
      <4> QED BY <2>1, <4>2, <4>3
    <3>3. Min({cursor.segment} \cup Bases) \in {cursor.segment} \cup Bases
      <4> DEFINE S == {cursor.segment} \cup Bases
      <4>1. S \in SUBSET Nat /\ S # {}
        BY <1>1
      <4> HIDE DEF S
      <4>2. Min(S) \in S
        BY <4>1, MinOfNats
      <4> QED BY <4>2 DEF S
    <3> QED BY <2>3, <3>1, <3>2, <3>3 DEF Orphans
  <2> QED BY <2>2, <2>3
<1> QED BY <1>3, <1>4 DEF Unexpected

\* Once nothing is above the open segment, the journal verifies.
LEMMA AcceptedIsVerified ==
  ASSUME TypeInv, Truth, Accepted(files, disk, cursor), \A b \in Bases : b <= cursor.segment
  PROVE  RecoverVerified
<1> DEFINE p == cursor.prefix
           a == cursor.pred
           n == Index(cursor)
<1>1. /\ FilesOK(files) /\ FilesOK(disk) /\ cursor \in Cursor /\ cursor.segment \in Nat
      /\ Bases \in SUBSET Nat /\ p \in Seq(Message) /\ a \in Nat /\ n \in Nat /\ n = Len(p)
      /\ Bases = DOMAIN files.segments
  <2>1. FilesOK(files) /\ FilesOK(disk) /\ cursor \in Cursor
    BY RetentionParts DEF TypeInv, TypeOK
  <2> QED BY <2>1, FileTypes, CursorParts, PredType DEF Bases, Index
<1>2. Bases \subseteq AnyBases(files, disk) /\ cursor.segment \in Bases /\ cursor.segment <= n
      /\ SureBases(files, disk) \subseteq Bases
  BY DEF Accepted, AnyBases, SureBases, Bases
<1>3. PICK h : Run(h, p, a) /\ h[n] = SegmentOf(cursor)
  BY <1>1 DEF Truth, Honest, Truthful
<1> HIDE DEF p, a, n
<1>4. ASSUME NEW b \in Bases
      PROVE  /\ b \in DOMAIN files.checkpoints /\ files.checkpoints[b] \in Checkpoint
             /\ files.checkpoints[b].epoch = cursor.epoch /\ files.checkpoints[b].pred \in {0, cursor.pred}
             /\ Len(files.checkpoints[b].prefix) = b /\ Begins(files.checkpoints[b].prefix, p)
             /\ SegmentOf(files.checkpoints[b]) = h[b]
  <2> DEFINE d == files.checkpoints[b]
  <2>1. b \in DOMAIN files.checkpoints
    BY <1>2 DEF Accepted, SureChecked
  <2>2. d \in Checkpoint /\ Fits(b, d, cursor) /\ Truthful(d) /\ d.prefix \in Seq(Message) /\ d.pred \in Nat
    BY <1>1, <2>1, FileTypes, PredType DEF Accepted, Truth, HonestFiles
  <2> HIDE DEF d
  <2>3. Len(d.prefix) = b /\ Begins(d.prefix, p)
    BY <2>2 DEF Fits, p
  <2>4. SegmentOf(d) = h[b]
    BY <1>1, <1>3, <2>2, <2>3, StateAtEnd
  <2> QED BY <2>1, <2>2, <2>3, <2>4 DEF d, Fits
\* Where the lines of b end, and what they are.
<1>5. ASSUME NEW b \in Bases
      PROVE  /\ Lines(b) \in Seq(Message) /\ Len(Lines(b)) \in Nat
             /\ b + Len(Lines(b)) <= n /\ \A k \in 1..Len(Lines(b)) : Lines(b)[k] = p[b + k]
             /\ BoundaryAfter(b).prefix \in Seq(Message)
             /\ Len(BoundaryAfter(b).prefix) = b + Len(Lines(b)) /\ Begins(BoundaryAfter(b).prefix, p)
             /\ SegmentOf(BoundaryAfter(b)) = h[b + Len(Lines(b))]
             /\ b = cursor.segment => b <= n /\ Len(files.segments[b]) >= n - b
  <2> DEFINE lines == files.segments[b]
  <2>1. b \in Nat /\ lines \in Seq(Message) /\ Len(lines) \in Nat /\ Placed(b, lines, files, disk, cursor)
        /\ b <= cursor.segment
    BY <1>1, FileTypes DEF Accepted
  <2>2. CASE b = cursor.segment
    <3>1. Lines(b) = SubSeq(lines, 1, n - b) /\ BoundaryAfter(b) = CheckpointOf(cursor)
      BY <2>2 DEF Lines, BoundaryAfter, n
    <3>2. Len(lines) >= n - b /\ n - b \in Nat /\ \A k \in 1..Len(lines) : b + k <= n => lines[k] = p[b + k]
      BY <1>1, <1>2, <2>1, <2>2 DEF Placed, n, p
    <3> HIDE DEF lines
    <3>3. SubSeq(lines, 1, n - b) \in Seq(Message) /\ Len(SubSeq(lines, 1, n - b)) = n - b
          /\ \A k \in 1..(n - b) : SubSeq(lines, 1, n - b)[k] = lines[k]
      <4>1. \A i \in 1..(n - b) : lines[i] \in Message
        BY <2>1, <3>2, ElementOfSeq
      <4> QED BY <2>1, <3>2, <4>1, SubSeqProperties
    <3>4. \A k \in 1..(n - b) : k \in 1..Len(lines) /\ b + k <= n
      BY <1>1, <2>1, <3>2
    <3>5. b + (n - b) = n
      BY <1>1, <2>1
    <3>6. BoundaryAfter(b).prefix = p /\ SegmentOf(BoundaryAfter(b)) = SegmentOf(cursor)
      BY <3>1 DEF CheckpointOf, SegmentOf, p
    <3>7. Begins(p, p)
      BY <1>1, BeginsReflexive
    <3>8. \A k \in 1..(n - b) : SubSeq(lines, 1, n - b)[k] = p[b + k]
      BY <3>2, <3>3, <3>4
    <3> QED BY <1>1, <1>2, <1>3, <2>2, <3>1, <3>2, <3>3, <3>5, <3>6, <3>7, <3>8 DEF lines
  <2>3. CASE b # cursor.segment
    <3>1. Lines(b) = lines /\ BoundaryAfter(b) = files.checkpoints[Min({x \in Bases : x > b})]
      BY <2>3 DEF Lines, BoundaryAfter
    <3>2. b < cursor.segment
      BY <1>1, <2>1, <2>3
    <3> DEFINE e == b + Len(lines)
               S == {x \in Bases : x > b}
    <3>3. e <= cursor.segment /\ Len(lines) # 0 /\ e \in Nat
      <4>1. cursor.segment \in AnyBases(files, disk)
        BY <1>2
      <4> QED BY <1>1, <2>1, <3>2, <4>1, PlacedBelow, SMTT(40)
    <3>4. e \in Bases /\ \A x \in Bases : x <= b \/ x >= e
      BY <1>2, <2>1, <3>2 DEF Placed
    <3>5. Min(S) = e
      <4>1. e \in S /\ S \in SUBSET Nat /\ \A x \in S : e <= x
        BY <1>1, <2>1, <3>3, <3>4
      <4> HIDE DEF S, e
      <4>2. Min(S) \in S /\ Min(S) <= e
        BY <4>1, MinOfNats
      <4>3. e <= Min(S) /\ Min(S) \in Nat /\ e \in Nat
        BY <4>1, <4>2
      <4> QED BY <4>2, <4>3
    <3>6. e <= n
      BY <1>1, <1>2, <3>3
    <3>7. ASSUME NEW k \in 1..Len(lines) PROVE lines[k] = p[b + k]
      <4>1. b + k <= n
        BY <1>1, <2>1, <3>6
      <4> QED BY <2>1, <4>1 DEF Placed, n, p
    <3>8. BoundaryAfter(b) = files.checkpoints[e]
      BY <3>1, <3>5
    <3> HIDE DEF e, S
    <3>9. /\ Len(BoundaryAfter(b).prefix) = e /\ Begins(BoundaryAfter(b).prefix, p)
          /\ SegmentOf(BoundaryAfter(b)) = h[e] /\ BoundaryAfter(b).prefix \in Seq(Message)
      BY <1>4, <3>4, <3>8, PredType
    <3> QED BY <2>1, <2>3, <3>1, <3>6, <3>7, <3>9 DEF e
  <2> QED BY <2>2, <2>3
<1>6. ASSUME NEW b \in Bases PROVE SegmentVerified(b)
  <2> DEFINE doc == files.checkpoints[b]
             after == BoundaryAfter(b)
             lines == Lines(b)
             e == b + Len(lines)
             start == [pred |-> cursor.pred, seq |-> doc.seq, cut |-> doc.cut, last |-> doc.last, ok |-> TRUE]
             end == Replayed(start, lines)
  <2>1. /\ b \in Nat /\ b \in 0..Len(p) /\ doc.prefix \in Seq(Message) /\ Len(doc.prefix) = b /\ Begins(doc.prefix, p)
        /\ SegmentOf(doc) = h[b] /\ b \in DOMAIN files.checkpoints
    BY <1>1, <1>2, <1>4, PredType
  <2>2. /\ lines \in Seq(Message) /\ Len(lines) \in Nat /\ e <= n
        /\ \A k \in 1..Len(lines) : lines[k] = p[b + k]
        /\ after.prefix \in Seq(Message) /\ Len(after.prefix) = e /\ Begins(after.prefix, p)
        /\ SegmentOf(after) = h[e]
        /\ b = cursor.segment => b <= n /\ Len(files.segments[b]) >= n - b
    BY <1>5
  <2> HIDE DEF doc, after, lines
  <2>3. doc.prefix \o lines = after.prefix
    <3>1. /\ doc.prefix \o lines \in Seq(Message) /\ Len(doc.prefix \o lines) = e
          /\ \A k \in 1..e : (doc.prefix \o lines)[k] = IF k <= b THEN doc.prefix[k] ELSE lines[k - b]
      <4> DEFINE head == doc.prefix
                 all == head \o lines
      <4>1. head \in Seq(Message) /\ lines \in Seq(Message) /\ Len(head) = b
        BY <2>1, <2>2
      <4> HIDE DEF head
      <4>2. /\ all \in Seq(Message) /\ Len(all) = Len(head) + Len(lines)
            /\ \A k \in 1..Len(head) + Len(lines) : all[k] = IF k <= Len(head) THEN head[k] ELSE lines[k - Len(head)]
        BY <4>1, ConcatProperties
      <4> HIDE DEF all
      <4>3. Len(all) = e /\ \A k \in 1..e : all[k] = IF k <= b THEN head[k] ELSE lines[k - b]
        BY <4>1, <4>2
      <4> QED BY <4>2, <4>3 DEF all, head
    <3>2. ASSUME NEW k \in 1..e PROVE (doc.prefix \o lines)[k] = after.prefix[k]
      <4>1. after.prefix[k] = p[k]
        BY <2>2 DEF Begins
      <4>2. CASE k <= b
        <5>1. k \in 1..Len(doc.prefix)
          BY <2>1, <4>2
        <5> QED BY <2>1, <3>1, <4>1, <4>2, <5>1 DEF Begins
      <4>3. CASE ~(k <= b)
        <5>1. k - b \in 1..Len(lines) /\ b + (k - b) = k
          BY <2>1, <2>2, <4>3
        <5> QED BY <2>2, <3>1, <4>1, <4>3, <5>1
      <4> QED BY <4>2, <4>3
    <3> QED BY <2>2, <3>1, <3>2, SeqEqual
  <2>4. end = [pred |-> a, seq |-> h[e].seq, cut |-> h[e].cut, last |-> h[e].last, ok |-> TRUE]
    <3>1. doc.seq = h[b].seq /\ doc.cut = h[b].cut /\ doc.last = h[b].last
      <4>1. SegmentOf(doc).seq = doc.seq /\ SegmentOf(doc).cut = doc.cut /\ SegmentOf(doc).last = doc.last
        BY DEF SegmentOf
      <4> QED BY <2>1, <4>1
    <3>2. start = [pred |-> a, seq |-> h[b].seq, cut |-> h[b].cut, last |-> h[b].last, ok |-> TRUE]
      BY <3>1 DEF a
    <3>3. \A k \in 1..Len(lines) : lines[k] = p[b + k]
      BY <2>2
    <3>4. b \in 0..Len(p) /\ b + Len(lines) <= Len(p)
      BY <1>1, <2>1, <2>2
    <3>5. lines \in Seq(Message) /\ p \in Seq(Message) /\ a \in Nat
      BY <1>1, <2>2
    <3> HIDE DEF start, e
    <3>6. end = Replayed([pred |-> a, seq |-> h[b].seq, cut |-> h[b].cut, last |-> h[b].last, ok |-> TRUE], lines)
      BY <3>2
    <3> HIDE DEF end
    <3> QED BY <1>3, <3>3, <3>4, <3>5, <3>6, ReplayedRun DEF e
  <2>5. h[e].seq = after.seq /\ h[e].cut = after.cut /\ h[e].last = after.last
    BY <2>2 DEF SegmentOf
  <2>6. end.ok /\ end.seq = after.seq /\ end.cut = after.cut /\ end.last = after.last
    BY <2>4, <2>5
  <2>7. b = Index(doc)
    BY <2>1 DEF Index
  <2> QED BY <2>1, <2>2, <2>3, <2>6, <2>7 DEF SegmentVerified, doc, after, lines, n
<1>7. LET oldest == files.checkpoints[Min(Bases)]
      IN  oldest.epoch = cursor.epoch /\ oldest.pred \in {0, cursor.pred}
  <2>1. Min(Bases) \in Bases
    BY <1>1, <1>2, MinOfNats
  <2> QED BY <1>4, <2>1
<1> QED BY <1>2, <1>6, <1>7 DEF RecoverVerified
-----------------------------------------------------------------------------
(* A start accepts its files at every step.                                *)

\* Whether files are accepted is no matter of what cursor.json they have.
LEMMA AcceptedSame ==
  ASSUME NEW f, NEW g, NEW c, Accepted(f, g, c), NEW f2, NEW g2,
         f2.segments = f.segments, f2.checkpoints = f.checkpoints,
         g2.segments = g.segments, g2.checkpoints = g.checkpoints
  PROVE  Accepted(f2, g2, c)
BY DEF Accepted, AnyBases, SureBases, AnyNames, SureChecked, Placed

\* What the proof of a step uses.
LEMMA AcceptParts ==
  ASSUME TypeInv
  PROVE  /\ FilesOK(files) /\ FilesOK(disk) /\ DOMAIN mem = DOMAIN NoMemory
         /\ DOMAIN files = {"cursor", "checkpoints", "segments"}
         /\ DOMAIN disk = {"cursor", "checkpoints", "segments"}
         /\ cursor \in Cursor /\ durable \in Cursor /\ files.cursor \in Cursor /\ disk.cursor \in Cursor
         /\ cursor.segment \in Nat /\ Index(cursor) \in Nat /\ durable.segment \in Nat /\ Index(durable) \in Nat
         /\ Bases = DOMAIN files.segments /\ Bases \in SUBSET Nat
         /\ AnyBases(files, disk) \in SUBSET Nat /\ AnyNames(files, disk) \in SUBSET Nat
BY RetentionParts, CursorParts, FileTypes DEF TypeInv, TypeOK, Bases, AnyBases, AnyNames

\* Once a stream exists either state of cursor.json is accepted, and that is all it takes.
LEMMA AcceptableOpen ==
  ASSUME Acceptable, Cursors, pc \notin {"down"} \cup Initializing
  PROVE  /\ files.cursor.epoch # 0 /\ disk.cursor.epoch # 0
         /\ Accepted(files, disk, files.cursor) /\ Accepted(files, disk, disk.cursor)
BY DEF Acceptable, Cursors

\* Steps of the process that touch no file.
LEMMA AcceptIdle ==
  ASSUME TypeInv, PublishInv, AcceptInv, files' = files, disk' = disk,
         cursor' = cursor, durable' = durable, segments' = segments,
         \/ pc' = pc /\ mem'.unusable = mem.unusable
         \/ pc = "replay" /\ pc' = "publish"
         \/ pc \in {"idle", "salvage"} /\ ~mem.unusable /\ pc' = "append"
         \/ pc = "publish" /\ pc' = "idle"
         \/ pc = "idle" /\ pc' = "salvage"
         \/ pc \in CommitSteps /\ pc' = "salvage" /\ mem'.unusable
         \/ pc = "retain" /\ pc' = "publish"
  PROVE  AcceptInv'
<1> USE DEF Initializing, Gathering, Reporting, Sealing, Unlinking, Committing
<1>1. NeverRefused /\ Acceptable /\ Cursors /\ Synced /\ Created /\ Named
  BY DEF AcceptInv
<1>2. Acceptable' /\ Bases' = Bases /\ DOMAIN files'.checkpoints = DOMAIN files.checkpoints
  BY <1>1 DEF Acceptable, Bases
<1>3. NeverRefused'
  BY <1>1 DEF NeverRefused, CommitSteps
<1>4. Cursors'
  <2>1. CASE pc' = pc
    BY <1>1, <2>1 DEF Cursors
  <2>2. CASE pc = "replay" /\ pc' = "publish"
    <3>1. cursor = files.cursor /\ disk.cursor = files.cursor /\ durable = cursor
      BY <2>2 DEF PublishInv, Starting, Safe, Recovering, CursorUnsynced, TypeInv, Reading
    <3> QED BY <1>1, <2>2, <3>1 DEF Cursors
  <2>3. CASE pc = "publish" /\ pc' = "idle"
    BY <1>1, <2>3 DEF Cursors, SameStream
  <2>4. CASE pc \in CommitSteps /\ pc' = "salvage" /\ mem'.unusable
    BY <1>1, <2>4 DEF Cursors, CommitSteps
  <2>5. CASE pc = "retain" /\ pc' = "publish"
    BY <1>1, <2>5 DEF Cursors
  <2>6. CASE pc = "idle" /\ pc' = "salvage"
    BY <1>1, <2>6 DEF Cursors
  <2>7. CASE pc \in {"idle", "salvage"} /\ ~mem.unusable /\ pc' = "append"
    BY <1>1, <2>7 DEF Cursors
  <2> QED BY <2>1, <2>2, <2>3, <2>4, <2>5, <2>6, <2>7
<1>5. Synced'
  <2>1. CASE pc' = pc
    BY <1>1, <1>2, <2>1 DEF Synced
  <2>2. CASE pc \in CommitSteps /\ pc' = "salvage" /\ mem'.unusable
    BY <2>2 DEF Synced
  <2>3. CASE pc \in {"idle", "salvage"} /\ ~mem.unusable /\ pc' = "append"
    BY <1>1, <1>2, <2>3 DEF Synced, Same, Bases
  <2>4. CASE \/ pc = "replay" /\ pc' = "publish"
             \/ pc = "publish" /\ pc' = "idle"
             \/ pc = "idle" /\ pc' = "salvage"
             \/ pc = "retain" /\ pc' = "publish"
    BY <1>1, <1>2, <2>4 DEF Synced
  <2> QED BY <2>1, <2>2, <2>3, <2>4
<1>6. Created'
  <2>1. CASE pc' = pc
    BY <1>1, <1>2, <2>1 DEF Created
  <2>2. CASE pc' # pc
    BY <1>2, <2>2 DEF Created
  <2> QED BY <2>1, <2>2
<1>7. Named'
  <2>1. CASE pc' = pc
    <3>1. Names' = Names
      BY <1>2 DEF Names
    <3>2. AboveOpen' = AboveOpen
      BY <3>1 DEF AboveOpen
    <3>3. Usable' <=> Usable
      BY <2>1 DEF Usable, CommitSteps
    <3> QED BY <1>1, <1>2, <2>1, <3>2, <3>3 DEF Named
  <2>2. CASE pc' # pc
    BY <1>1, <1>2, <2>2 DEF Named, Usable, Reopening, CommitSteps
  <2> QED BY <2>1, <2>2
<1> QED BY <1>2, <1>3, <1>4, <1>5, <1>6, <1>7 DEF AcceptInv

\* Steps that stage, start, end or look around.
LEMMA AcceptProcess ==
  ASSUME WriteBack = TRUE, TypeInv, PublishInv, RetentionInv, AcceptInv,
         \/ RecoverScanned \/ Resume \/ StartFresh \/ Exit \/ ConsumerRebuilds
         \/ \E m \in Candidates : Stage(m)
  PROVE  AcceptInv'
<1> USE DEF Initializing, Gathering, Reporting, Sealing, Unlinking, Committing
<1>0. NeverRefused /\ Acceptable /\ Cursors /\ Synced /\ Created /\ Named /\ Safe /\ Starting
  BY DEF AcceptInv, PublishInv
<1>1. /\ FilesOK(files) /\ FilesOK(disk) /\ DOMAIN mem = DOMAIN NoMemory
      /\ DOMAIN files = {"cursor", "checkpoints", "segments"}
      /\ cursor \in Cursor /\ cursor.segment \in Nat /\ Bases = DOMAIN files.segments
      /\ AnyNames(files, disk) \in SUBSET Nat
  BY AcceptParts
<1>2. ASSUME files' = files, disk' = disk PROVE Acceptable'
  BY <1>0, <1>2 DEF Acceptable
<1>3. CASE RecoverScanned
  <2>1. /\ pc \in {"recover", "recoverDirty"} /\ cursor = files.cursor
        /\ Accepted(files, disk, files.cursor)
    BY <1>0, <1>3, AcceptableOpen DEF RecoverScanned, Starting, Recovering
  <2>2. ~Unexpected
    BY <2>1, AcceptedIsExpected
  <2>3. /\ files' = files /\ disk' = disk /\ mem' = mem /\ AboveOpen = {}
        /\ \/ pc = "recover" /\ pc' = "recoverReplay"
           \/ pc = "recoverDirty" /\ pc' = "recoverSync"
    BY <1>3, <2>1, <2>2 DEF RecoverScanned
  <2>4. cursor' = cursor /\ durable' = durable /\ segments' = segments /\ Bases' = Bases /\ Names' = Names
    BY <2>3 DEF cursor, durable, segments, Bases, Names
  <2>5. Cursors' /\ Created' /\ NeverRefused'
    BY <1>0, <2>3, <2>4 DEF Cursors, Created, NeverRefused
  <2>6. Synced'
    BY <1>0, <2>3, <2>4 DEF Synced, Same
  <2>7. pc = "recover" => \A b \in AnyNames(files, disk) : b <= cursor.segment
    <3> SUFFICES ASSUME pc = "recover", NEW b \in AnyNames(files, disk) PROVE b <= cursor.segment
      OBVIOUS
    <3>1. b \in Names
      BY <1>0, <1>1 DEF Synced, Same, AnyNames, AnyBases, Names
    <3> QED BY <1>1, <2>3, <3>1 DEF AboveOpen
  <2>8. AboveOpen' = {}
    BY <2>3, <2>4 DEF AboveOpen
  <2>9. Named'
    BY <2>3, <2>4, <2>7, <2>8 DEF Named, Usable, Reopening
  <2> QED BY <1>2, <2>3, <2>5, <2>6, <2>9 DEF AcceptInv
<1>4. CASE Resume
  <2>1. /\ pc = "down" /\ pc' = "recover" /\ files' = files /\ disk' = disk /\ files.cursor.epoch # 0
        /\ disk.cursor = files.cursor /\ Bases' = Bases
    BY <1>0, <1>4 DEF Resume, Safe, CursorUnsynced, Bases
  <2>2. Cursors' /\ Created' /\ NeverRefused' /\ Synced' /\ Named'
    BY <1>0, <2>1 DEF Cursors, Created, NeverRefused, Synced, Named, Usable, Reopening
  <2> QED BY <1>2, <2>1, <2>2 DEF AcceptInv
<1>5. CASE StartFresh
  <2>1. pc = "down" /\ files.cursor.epoch = 0 /\ disk' = disk /\ disk.cursor = files.cursor
    BY <1>0, <1>5 DEF StartFresh, Safe, CursorUnsynced
  <2>2. /\ \A b \in Bases : files.segments[b] = <<>>
        /\ \A b \in DOMAIN disk.segments : disk.segments[b] = <<>>
    BY <1>0, <1>1, <2>1 DEF Acceptable
  <2>3. /\ pc' = "initCheckpoint" /\ files' = [files EXCEPT !.checkpoints = <<>>, !.segments = <<>>]
        /\ mem' = [mem EXCEPT !.cursor = FreshCursor(epoch')]
    BY <1>5, <2>2 DEF StartFresh
  <2>4. /\ files'.cursor = files.cursor /\ DOMAIN files'.segments = {} /\ DOMAIN files'.checkpoints = {}
        /\ cursor' = FreshCursor(epoch') /\ cursor'.epoch = epoch' /\ Bases' = {}
    BY <1>1, <2>3, FreshParts DEF cursor, Bases, NoMemory
  <2>5. Acceptable'
    BY <2>1, <2>2, <2>4 DEF Acceptable
  <2>6. Cursors' /\ Created' /\ NeverRefused' /\ Synced' /\ Named'
    BY <2>1, <2>3, <2>4 DEF Cursors, Created, NeverRefused, Synced, Named, Usable, Reopening
  <2> QED BY <2>5, <2>6 DEF AcceptInv
<1>6. CASE Exit
  <2>1. pc' = "down" /\ files' = files /\ disk' = files
    BY <1>6 DEF Exit
  <2>2. files.cursor.epoch # 0 => Accepted(files, files, files.cursor)
    BY <1>0, AcceptedWrittenBack DEF Acceptable
  <2>3. Acceptable'
    BY <1>0, <2>1, <2>2 DEF Acceptable
  <2>4. Cursors' /\ Created' /\ NeverRefused' /\ Synced' /\ Named'
    BY <2>1 DEF Cursors, Created, NeverRefused, Synced, Same, Named, Usable, Reopening
  <2> QED BY <2>3, <2>4 DEF AcceptInv
<1>7. CASE ConsumerRebuilds
  <2>1. pc = "expired" /\ pc' = "down" /\ files' = files /\ disk' = disk
    BY <1>7 DEF ConsumerRebuilds
  <2>2. Cursors' /\ Created' /\ NeverRefused' /\ Synced' /\ Named'
    BY <1>0, <2>1 DEF Cursors, Created, NeverRefused, Synced, Named, Usable, Reopening
  <2> QED BY <1>2, <2>1, <2>2 DEF AcceptInv
<1>8. ASSUME NEW m \in Candidates, Stage(m) PROVE AcceptInv'
  <2>1. /\ pc = "idle" /\ pc' = "idle" /\ files' = files /\ disk' = disk /\ durable' = durable
        /\ segments' = segments /\ cursor' = Staged(cursor, m) /\ Bases' = Bases
    BY <1>1, <1>8 DEF Stage, NoMemory, cursor, durable, segments, Bases
  <2>2. /\ cursor'.epoch = cursor.epoch /\ cursor'.pred = cursor.pred /\ cursor'.segment = cursor.segment
    <3>1. m \in Message
      BY <1>1, CandidatesType
    <3> QED BY <1>1, <2>1, <3>1, StagedParts
  <2>3. Cursors' /\ Created' /\ NeverRefused' /\ Synced' /\ Named'
    BY <1>0, <2>1, <2>2 DEF Cursors, SameStream, Created, NeverRefused, Synced, Named, Usable, Reopening
  <2> QED BY <1>2, <2>1, <2>3 DEF AcceptInv
<1> QED BY <1>3, <1>4, <1>5, <1>6, <1>7, <1>8

\* The end of a rename of cursor.json, and what opens, anchors, commits and seals.
LEMMA AcceptCursor ==
  ASSUME TypeInv, PublishInv, AcceptInv, RetentionInv, Initialized \/ Anchored \/ Committed \/ Sealed
  PROVE  AcceptInv'
<1> USE DEF Initializing, Gathering, Reporting, Sealing, Unlinking, Committing
<1>0. /\ NeverRefused /\ Acceptable /\ Cursors /\ Synced /\ Created /\ Named /\ Safe /\ Starting
      /\ OpenSegment
  BY DEF AcceptInv, PublishInv, TypeInv
<1>1. /\ FilesOK(files) /\ FilesOK(disk) /\ DOMAIN mem = DOMAIN NoMemory
      /\ DOMAIN disk = {"cursor", "checkpoints", "segments"}
      /\ cursor \in Cursor /\ durable \in Cursor /\ files.cursor \in Cursor
      /\ cursor.segment \in Nat /\ Index(cursor) \in Nat /\ Bases = DOMAIN files.segments
      /\ AnyNames(files, disk) \in SUBSET Nat
  BY AcceptParts
<1>2. /\ files' = files /\ disk' = [disk EXCEPT !.cursor = files.cursor]
      /\ pc \in {"initCursorSync", "anchorSync", "commitCursorSync", "sealCursorSync"}
  BY DEF Initialized, Anchored, Committed, Sealed, CursorSynced
<1>3. /\ disk'.cursor = files.cursor /\ disk'.segments = disk.segments /\ disk'.checkpoints = disk.checkpoints
      /\ Bases' = Bases /\ AnyNames(files', disk') = AnyNames(files, disk)
  BY <1>1, <1>2 DEF Bases, AnyNames, AnyBases
<1>4. files.cursor.epoch # 0
  BY <1>0, <1>2 DEF Cursors, Starting
<1>5. Accepted(files, disk, files.cursor) /\ Acceptable'
  <2>1. Accepted(files, disk, files.cursor)
    BY <1>0, <1>4 DEF Acceptable
  <2>2. Accepted(files', disk', files.cursor)
    BY <1>2, <1>3, <2>1, AcceptedSame
  <2> QED BY <1>2, <1>3, <1>4, <2>1, <2>2 DEF Acceptable
<1>6. Same(files.segments, disk.segments)
  BY <1>0, <1>2 DEF Synced
<1>7. CASE Initialized
  <2>1. /\ pc = "initCursorSync" /\ pc' = "idle" /\ cursor' = cursor /\ durable' = cursor
        /\ DOMAIN segments' = {Index(cursor)}
    BY <1>1, <1>7 DEF Initialized, CursorSynced, NoMemory, cursor, durable, segments
  <2>2. files.cursor = cursor /\ cursor.segment = 0 /\ Index(cursor) = 0 /\ Bases = {0}
    BY <1>0, <2>1 DEF Cursors, OpenSegment, Created
  <2>3. \A b \in AnyNames(files, disk) : b <= cursor.segment
    BY <1>1, <1>5, <2>2 DEF Accepted
  <2>4. Cursors' /\ Created' /\ NeverRefused' /\ Synced' /\ Named'
    BY <1>2, <1>3, <1>4, <1>6, <2>1, <2>2, <2>3
       DEF Cursors, SameStream, Created, NeverRefused, Synced, Named, Usable, Reopening
  <2> QED BY <1>5, <2>4 DEF AcceptInv
<1>8. CASE Anchored
  <2>1. /\ pc = "anchorSync" /\ pc' = "idle" /\ cursor' = files.cursor /\ durable' = files.cursor
        /\ segments' = segments
    BY <1>1, <1>8 DEF Anchored, CursorSynced, NoMemory, cursor, durable, segments
  <2>2. files.cursor.segment = cursor.segment
    BY <1>0, <2>1 DEF OpenSegment, Holding
  <2>3. Cursors' /\ Created' /\ NeverRefused' /\ Synced' /\ Named'
    BY <1>0, <1>2, <1>3, <1>4, <1>6, <2>1, <2>2
       DEF Cursors, SameStream, Created, NeverRefused, Synced, Named, Usable, Reopening
  <2> QED BY <1>5, <2>3 DEF AcceptInv
<1>9. CASE Committed
  <2>1. /\ pc = "commitCursorSync" /\ pc' = (IF SealDue(cursor) THEN "sealCheckpoint" ELSE "retain")
        /\ cursor' = cursor /\ durable' = cursor /\ segments' = segments
    BY <1>1, <1>9 DEF Committed, CursorSynced, NoMemory, cursor, durable, segments
  <2>2. files.cursor = cursor
    BY <1>0, <2>1 DEF Cursors
  <2>3. SealDue(cursor) => Index(cursor) > cursor.segment
    <3>1. /\ DOMAIN segments \in SUBSET Nat /\ cursor.segment \in DOMAIN segments
          /\ (\A b \in DOMAIN segments : b <= cursor.segment) /\ cursor.segment <= Index(cursor)
      <4>1. /\ durable.segment \in DOMAIN segments /\ \A b \in DOMAIN segments : b <= durable.segment
            /\ cursor.segment = durable.segment /\ durable.segment <= Index(durable)
            /\ Index(durable) <= Index(cursor)
        BY <1>0, <2>1 DEF OpenSegment, Holding, CommitSteps
      <4>2. DOMAIN segments \in SUBSET Nat /\ Index(durable) \in Nat
        BY RetentionParts
      <4> QED BY <1>1, <4>1, <4>2
    <3>2. Max(DOMAIN segments) = cursor.segment
      <4> DEFINE D == DOMAIN segments
                 m == Max(D)
      <4>1. D \in SUBSET Nat /\ D # {} /\ \A x \in D : x <= cursor.segment
        BY <3>1
      <4> HIDE DEF D
      <4>2. m \in D /\ \A x \in D : m >= x
        BY <1>1, <4>1, MaxOfNats
      <4>3. m <= cursor.segment /\ m >= cursor.segment /\ m \in Nat
        BY <3>1, <4>1, <4>2 DEF D
      <4> HIDE DEF m
      <4>4. m = cursor.segment
        BY <1>1, <4>3
      <4> QED BY <4>4 DEF m, D
    <3> QED BY <1>1, <3>1, <3>2 DEF SealDue
  <2>4. Cursors' /\ Created' /\ NeverRefused'
    BY <1>2, <1>3, <1>4, <2>1, <2>2 DEF Cursors, Created, NeverRefused
  <2>5. Synced'
    BY <1>2, <1>3, <1>6, <2>1 DEF Synced
  <2>6. Named'
    BY <1>0, <1>3, <2>1, <2>3 DEF Named, Usable, Reopening
  <2> QED BY <1>5, <2>4, <2>5, <2>6 DEF AcceptInv
<1>10. CASE Sealed
  <2>1. /\ pc = "sealCursorSync" /\ pc' = "retain"
        /\ cursor' = [cursor EXCEPT !.segment = Index(durable)]
        /\ durable' = [durable EXCEPT !.segment = Index(durable)]
        /\ DOMAIN segments' = DOMAIN segments \cup {Index(durable)}
    BY <1>1, <1>10 DEF Sealed, CursorSynced, NoMemory, With, cursor, durable, segments
  <2>2. cursor = durable /\ files.cursor = [cursor EXCEPT !.segment = Index(cursor)] /\ disk.cursor = durable
    BY <1>0, <2>1 DEF OpenSegment, Cursors
  <2>3. /\ durable' = files.cursor /\ cursor' = files.cursor /\ cursor'.segment = Index(cursor)
        /\ files.cursor.segment = Index(cursor)
    BY <1>1, <2>1, <2>2 DEF Cursor
  <2>4. \A b \in AnyNames(files, disk) : b <= Index(cursor)
    <3>1. Accepted(files, disk, cursor) /\ Index(cursor) > cursor.segment
      BY <1>0, <2>1, <2>2, AcceptableOpen DEF Named
    <3>2. \A b \in AnyNames(files, disk) : b <= cursor.segment \/ b = Index(cursor)
      BY <3>1 DEF Accepted
    <3> QED BY <1>1, <3>1, <3>2
  <2>5. Cursors' /\ Created' /\ NeverRefused'
    BY <1>2, <1>3, <1>4, <2>1, <2>3 DEF Cursors, Created, NeverRefused
  <2>6. Synced'
    BY <1>2, <1>3, <1>6, <2>1 DEF Synced
  <2>7. Named'
    BY <1>0, <1>3, <2>1, <2>2, <2>3, <2>4 DEF Named, Usable, Reopening
  <2> QED BY <1>5, <2>5, <2>6, <2>7 DEF AcceptInv
<1> QED BY <1>7, <1>8, <1>9, <1>10

\* The directory that a new stream is created in, and the successor of a sealed segment.
LEMMA AcceptCreation ==
  ASSUME TypeInv, PublishInv, AcceptInv, RetentionInv, WriteCheckpoint \/ CreateSegment
  PROVE  AcceptInv'
<1> USE DEF Initializing, Gathering, Reporting, Sealing, Unlinking, Committing
<1>0. /\ NeverRefused /\ Acceptable /\ Cursors /\ Synced /\ Created /\ Named /\ Safe /\ Starting
      /\ OpenSegment
  BY DEF AcceptInv, PublishInv, TypeInv
<1>1. /\ FilesOK(files) /\ FilesOK(disk) /\ DOMAIN files = {"cursor", "checkpoints", "segments"}
      /\ cursor \in Cursor /\ cursor.segment \in Nat /\ Index(cursor) \in Nat /\ Bases = DOMAIN files.segments
      /\ AnyNames(files, disk) \in SUBSET Nat
  BY AcceptParts
<1>2. /\ disk' = disk /\ mem' = mem /\ pc' = After(pc)
      /\ files'.cursor = files.cursor
      /\ pc \in {"initCheckpoint", "sealCheckpoint", "initSegment", "sealSegment"}
  BY <1>1 DEF WriteCheckpoint, CreateSegment, Step
<1>3. cursor' = cursor /\ durable' = durable /\ segments' = segments
  BY <1>2 DEF cursor, durable, segments
<1>4. Cursors' /\ NeverRefused'
  BY <1>0, <1>2, <1>3 DEF Cursors, NeverRefused, After
<1>5. CASE WriteCheckpoint
  <2>1. /\ files'.segments = files.segments /\ Bases' = Bases
        /\ files'.checkpoints = With(files.checkpoints, Index(cursor), CheckpointOf(cursor))
    BY <1>1, <1>5 DEF WriteCheckpoint, Bases
  <2>2. /\ DOMAIN files'.checkpoints = DOMAIN files.checkpoints \cup {Index(cursor)}
        /\ files'.checkpoints[Index(cursor)] = CheckpointOf(cursor)
    BY <2>1 DEF With
  <2>3. CASE pc = "initCheckpoint"
    <3>1. pc' = "initCheckpointSync"
      BY <1>2, <2>3 DEF After
    <3>2. /\ files.cursor.epoch = 0 /\ disk.cursor.epoch = 0 /\ Bases = {} /\ DOMAIN files.checkpoints = {}
          /\ Index(cursor) = 0
      BY <1>0, <2>3 DEF Cursors, Created, OpenSegment
    <3>3. Acceptable'
      BY <1>0, <1>2, <2>1, <3>2 DEF Acceptable
    <3>4. Created'
      BY <1>3, <2>1, <2>2, <3>1, <3>2 DEF Created
    <3>5. Synced' /\ Named'
      BY <3>1 DEF Synced, Named, Usable, Reopening
    <3> QED BY <1>4, <3>3, <3>4, <3>5 DEF AcceptInv
  <2>4. CASE pc = "sealCheckpoint"
    <3>1. pc' = "sealCheckpointSync"
      BY <1>2, <2>4 DEF After
    <3>2. /\ files.cursor = cursor /\ disk.cursor = cursor /\ Accepted(files, disk, cursor)
          /\ Index(cursor) > cursor.segment /\ cursor.epoch # 0
      BY <1>0, <2>4, AcceptableOpen DEF Cursors, Named
    <3>3. Accepted(files', disk, cursor)
      BY <1>1, <2>1, <3>2, AcceptedCheckpoint
    <3>4. Acceptable'
      BY <1>2, <3>2, <3>3 DEF Acceptable
    <3>5. Synced' /\ Created'
      BY <1>0, <1>2, <2>1, <2>4, <3>1 DEF Synced, Created
    <3>6. Named'
      BY <1>0, <1>3, <2>1, <2>2, <2>4, <3>1, <3>2 DEF Named, Usable, Reopening
    <3> QED BY <1>4, <3>4, <3>5, <3>6 DEF AcceptInv
  <2> QED BY <1>5, <2>3, <2>4 DEF WriteCheckpoint, Step
<1>6. CASE CreateSegment
  <2>1. /\ files'.checkpoints = files.checkpoints
        /\ files'.segments = With(files.segments, Index(cursor), <<>>) /\ Index(cursor) \notin Bases
    BY <1>1, <1>6 DEF CreateSegment
  <2>2. /\ Bases' = Bases \cup {Index(cursor)} /\ files'.segments[Index(cursor)] = <<>>
        /\ DOMAIN files'.segments = Bases \cup {Index(cursor)}
        /\ \A b \in Bases : files'.segments[b] = files.segments[b]
    BY <1>1, <2>1 DEF With, Bases
  <2>3. Same(files.segments, disk.segments)
    BY <1>0, <1>6 DEF CreateSegment, Step, Synced
  <2>4. Synced'
    <3>1. pc' \in {"initSegmentSync", "sealSegmentSync"}
      BY <1>2, <1>6 DEF CreateSegment, Step, After
    <3>2. /\ \A b \in DOMAIN disk.segments : b \in Bases' /\ files'.segments[b] = disk.segments[b]
          /\ \A b \in Bases' \ DOMAIN disk.segments : files'.segments[b] = <<>>
      BY <1>1, <2>2, <2>3 DEF Same
    <3> QED BY <1>2, <3>1, <3>2 DEF Synced
  <2>5. CASE pc = "initSegment"
    <3>1. pc' = "initSegmentSync"
      BY <1>2, <2>5 DEF After
    <3>2. files.cursor.epoch = 0 /\ disk.cursor.epoch = 0 /\ Bases = {} /\ Index(cursor) = 0
      BY <1>0, <2>5 DEF Cursors, Created, OpenSegment
    <3>3. Acceptable'
      BY <1>0, <1>2, <2>2, <3>2 DEF Acceptable
    <3>4. Created'
      BY <1>0, <1>2, <1>3, <2>1, <2>2, <2>5, <3>1, <3>2 DEF Created
    <3>5. Named'
      BY <3>1 DEF Named, Usable, Reopening
    <3> QED BY <1>4, <2>4, <3>3, <3>4, <3>5 DEF AcceptInv
  <2>6. CASE pc = "sealSegment"
    <3>1. pc' = "sealSegmentSync"
      BY <1>2, <2>6 DEF After
    <3>2. /\ files.cursor = cursor /\ disk.cursor = cursor /\ Accepted(files, disk, cursor)
          /\ Index(cursor) > cursor.segment /\ cursor.epoch # 0
      BY <1>0, <2>6, AcceptableOpen DEF Cursors, Named
    <3>3. Accepted(files', disk, cursor)
      BY <1>1, <2>1, <3>2, AcceptedSegment
    <3>4. Acceptable'
      BY <1>2, <3>2, <3>3 DEF Acceptable
    <3>5. Created'
      BY <3>1 DEF Created
    <3>6. Named'
      <4>1. Bases \subseteq DOMAIN segments /\ Index(cursor) \in SureChecked(files, disk)
        BY <1>0, <2>6 DEF Named, Usable
      <4>2. Index(cursor) \in SureChecked(files', disk')
        BY <1>2, <2>1, <4>1 DEF SureChecked
      <4> QED BY <1>3, <2>2, <3>1, <3>2, <4>1, <4>2 DEF Named, Usable, Reopening
    <3> QED BY <1>4, <2>4, <3>4, <3>5, <3>6 DEF AcceptInv
  <2> QED BY <1>6, <2>5, <2>6 DEF CreateSegment, Step
<1> QED BY <1>5, <1>6

\* A rename of cursor.json: the files accept the new cursor before it is there.
LEMMA AcceptRename ==
  ASSUME TypeInv, PublishInv, AcceptInv, RetentionInv, ReplaceCursor
  PROVE  AcceptInv'
<1> USE DEF Initializing, Gathering, Reporting, Sealing, Unlinking, Committing
<1>0. /\ NeverRefused /\ Acceptable /\ Cursors /\ Synced /\ Created /\ Named /\ Safe /\ Starting
      /\ OpenSegment
  BY DEF AcceptInv, PublishInv, TypeInv
<1>1. /\ FilesOK(files) /\ FilesOK(disk) /\ DOMAIN files = {"cursor", "checkpoints", "segments"}
      /\ cursor \in Cursor /\ durable \in Cursor /\ cursor.segment \in Nat /\ Index(cursor) \in Nat
      /\ durable.segment \in Nat /\ Index(durable) \in Nat /\ Bases = DOMAIN files.segments
      /\ AnyNames(files, disk) \in SUBSET Nat
  BY AcceptParts
<1>2. /\ disk' = disk /\ mem' = mem /\ pc' = After(pc)
      /\ files'.segments = files.segments /\ files'.checkpoints = files.checkpoints
      /\ files'.cursor = IF pc = "sealCursor" THEN [cursor EXCEPT !.segment = Index(cursor)] ELSE cursor
      /\ pc \in {"initCursor", "commitCursor", "sealCursor"}
  BY <1>1 DEF ReplaceCursor, Step
<1>3. cursor' = cursor /\ durable' = durable /\ segments' = segments /\ Bases' = Bases
      /\ AnyNames(files', disk') = AnyNames(files, disk)
  BY <1>2 DEF cursor, durable, segments, Bases, AnyNames, AnyBases
<1>4. Same(files.segments, disk.segments) /\ cursor.epoch # 0
  BY <1>0, <1>2 DEF Synced, Starting
<1>5. pc' \in {"initCursorSync", "commitCursorSync", "sealCursorSync"}
  BY <1>2 DEF After
<1>6. NeverRefused' /\ Synced'
  BY <1>2, <1>4, <1>5 DEF NeverRefused, Synced
<1>7. CASE pc = "initCursor"
  <2>1. pc' = "initCursorSync" /\ files'.cursor = cursor
    BY <1>2, <1>7 DEF After
  <2>2. /\ cursor = FreshCursor(cursor.epoch) /\ disk.cursor.epoch = 0 /\ Index(cursor) = 0 /\ Bases = {0}
        /\ DOMAIN files.checkpoints = {0} /\ files.checkpoints[0] = CheckpointOf(cursor)
        /\ DOMAIN disk.checkpoints = {0} /\ disk.checkpoints[0] = CheckpointOf(cursor)
        /\ files.segments[0] = <<>>
    <3>1. files.segments[Index(cursor)] = <<>>
      BY <1>7 DEF RetentionInv, Layout
    <3> QED BY <1>0, <1>7, <3>1 DEF Cursors, Created, OpenSegment
  <2>3. DOMAIN disk.segments = {0} /\ disk.segments[0] = <<>> /\ DOMAIN files.segments = {0}
    BY <1>1, <1>4, <2>2 DEF Same
  <2>4. Accepted(files, disk, cursor)
    <3> DEFINE e == cursor.epoch
    <3>1. cursor = FreshCursor(e)
      BY <2>2
    <3> HIDE DEF e
    <3>2. Accepted(files, disk, FreshCursor(e))
      BY <2>2, <2>3, <3>1, AcceptedFresh
    <3> QED BY <3>1, <3>2
  <2>5. Accepted(files', disk', cursor)
    BY <1>2, <2>4, AcceptedSame
  <2>6. Acceptable'
    BY <1>2, <1>4, <2>1, <2>2, <2>3, <2>5 DEF Acceptable
  <2>7. Cursors' /\ Created'
    BY <1>2, <1>3, <2>1, <2>2 DEF Cursors, Created
  <2>8. Named'
    BY <2>1 DEF Named, Usable, Reopening
  <2> QED BY <1>6, <2>6, <2>7, <2>8 DEF AcceptInv
<1>8. CASE pc = "commitCursor"
  <2>1. pc' = "commitCursorSync" /\ files'.cursor = cursor
    BY <1>2, <1>8 DEF After
  <2>2. /\ files.cursor = durable /\ disk.cursor = durable /\ durable.epoch # 0 /\ SameStream(cursor, durable)
        /\ Accepted(files, disk, durable) /\ \A b \in AnyNames(files, disk) : b <= cursor.segment
    BY <1>0, <1>8, AcceptableOpen DEF Cursors, Named
  <2>3. /\ Splits(cursor.prefix, durable.prefix, staged) /\ cursor.prefix \in Seq(Message)
        /\ durable.prefix \in Seq(Message) /\ staged \in Seq(Message) /\ Len(staged) \in Nat
        /\ Index(cursor) = Len(cursor.prefix) /\ Index(durable) = Len(durable.prefix)
    BY <1>8, RetentionParts DEF RetentionInv, Batch
  <2>4. Begins(durable.prefix, cursor.prefix)
    BY <2>3, SplitsBegins
  <2> DEFINE s == durable.segment
             lines == files.segments[s]
  <2>5. cursor.segment = s /\ s \in Bases /\ s <= Index(durable)
    BY <1>1, <2>2 DEF SameStream, Accepted, SureBases
  <2>6. /\ Len(lines) = (Index(durable) - s) + Len(staged)
        /\ \A k \in 1..Len(staged) : lines[(Index(durable) - s) + k] = staged[k]
    BY <1>8 DEF RetentionInv, Layout, Usable, OpenLines, Appended
  <2>7. lines = disk.segments[s]
    BY <1>1, <1>4, <2>5 DEF Same
  <2>8. Placed(s, lines, files, disk, durable)
    BY <1>1, <2>2, <2>5 DEF Accepted
  <2> HIDE DEF s, lines
  <2>9. Len(lines) >= Index(cursor) - s
    BY <1>1, <2>3, <2>5, <2>6 DEF Splits, s
  <2>10. ASSUME NEW k \in 1..Len(lines), s + k <= Index(cursor) PROVE lines[k] = cursor.prefix[s + k]
    <3>1. CASE s + k <= Index(durable)
      <4>1. lines[k] = durable.prefix[s + k]
        BY <1>1, <2>8, <3>1 DEF Placed, s
      <4>2. s + k \in 1..Len(durable.prefix)
        BY <1>1, <2>3, <2>6, <3>1 DEF s
      <4> QED BY <2>4, <4>1, <4>2 DEF Begins
    <3>2. CASE ~(s + k <= Index(durable))
      <4> DEFINE j == k - (Index(durable) - s)
      <4>1. j \in 1..Len(staged) /\ (Index(durable) - s) + j = k /\ Len(durable.prefix) + j = s + k
        BY <1>1, <2>3, <2>5, <2>6, <3>2 DEF s
      <4> HIDE DEF j
      <4>2. lines[k] = staged[j]
        BY <2>6, <4>1
      <4>3. staged[j] = cursor.prefix[Len(durable.prefix) + j]
        BY <2>3, <4>1 DEF Splits
      <4> QED BY <4>1, <4>2, <4>3
    <3> QED BY <3>1, <3>2
  <2>11. Accepted(files, disk, cursor)
    <3>1. cursor.epoch = durable.epoch /\ cursor.segment = durable.segment /\ cursor.pred = durable.pred
      BY <2>2 DEF SameStream
    <3>2. \A l \in {files.segments[durable.segment], disk.segments[durable.segment]} : l = lines
      BY <2>7 DEF lines, s
    <3>3. \A l \in {files.segments[durable.segment], disk.segments[durable.segment]} :
            /\ Len(l) >= Index(cursor) - durable.segment
            /\ \A k \in 1..Len(l) : durable.segment + k <= Index(cursor) => l[k] = cursor.prefix[durable.segment + k]
      BY <2>9, <2>10, <3>2 DEF s
    <3> QED BY <1>1, <2>2, <2>4, <3>1, <3>3, AcceptedCommits
  <2>12. Accepted(files', disk', cursor) /\ Accepted(files', disk', durable)
    BY <1>2, <2>2, <2>11, AcceptedSame
  <2>13. Acceptable'
    BY <1>2, <1>4, <2>1, <2>2, <2>12 DEF Acceptable
  <2>14. Cursors' /\ Created'
    BY <1>2, <1>3, <1>4, <2>1, <2>2 DEF Cursors, Created
  <2>15. Named'
    BY <1>0, <1>3, <1>8, <2>1 DEF Named, Usable, Reopening
  <2> QED BY <1>6, <2>13, <2>14, <2>15 DEF AcceptInv
<1>9. CASE pc = "sealCursor"
  <2> DEFINE d == [cursor EXCEPT !.segment = Index(cursor)]
  <2>1. /\ pc' = "sealCursorSync" /\ files'.cursor = d
        /\ d.epoch = cursor.epoch /\ d.segment = Index(cursor) /\ d.pred = cursor.pred /\ d.prefix = cursor.prefix
    BY <1>1, <1>2, <1>9 DEF After, Cursor
  <2>2. /\ cursor = durable /\ files.cursor = cursor /\ disk.cursor = cursor /\ Accepted(files, disk, cursor)
        /\ Index(cursor) > cursor.segment /\ Index(cursor) \in SureChecked(files, disk) /\ Index(cursor) \in Bases
        /\ disk.cursor = durable
    BY <1>0, <1>9, AcceptableOpen DEF Cursors, Named, OpenSegment
  <2>3. /\ DOMAIN files.segments = DOMAIN disk.segments /\ Index(cursor) \in SureBases(files, disk)
        /\ cursor.segment \in DOMAIN files.segments
        /\ files.segments[cursor.segment] = disk.segments[cursor.segment]
    BY <1>1, <1>4, <2>2 DEF Same, SureBases, Accepted
  <2>4. Len(files.segments[cursor.segment]) = Index(cursor) - cursor.segment
    <3>1. Len(files.segments[durable.segment]) = (Index(durable) - durable.segment) + 0
      BY <1>9 DEF RetentionInv, Layout, Usable, OpenLines, Appended
    <3> QED BY <1>1, <2>2, <3>1
  <2> HIDE DEF d
  <2>5. Accepted(files, disk, d)
    BY <1>1, <2>1, <2>2, <2>3, <2>4, AcceptedSeals
  <2>6. Accepted(files', disk', d) /\ Accepted(files', disk', cursor)
    BY <1>2, <2>2, <2>5, AcceptedSame
  <2>7. Acceptable'
    BY <1>2, <1>4, <2>1, <2>2, <2>6 DEF Acceptable
  <2>8. Cursors' /\ Created'
    BY <1>2, <1>3, <1>4, <2>1, <2>2 DEF Cursors, Created, d
  <2>9. Named'
    BY <1>0, <1>3, <1>9, <2>1, <2>2 DEF Named, Usable, Reopening
  <2> QED BY <1>6, <2>7, <2>8, <2>9 DEF AcceptInv
<1> QED BY <1>2, <1>7, <1>8, <1>9

\* The fsync of the journal directory.
LEMMA AcceptDirectory ==
  ASSUME TypeInv, PublishInv, AcceptInv, RetentionInv, SyncJournalDir
  PROVE  AcceptInv'
<1> USE DEF Initializing, Gathering, Reporting, Sealing, Unlinking, Committing
<1>0. /\ NeverRefused /\ Acceptable /\ Cursors /\ Synced /\ Created /\ Named /\ OpenSegment
  BY DEF AcceptInv, TypeInv
<1>1. /\ DOMAIN disk = {"cursor", "checkpoints", "segments"} /\ files.cursor \in Cursor /\ disk.cursor \in Cursor
      /\ cursor \in Cursor /\ cursor.segment \in Nat /\ Bases = DOMAIN files.segments
      /\ AnyNames(files, disk) \in SUBSET Nat
  BY AcceptParts
<1>2. /\ files' = files /\ mem' = mem /\ pc' = After(pc) /\ disk' = SyncedJournal
      /\ pc \in {"initCheckpointSync", "initSegmentSync", "sealCheckpointSync",
                 "sealSegmentSync", "expireSegmentSync", "expireCheckpointSync", "recoverSync"}
  BY DEF SyncJournalDir, Step
<1>3. /\ cursor' = cursor /\ durable' = durable /\ segments' = segments /\ Bases' = Bases
      /\ disk'.cursor = disk.cursor /\ disk'.checkpoints = files.checkpoints
      /\ DOMAIN disk'.segments = Bases
      /\ \A b \in Bases : disk'.segments[b] = IF b \in DOMAIN disk.segments THEN disk.segments[b] ELSE <<>>
  BY <1>1, <1>2 DEF cursor, durable, segments, Bases, SyncedJournal
<1>4. /\ files.cursor.epoch # 0 => Accepted(files, disk', files.cursor)
      /\ disk.cursor.epoch # 0 => Accepted(files, disk', disk.cursor)
  BY <1>0, <1>1, <1>2, AcceptedSynced DEF Acceptable
<1>5. Acceptable'
  <2>1. \A c \in {files'.cursor, disk'.cursor} : c.epoch # 0 => Accepted(files', disk', c)
    BY <1>2, <1>3, <1>4
  <2>2. files'.cursor.epoch = 0 \/ disk'.cursor.epoch = 0 =>
          /\ \A b \in DOMAIN files'.segments : files'.segments[b] = <<>>
          /\ \A b \in DOMAIN disk'.segments : disk'.segments[b] = <<>>
    BY <1>0, <1>2, <1>3 DEF Acceptable
  <2> QED BY <2>1, <2>2 DEF Acceptable
<1>6. Same(files'.segments, disk'.segments)
  <2>1. \A b \in Bases : files.segments[b] = IF b \in DOMAIN disk.segments THEN disk.segments[b] ELSE <<>>
    <3>1. CASE pc = "initCheckpointSync"
      BY <1>0, <3>1 DEF Created
    <3>2. CASE pc \in {"initSegmentSync", "sealSegmentSync"}
      BY <1>0, <3>2 DEF Synced
    <3>3. CASE pc \in {"sealCheckpointSync", "expireCheckpointSync"}
      BY <1>0, <1>1, <3>3 DEF Synced, Same
    <3>4. CASE pc \in {"expireSegmentSync", "recoverSync"}
      BY <1>0, <3>4 DEF Synced
    <3> QED BY <1>2, <3>1, <3>2, <3>3, <3>4
  <2> QED BY <1>1, <1>2, <1>3, <2>1 DEF Same
<1>7. pc' \in {"initSegment", "initCursor", "sealSegment", "sealCursor", "expireCheckpoint", "retain", "recoverReplay"}
      /\ pc' = After(pc)
  BY <1>2 DEF After
<1>8. NeverRefused' /\ Synced'
  BY <1>2, <1>3, <1>6, <1>7 DEF NeverRefused, Synced
<1>9. Cursors'
  BY <1>0, <1>2, <1>3, <1>7 DEF Cursors, After
<1>10. Created'
  BY <1>0, <1>2, <1>3, <1>7 DEF Created, After
<1>11. AnyNames(files', disk') = Names /\ Names \subseteq AnyNames(files, disk)
       /\ SureChecked(files', disk') = DOMAIN files.checkpoints
  BY <1>1, <1>2, <1>3 DEF AnyNames, AnyBases, Names, SureChecked
<1>12. Named'
  <2>1. CASE pc = "recoverSync"
    <3>1. \A b \in Names : b <= cursor.segment
      <4>1. AboveOpen = {}
        BY <1>0, <2>1 DEF Named
      <4> QED BY <1>1, <1>11, <4>1 DEF AboveOpen
    <3>2. pc' = "recoverReplay"
      BY <1>2, <2>1 DEF After
    <3> QED BY <1>3, <1>11, <3>1, <3>2 DEF Named, Usable, Reopening
  <2>2. CASE pc \in {"initCheckpointSync", "initSegmentSync"}
    <3>1. pc' \in {"initSegment", "initCursor"}
      BY <1>2, <2>2 DEF After
    <3> QED BY <3>1 DEF Named, Usable, Reopening
  <2>3. CASE pc \in {"sealCheckpointSync", "sealSegmentSync"}
    <3>1. \/ pc = "sealCheckpointSync" /\ pc' = "sealSegment"
          \/ pc = "sealSegmentSync" /\ pc' = "sealCursor"
      BY <1>2, <2>3 DEF After
    <3>2. Index(cursor) \in DOMAIN files.checkpoints
      BY <1>0, <2>3 DEF Named, SureChecked
    <3> QED BY <1>0, <1>3, <1>11, <3>1, <3>2 DEF Named, Usable, Reopening
  <2>4. CASE pc \in {"expireSegmentSync", "expireCheckpointSync"}
    <3>1. pc' \in {"expireCheckpoint", "retain"}
      BY <1>2, <2>4 DEF After
    <3> QED BY <1>0, <1>3, <1>11, <2>4, <3>1 DEF Named, Usable, Reopening
  <2> QED BY <1>2, <2>1, <2>2, <2>3, <2>4
<1> QED BY <1>5, <1>8, <1>9, <1>10, <1>12 DEF AcceptInv

\* The lines of a batch, written and synced; the predecessor of an empty stream.
LEMMA AcceptLines ==
  ASSUME TypeInv, PublishInv, AcceptInv, RetentionInv, AppendLine \/ SyncAppended \/ Anchor
  PROVE  AcceptInv'
<1> USE DEF Initializing, Gathering, Reporting, Sealing, Unlinking, Committing
<1> DEFINE s == durable.segment
           lines == files.segments[s]
<1>0. /\ NeverRefused /\ Acceptable /\ Cursors /\ Synced /\ Created /\ Named /\ OpenSegment
  BY DEF AcceptInv, TypeInv
<1>1. /\ FilesOK(files) /\ FilesOK(disk) /\ DOMAIN mem = DOMAIN NoMemory
      /\ DOMAIN files = {"cursor", "checkpoints", "segments"}
      /\ DOMAIN disk = {"cursor", "checkpoints", "segments"}
      /\ cursor \in Cursor /\ durable \in Cursor /\ s \in Nat /\ Index(durable) \in Nat
      /\ Bases = DOMAIN files.segments /\ AnyNames(files, disk) \in SUBSET Nat
  BY AcceptParts
<1>2. pc \in {"append", "appendSync", "idle"}
  BY DEF AppendLine, SyncAppended, Anchor, Step
<1>3. /\ files.cursor = durable /\ disk.cursor = durable /\ durable.epoch # 0 /\ SameStream(cursor, durable)
      /\ Accepted(files, disk, durable)
  BY <1>0, <1>2, AcceptableOpen DEF Cursors
<1>4. /\ s \in Bases /\ s \in DOMAIN disk.segments /\ cursor.segment = s
      /\ DOMAIN files.segments = DOMAIN disk.segments
  BY <1>0, <1>1, <1>2, <1>3 DEF Accepted, SureBases, SameStream, Synced, Same
<1>5. lines \in Seq(Message) /\ Len(lines) \in Nat /\ Placed(s, lines, files, disk, durable)
  BY <1>1, <1>3, <1>4, FileTypes DEF Accepted
<1>6. CASE AppendLine
  <2> DEFINE m == staged[mem.written + 1]
  <2>1. /\ pc = "append" /\ pc' \in {"append", "appendSync"} /\ disk' = disk
        /\ files'.cursor = files.cursor /\ files'.checkpoints = files.checkpoints
        /\ files'.segments = [files.segments EXCEPT ![s] = Append(@, m)]
        /\ cursor' = cursor /\ durable' = durable /\ segments' = segments
    BY <1>1, <1>6 DEF AppendLine, NoMemory, cursor, durable, segments
  <2>2. m \in Message
    <3>1. mem.written + 1 \in 1..Len(staged) /\ staged \in Seq(Message)
      BY <2>1, RetentionParts DEF TypeInv, Appending
    <3> QED BY <3>1, ElementOfSeq
  <2> HIDE DEF m, s, lines
  <2>3. /\ DOMAIN files'.segments = Bases /\ Bases' = Bases
        /\ \A b \in Bases : b # s => files'.segments[b] = files.segments[b]
        /\ files'.segments[s] = Append(lines, m)
    BY <1>1, <1>4, <2>1 DEF Bases, lines
  <2>4. Placed(s, Append(lines, m), files, disk, durable)
    <3>1. Len(Append(lines, m)) = Len(lines) + 1 /\ \A k \in 1..Len(lines) : Append(lines, m)[k] = lines[k]
      BY <1>5, <2>2, AppendProperties
    <3>2. /\ ~(s > durable.segment) /\ ~(s < durable.segment)
          /\ Len(lines) >= Index(durable) - s
          /\ \A k \in 1..Len(lines) : s + k <= Index(durable) => lines[k] = durable.prefix[s + k]
      BY <1>1, <1>5 DEF Placed, s
    <3>3. ASSUME NEW k \in 1..Len(Append(lines, m)), s + k <= Index(durable)
          PROVE  Append(lines, m)[k] = durable.prefix[s + k]
      <4>1. k \in 1..Len(lines)
        BY <1>1, <1>5, <3>1, <3>2, <3>3
      <4> QED BY <3>1, <3>2, <3>3, <4>1
    <3>4. Len(Append(lines, m)) >= Index(durable) - s
      BY <1>1, <1>5, <3>1, <3>2
    <3> HIDE DEF s
    <3> QED BY <3>2, <3>3, <3>4 DEF Placed
  <2>5. Accepted(files', disk', durable)
    <3>1. s \in DOMAIN disk.segments => Placed(s, disk'.segments[s], files, disk, durable)
      BY <1>3, <2>1 DEF Accepted
    <3>2. DOMAIN files'.segments = DOMAIN files.segments /\ \A b \in DOMAIN files.segments : b # s => files'.segments[b] = files.segments[b]
      BY <1>1, <2>3
    <3>3. Placed(s, files'.segments[s], files, disk, durable)
      BY <2>3, <2>4
    <3>4. disk' = disk /\ files'.checkpoints = files.checkpoints
      BY <2>1
    <3> QED BY <1>3, <3>1, <3>2, <3>3, <3>4, AcceptedRewritten
  <2>6. Acceptable'
    BY <1>3, <2>1, <2>5 DEF Acceptable
  <2>7. Cursors' /\ Created' /\ NeverRefused'
    BY <1>0, <2>1 DEF Cursors, SameStream, Created, NeverRefused
  <2>8. Synced'
    BY <1>0, <1>1, <1>4, <2>1, <2>3 DEF Synced
  <2>9. Named'
    <3>1. AnyNames(files', disk') = AnyNames(files, disk)
      BY <1>1, <2>1, <2>3 DEF AnyNames, AnyBases
    <3> QED BY <1>0, <2>1, <2>3, <3>1 DEF Named, Usable, Reopening
  <2> QED BY <2>6, <2>7, <2>8, <2>9 DEF AcceptInv
<1>7. CASE SyncAppended
  <2>1. /\ pc = "appendSync" /\ pc' = "commitCursor" /\ files' = files /\ mem' = mem
        /\ disk'.cursor = disk.cursor /\ disk'.checkpoints = disk.checkpoints
        /\ disk'.segments = [disk.segments EXCEPT ![s] = lines]
    BY <1>1, <1>7 DEF SyncAppended, Step, After
  <2>2. cursor' = cursor /\ durable' = durable /\ segments' = segments /\ Bases' = Bases
    BY <2>1 DEF cursor, durable, segments, Bases
  <2> HIDE DEF s, lines
  <2>3. /\ DOMAIN disk'.segments = DOMAIN disk.segments
        /\ \A b \in DOMAIN disk.segments : b # s => disk'.segments[b] = disk.segments[b]
        /\ disk'.segments[s] = lines
    BY <1>4, <2>1
  <2>4. Accepted(files', disk', durable)
    BY <1>1, <1>3, <1>5, <2>1, <2>3, AcceptedRewritten DEF lines
  <2>5. Acceptable'
    BY <1>3, <2>1, <2>4 DEF Acceptable
  <2>6. Cursors' /\ Created' /\ NeverRefused'
    BY <1>0, <2>1, <2>2 DEF Cursors, SameStream, Created, NeverRefused
  <2>7. Same(files'.segments, disk'.segments)
    <3>1. \A b \in Bases : b # s => files.segments[b] = disk.segments[b]
      BY <1>0, <1>4, <2>1 DEF Synced
    <3> QED BY <1>1, <1>4, <2>1, <2>3, <3>1 DEF Same, lines
  <2>8. Synced'
    BY <2>1, <2>7 DEF Synced
  <2>9. Named'
    <3>1. AnyNames(files', disk') = AnyNames(files, disk)
      BY <2>1, <2>3 DEF AnyNames, AnyBases
    <3> QED BY <1>0, <2>1, <2>2, <3>1 DEF Named, Usable, Reopening
  <2> QED BY <2>5, <2>6, <2>8, <2>9 DEF AcceptInv
<1>8. CASE Anchor
  <2>1. /\ pc = "idle" /\ pc' = "anchorSync" /\ disk' = disk /\ mem' = mem /\ cursor.pred = 0 /\ staged = <<>>
        /\ files'.segments = files.segments /\ files'.checkpoints = files.checkpoints
    BY <1>1, <1>8 DEF Anchor
  <2>2. cursor' = cursor /\ durable' = durable /\ segments' = segments /\ Bases' = Bases
    BY <2>1 DEF cursor, durable, segments, Bases
  <2>3. PICK p \in PredIds : files' = [files EXCEPT !.cursor = [cursor EXCEPT !.pred = p]]
    BY <1>8 DEF Anchor
  <2>4. /\ files'.cursor.epoch = cursor.epoch /\ files'.cursor.segment = cursor.segment
        /\ files'.cursor.prefix = cursor.prefix
    BY <1>1, <2>3 DEF Cursor
  <2>5. cursor.prefix = durable.prefix
    <3>1. cursor.prefix \in Seq(Message) /\ durable.prefix \in Seq(Message) /\ Splits(cursor.prefix, durable.prefix, <<>>)
      BY <2>1, RetentionParts DEF RetentionInv, Batch
    <3> QED BY <3>1, SplitsNothing
  <2>6. Accepted(files, disk, files'.cursor)
    <3>1. /\ files'.cursor.epoch = durable.epoch /\ files'.cursor.segment = durable.segment
          /\ files'.cursor.prefix = durable.prefix /\ durable.pred = 0
      BY <1>3, <2>1, <2>4, <2>5 DEF SameStream
    <3> QED BY <1>3, <3>1, AcceptedAlike
  <2>7. Accepted(files', disk', files'.cursor) /\ Accepted(files', disk', durable)
    BY <1>3, <2>1, <2>6, AcceptedSame
  <2>8. Acceptable'
    BY <1>3, <2>1, <2>4, <2>7 DEF Acceptable, SameStream
  <2>9. Cursors' /\ Created' /\ NeverRefused'
    BY <1>0, <1>3, <2>1, <2>2, <2>4 DEF Cursors, SameStream, Created, NeverRefused
  <2>10. Synced'
    BY <1>0, <2>1, <2>2 DEF Synced
  <2>11. Named'
    <3>1. AnyNames(files', disk') = AnyNames(files, disk)
      BY <2>1 DEF AnyNames, AnyBases
    <3> QED BY <1>0, <2>1, <2>2, <3>1 DEF Named, Usable, Reopening
  <2> QED BY <2>8, <2>9, <2>10, <2>11 DEF AcceptInv
<1> QED BY <1>6, <1>7, <1>8

\* Expiry: the oldest segment, then its checkpoint.
LEMMA AcceptExpiry ==
  ASSUME TypeInv, PublishInv, AcceptInv, RetentionInv, ExpireSegment \/ ExpireCheckpoint
  PROVE  AcceptInv'
<1> USE DEF Initializing, Gathering, Reporting, Sealing, Unlinking, Committing
<1> DEFINE F == FirstRetained
<1>0. /\ NeverRefused /\ Acceptable /\ Cursors /\ Synced /\ Created /\ Named /\ OpenSegment
  BY DEF AcceptInv, TypeInv
<1>1. /\ FilesOK(files) /\ FilesOK(disk) /\ DOMAIN mem = DOMAIN NoMemory
      /\ DOMAIN files = {"cursor", "checkpoints", "segments"}
      /\ cursor \in Cursor /\ durable \in Cursor /\ durable.segment \in Nat
      /\ Bases = DOMAIN files.segments /\ AnyNames(files, disk) \in SUBSET Nat
  BY AcceptParts
<1>2. pc \in {"retain", "expireCheckpoint"} /\ disk' = disk
  BY DEF ExpireSegment, ExpireCheckpoint, Step
<1>3. /\ files.cursor = durable /\ disk.cursor = durable /\ durable.epoch # 0 /\ Accepted(files, disk, durable)
  BY <1>0, <1>2, AcceptableOpen DEF Cursors
<1>4. /\ DOMAIN files.segments = DOMAIN disk.segments /\ AnyBases(files, disk) = Bases
      /\ Bases \subseteq DOMAIN segments
  BY <1>0, <1>1, <1>2 DEF Synced, Same, AnyBases, Named, Usable
<1>5. F \in DOMAIN segments /\ F \in Nat /\ \A b \in AnyBases(files, disk) : F <= b
  <2>1. Opened
    BY <1>0, <1>2 DEF OpenSegment, Holding, CommitSteps, Opened
  <2> QED BY <1>4, <2>1, RetainedIndex
<1> HIDE DEF F
<1>6. CASE ExpireSegment
  <2>1. /\ pc = "retain" /\ pc' = "expireSegmentSync" /\ files'.cursor = files.cursor
        /\ files'.checkpoints = files.checkpoints /\ files'.segments = Without(files.segments, F)
        /\ cursor' = cursor /\ durable' = durable /\ segments' = Without(segments, F)
    BY <1>1, <1>6 DEF ExpireSegment, NoMemory, cursor, durable, segments, F
  <2>2. /\ Bases' = Bases \ {F} /\ DOMAIN segments' = DOMAIN segments \ {F}
        /\ \A b \in Bases' : files'.segments[b] = files.segments[b]
    BY <1>1, <2>1 DEF Without, Bases
  <2>3. F # durable.segment
    <3>1. \A b \in DOMAIN segments : b <= durable.segment /\ F <= b /\ b \in Nat
      <4>1. \A b \in DOMAIN segments : b <= durable.segment
        BY <1>0, <2>1 DEF OpenSegment, Holding, CommitSteps
      <4>2. Opened
        BY <1>5 DEF Opened
      <4> QED BY <4>1, <4>2, RetainedIndex, RetentionParts DEF F
    <3>2. DOMAIN segments # {F}
      BY <1>6 DEF ExpireSegment, Expirable, F
    <3> QED BY <1>1, <1>5, <3>1, <3>2
  <2>4. Accepted(files', disk', durable)
    BY <1>1, <1>2, <1>3, <1>5, <2>1, <2>3, AcceptedErased
  <2>5. Acceptable'
    BY <1>2, <1>3, <2>1, <2>4 DEF Acceptable
  <2>6. Cursors' /\ Created' /\ NeverRefused'
    BY <1>0, <1>2, <2>1 DEF Cursors, Created, NeverRefused
  <2>7. Synced'
    <3>1. \A b \in Bases' : b \in DOMAIN disk.segments /\ files'.segments[b] = disk.segments[b]
      BY <1>0, <1>1, <2>1, <2>2 DEF Synced, Same
    <3> QED BY <1>2, <2>1, <3>1 DEF Synced
  <2>8. Named'
    <3>1. AnyNames(files', disk') \subseteq AnyNames(files, disk)
      BY <1>1, <1>2, <2>1, <2>2 DEF AnyNames, AnyBases, Bases
    <3>2. \A b \in AnyNames(files, disk) : b <= cursor.segment
      BY <1>0, <2>1 DEF Named
    <3>3. Bases' \subseteq DOMAIN segments'
      BY <1>4, <2>2
    <3> QED BY <2>1, <3>1, <3>2, <3>3 DEF Named, Usable, Reopening
  <2> QED BY <2>5, <2>6, <2>7, <2>8 DEF AcceptInv
<1>7. CASE ExpireCheckpoint
  <2>1. /\ pc = "expireCheckpoint" /\ pc' = "expireCheckpointSync" /\ files'.cursor = files.cursor /\ mem' = mem
        /\ files'.segments = files.segments
        /\ files'.checkpoints = [b \in {x \in DOMAIN files.checkpoints : x >= F} |-> files.checkpoints[b]]
    BY <1>1, <1>7 DEF ExpireCheckpoint, Step, After, F
  <2>2. cursor' = cursor /\ durable' = durable /\ segments' = segments /\ Bases' = Bases
    BY <2>1 DEF cursor, durable, segments, Bases
  <2>3. /\ \A b \in DOMAIN files'.checkpoints : b \in DOMAIN files.checkpoints /\ files'.checkpoints[b] = files.checkpoints[b]
        /\ \A b \in DOMAIN files.checkpoints : b >= F => b \in DOMAIN files'.checkpoints
    BY <2>1
  <2>4. Accepted(files', disk', durable)
    <3>1. \A b \in AnyBases(files, disk) : b \in DOMAIN files.checkpoints => b \in DOMAIN files'.checkpoints
      <4>1. \A b \in AnyBases(files, disk) : b >= F
        BY <1>1, <1>5, AcceptParts
      <4> QED BY <2>3, <4>1
    <3> QED BY <1>2, <1>3, <2>1, <2>3, <3>1, AcceptedForgets
  <2>5. Acceptable'
    BY <1>2, <1>3, <2>1, <2>4 DEF Acceptable
  <2>6. Cursors' /\ Created' /\ NeverRefused'
    BY <1>0, <1>2, <2>1, <2>2 DEF Cursors, Created, NeverRefused
  <2>7. Synced'
    BY <1>0, <1>2, <2>1 DEF Synced
  <2>8. Named'
    <3>1. AnyNames(files', disk') \subseteq AnyNames(files, disk)
      BY <1>2, <2>1, <2>3 DEF AnyNames, AnyBases
    <3> QED BY <1>0, <2>1, <2>2, <3>1 DEF Named, Usable, Reopening
  <2> QED BY <2>5, <2>6, <2>7, <2>8 DEF AcceptInv
<1> QED BY <1>6, <1>7

\* Recovery removes what an interrupted seal or expiry left, truncates and syncs.
LEMMA AcceptRecovery ==
  ASSUME TypeInv, PublishInv, AcceptInv, HistoryInv, RecoverRemove \/ RecoverReplay \/ RecoverFsync
  PROVE  AcceptInv'
<1> USE DEF Initializing, Gathering, Reporting, Sealing, Unlinking, Committing
<1> DEFINE s == cursor.segment
           lines == files.segments[s]
<1>0. /\ NeverRefused /\ Acceptable /\ Cursors /\ Synced /\ Created /\ Named /\ Safe /\ Starting
  BY DEF AcceptInv, PublishInv
<1>1. /\ FilesOK(files) /\ FilesOK(disk) /\ DOMAIN mem = DOMAIN NoMemory
      /\ DOMAIN files = {"cursor", "checkpoints", "segments"}
      /\ DOMAIN disk = {"cursor", "checkpoints", "segments"}
      /\ cursor \in Cursor /\ s \in Nat /\ Index(cursor) \in Nat
      /\ Bases = DOMAIN files.segments /\ AnyNames(files, disk) \in SUBSET Nat
      /\ DOMAIN disk.segments \in SUBSET Nat /\ DOMAIN files.checkpoints \in SUBSET Nat /\ Bases \in SUBSET Nat
  BY AcceptParts, FileTypes
<1>2. pc \in {"recover", "recoverDirty", "recoverReplay", "recoverFsync"}
  BY DEF RecoverRemove, RecoverReplay, RecoverFsync
<1>3. /\ files.cursor = cursor /\ disk.cursor = cursor /\ cursor.epoch # 0 /\ Accepted(files, disk, cursor)
  <2>1. files.cursor = cursor /\ disk.cursor = files.cursor
    BY <1>0, <1>2 DEF Starting, Recovering, Safe, CursorUnsynced
  <2> QED BY <1>0, <1>2, <2>1, AcceptableOpen
<1>4. s \in Bases /\ s \in DOMAIN disk.segments /\ s <= Index(cursor)
  BY <1>1, <1>3 DEF Accepted, SureBases
<1>5. lines \in Seq(Message) /\ Len(lines) \in Nat /\ Placed(s, lines, files, disk, cursor)
  BY <1>1, <1>3, <1>4, FileTypes DEF Accepted
<1>6. CASE RecoverRemove
  <2> DEFINE b == Min(AboveOpen \cup Orphans)
  <2>1. /\ pc \in {"recover", "recoverDirty"} /\ pc' = "recoverDirty" /\ disk' = disk /\ mem' = mem
        /\ AboveOpen \cup Orphans # {} /\ files'.cursor = files.cursor
        /\ \/ /\ b \in Bases /\ files'.checkpoints = files.checkpoints
              /\ files'.segments = Without(files.segments, b)
           \/ /\ b \notin Bases /\ files'.segments = files.segments
              /\ files'.checkpoints = Without(files.checkpoints, b)
    BY <1>1, <1>6 DEF RecoverRemove
  <2>2. b \in AboveOpen \cup Orphans /\ b \in Nat
    <3> DEFINE S == AboveOpen \cup Orphans
    <3>1. S \in SUBSET Nat /\ S # {}
      <4>1. Names \in SUBSET Nat
        BY <1>1 DEF Names
      <4>2. AboveOpen \subseteq Names /\ Orphans \subseteq Names
        BY DEF AboveOpen, Orphans
      <4> QED BY <2>1, <4>1, <4>2
    <3> HIDE DEF S
    <3>2. Min(S) \in S /\ Min(S) \in Nat
      BY <3>1, MinOfNats
    <3> QED BY <3>2 DEF S
  <2> HIDE DEF b
  <2>3. cursor' = cursor /\ durable' = durable /\ segments' = segments
    BY <2>1 DEF cursor, durable, segments
  <2>4. \A x \in Bases : x \in DOMAIN disk.segments /\ files.segments[x] = disk.segments[x]
    BY <1>0, <1>1, <2>1 DEF Synced, Same
  <2>5. \A x \in DOMAIN disk.segments \ Bases : x > s
    BY <1>0, <1>1, <2>1 DEF Synced, Same
  <2>6. ASSUME b \in Bases PROVE Accepted(files', disk', cursor) /\ Synced'
    <3>1. /\ files'.checkpoints = files.checkpoints /\ Bases' = Bases \ {b}
          /\ files'.segments = Without(files.segments, b) /\ \A x \in Bases' : files'.segments[x] = files.segments[x]
      BY <1>1, <2>1, <2>6 DEF Without, Bases
    <3>2. b > s
      BY <2>2, <2>6 DEF AboveOpen, Orphans
    <3>3. Accepted(files', disk', cursor)
      BY <1>1, <1>3, <2>1, <2>2, <3>1, <3>2, AcceptedErased
    <3>4. Synced'
      <4>1. \A x \in Bases' : x \in DOMAIN disk.segments /\ files'.segments[x] = disk.segments[x]
        BY <2>4, <3>1
      <4>2. \A x \in DOMAIN disk.segments \ Bases' : x > s
        BY <2>5, <3>1, <3>2
      <4> QED BY <2>1, <2>3, <4>1, <4>2 DEF Synced
    <3> QED BY <3>3, <3>4
  <2>7. ASSUME b \notin Bases PROVE Accepted(files', disk', cursor) /\ Synced'
    <3>1. /\ files'.segments = files.segments /\ Bases' = Bases
          /\ files'.checkpoints = Without(files.checkpoints, b)
      BY <1>1, <2>1, <2>7 DEF Bases
    <3>2. /\ DOMAIN files'.checkpoints = DOMAIN files.checkpoints \ {b}
          /\ \A x \in DOMAIN files'.checkpoints : files'.checkpoints[x] = files.checkpoints[x]
      BY <3>1 DEF Without
    <3>3. ASSUME NEW x \in AnyBases(files, disk), x <= s PROVE x # b
      <4>1. x \in Bases
        BY <1>1, <2>5, <3>3 DEF AnyBases
      <4> QED BY <2>7, <4>1
    <3>4. Accepted(files', disk', cursor)
      BY <1>3, <2>1, <3>1, <3>2, <3>3, AcceptedForgets
    <3>5. Synced'
      BY <1>1, <2>1, <2>3, <2>4, <2>5, <3>1 DEF Synced
    <3> QED BY <3>4, <3>5
  <2>8. Accepted(files', disk', cursor) /\ Synced'
    BY <2>6, <2>7
  <2>9. Acceptable'
    BY <1>3, <2>1, <2>8 DEF Acceptable
  <2>10. Cursors' /\ Created' /\ NeverRefused'
    BY <1>0, <1>3, <2>1, <2>3 DEF Cursors, Created, NeverRefused
  <2>11. Named'
    BY <2>1 DEF Named, Usable, Reopening
  <2> QED BY <2>8, <2>9, <2>10, <2>11 DEF AcceptInv
<1>7. CASE RecoverReplay
  <2>1. pc = "recoverReplay" /\ disk' = disk
    BY <1>7 DEF RecoverReplay
  <2>2. RecoverVerified
    <3>1. \A b \in Bases : b <= cursor.segment
      BY <1>0, <1>1, <2>1 DEF Named, AnyNames, AnyBases
    <3> QED BY <1>3, <3>1, AcceptedIsVerified DEF HistoryInv
  <2> DEFINE cut == Lines(s)
             read == [b \in Bases |-> SegmentOf(files.checkpoints[b])]
  <2>3. /\ pc' = "recoverFsync" /\ files' = [files EXCEPT !.segments[s] = cut]
        /\ mem' = [mem EXCEPT !.durable = cursor, !.segments = read]
    BY <1>7, <2>2 DEF RecoverReplay
  <2>4. cut = SubSeq(lines, 1, Index(cursor) - s)
    BY DEF Lines
  <2>5. DOMAIN read = Bases
    OBVIOUS
  <2> HIDE DEF cut, read
  <2>6. cursor' = cursor /\ durable' = cursor /\ DOMAIN segments' = Bases
    BY <1>1, <2>3, <2>5 DEF NoMemory, cursor, durable, segments
  <2> HIDE DEF s, lines
  <2>7. /\ files'.cursor = files.cursor /\ files'.checkpoints = files.checkpoints
        /\ DOMAIN files'.segments = Bases /\ Bases' = Bases /\ files'.segments[s] = cut
        /\ \A b \in Bases : b # s => files'.segments[b] = files.segments[b]
    BY <1>1, <1>4, <2>3 DEF Bases
  <2>8. Placed(s, cut, files, disk, cursor)
    <3>1. /\ ~(s > cursor.segment) /\ ~(s < cursor.segment)
          /\ Len(lines) >= Index(cursor) - s
          /\ \A k \in 1..Len(lines) : s + k <= Index(cursor) => lines[k] = cursor.prefix[s + k]
      BY <1>1, <1>5 DEF Placed, s
    <3> DEFINE n == Index(cursor) - s
    <3>2. n \in Nat /\ n <= Len(lines) /\ \A k \in 1..n : k \in 1..Len(lines) /\ s + k <= Index(cursor)
      BY <1>1, <1>4, <1>5, <3>1
    <3>3. \A k \in 1..n : lines[k] \in Message
      BY <1>5, <3>2, ElementOfSeq
    <3> HIDE DEF n
    <3>4. Len(SubSeq(lines, 1, n)) = n /\ \A k \in 1..n : SubSeq(lines, 1, n)[k] = lines[k]
      BY <1>5, <3>2, <3>3, SubSeqProperties
    <3>5. cut = SubSeq(lines, 1, n)
      BY <2>4 DEF n
    <3>6. Len(cut) >= Index(cursor) - s
      BY <1>1, <1>4, <3>4, <3>5 DEF n
    <3>7. \A k \in 1..Len(cut) : cut[k] = cursor.prefix[s + k]
      BY <3>1, <3>2, <3>4, <3>5
    <3> QED BY <3>1, <3>6, <3>7 DEF Placed
  <2>9. Accepted(files', disk', cursor)
    <3>1. s \in DOMAIN disk.segments => Placed(s, disk'.segments[s], files, disk, cursor)
      BY <1>3, <2>1 DEF Accepted
    <3>2. DOMAIN files'.segments = DOMAIN files.segments /\ \A b \in DOMAIN files.segments : b # s => files'.segments[b] = files.segments[b]
      BY <1>1, <2>7
    <3> QED BY <1>3, <2>1, <2>7, <2>8, <3>1, <3>2, AcceptedRewritten
  <2>10. Acceptable'
    BY <1>3, <2>1, <2>7, <2>9 DEF Acceptable
  <2>11. Cursors' /\ Created' /\ NeverRefused'
    BY <1>0, <1>3, <2>1, <2>3, <2>7 DEF Cursors, Created, NeverRefused
  <2>12. Synced'
    <3>1. Same(files.segments, disk.segments) /\ DOMAIN files.checkpoints = DOMAIN disk.checkpoints
      BY <1>0, <2>1 DEF Synced
    <3>2. \A b \in Bases : b # s => files'.segments[b] = disk.segments[b]
      BY <1>1, <2>7, <3>1 DEF Same
    <3> QED BY <1>1, <2>1, <2>3, <2>6, <2>7, <3>1, <3>2 DEF Synced, Same, s
  <2>13. Named'
    <3>1. AnyNames(files', disk') = AnyNames(files, disk)
      BY <1>1, <2>1, <2>7 DEF AnyNames, AnyBases
    <3> QED BY <1>0, <2>1, <2>3, <2>6, <2>7, <3>1 DEF Named, Usable, Reopening
  <2> QED BY <2>10, <2>11, <2>12, <2>13 DEF AcceptInv
<1>8. CASE RecoverFsync
  <2>1. /\ pc = "recoverFsync" /\ files' = files /\ mem' = mem
        /\ disk'.cursor = disk.cursor /\ disk'.checkpoints = disk.checkpoints
        /\ disk'.segments = [disk.segments EXCEPT ![s] = lines]
        /\ pc' = IF Len(ledger) > Index(cursor) THEN "refused"
                 ELSE IF Len(ledger) < FirstRetained THEN "expired" ELSE "replay"
    BY <1>1, <1>8 DEF RecoverFsync
  <2>2. pc' \in {"expired", "replay"}
    <3>1. Len(ledger) <= Index(cursor) /\ Len(ledger) \in Nat
      <4>1. /\ Begins(ledger, disk.cursor.prefix) /\ ledger \in Seq(Message)
        BY <1>0, Parts DEF Safe, TypeInv
      <4>2. Len(ledger) <= Len(cursor.prefix)
        BY <1>3, <4>1 DEF Begins
      <4> QED BY <4>1, <4>2, LenProperties DEF Index
    <3> QED BY <1>1, <2>1, <3>1
  <2>3. cursor' = cursor /\ durable' = durable /\ segments' = segments /\ Bases' = Bases
    BY <2>1 DEF cursor, durable, segments, Bases
  <2> HIDE DEF s, lines
  <2>4. /\ DOMAIN disk'.segments = DOMAIN disk.segments
        /\ \A b \in DOMAIN disk.segments : b # s => disk'.segments[b] = disk.segments[b]
        /\ disk'.segments[s] = lines
    BY <1>4, <2>1
  <2>5. Accepted(files', disk', cursor)
    BY <1>3, <1>5, <2>1, <2>4, AcceptedRewritten DEF lines
  <2>6. Acceptable'
    BY <1>3, <2>1, <2>5 DEF Acceptable
  <2>7. Cursors' /\ Created' /\ NeverRefused'
    BY <1>0, <1>3, <2>1, <2>2, <2>3 DEF Cursors, Created, NeverRefused
  <2>8. Same(files'.segments, disk'.segments) /\ DOMAIN files'.checkpoints = DOMAIN disk'.checkpoints
    <3>1. /\ DOMAIN files.segments = DOMAIN disk.segments /\ DOMAIN files.checkpoints = DOMAIN disk.checkpoints
          /\ \A b \in Bases : b # s => files.segments[b] = disk.segments[b]
      BY <1>0, <2>1 DEF Synced, s
    <3> QED BY <1>1, <2>1, <2>4, <3>1 DEF Same, lines
  <2>9. Synced'
    BY <2>2, <2>8 DEF Synced
  <2>10. Named'
    <3>1. AnyNames(files', disk') = AnyNames(files, disk)
      BY <2>1, <2>4 DEF AnyNames, AnyBases
    <3> QED BY <1>0, <2>1, <2>2, <2>3, <3>1 DEF Named, Usable, Reopening
  <2> QED BY <2>6, <2>7, <2>9, <2>10 DEF AcceptInv
<1> QED BY <1>6, <1>7, <1>8

\* After a power loss: of every file either state, of the open segment part of the rest.
LEMMA AcceptPowerLoss ==
  ASSUME TypeInv, AcceptInv, PowerLoss
  PROVE  AcceptInv'
<1>1. PICK c \in {files.cursor, disk.cursor},
           keptCheckpoints \in SUBSET Unsynced(files.checkpoints, disk.checkpoints),
           keptSegments \in SUBSET Unsynced(files.segments, disk.segments),
           n \in TornLengths :
        files' = [cursor |-> c,
                  checkpoints |-> Survivors(files.checkpoints, disk.checkpoints, keptCheckpoints),
                  segments |-> SurvivingSegments(keptSegments, n)]
  BY DEF PowerLoss
<1>2. /\ files'.cursor = c /\ files'.segments = SurvivingSegments(keptSegments, n)
      /\ files'.checkpoints = Survivors(files.checkpoints, disk.checkpoints, keptCheckpoints)
  BY <1>1
<1>3. pc' = "down" /\ disk' = files'
  BY DEF PowerLoss
<1>4. n \in Int
  BY DEF TornLengths
<1>5. c \in Cursor
  BY AcceptParts
<1>6. c.epoch # 0 => Accepted(files', files', c)
  <2>1. SUFFICES ASSUME c.epoch # 0 PROVE Accepted(files', files', c)
    OBVIOUS
  <2>2. Accepted(files, disk, c)
    BY <2>1 DEF AcceptInv, Acceptable
  <2> QED BY <1>2, <1>4, <1>5, <2>2, AcceptedSurvives
<1>7. c.epoch = 0 => \A b \in DOMAIN files'.segments : files'.segments[b] = <<>>
  <2> SUFFICES ASSUME c.epoch = 0, NEW b \in DOMAIN files'.segments PROVE files'.segments[b] = <<>>
    OBVIOUS
  <2>1. /\ \A x \in DOMAIN files.segments : files.segments[x] = <<>>
        /\ \A x \in DOMAIN disk.segments : disk.segments[x] = <<>>
    BY DEF AcceptInv, Acceptable
  <2>2. /\ b \in DOMAIN files.segments \/ b \in DOMAIN disk.segments
        /\ files'.segments[b] = IF b \in Bases \cap DOMAIN disk.segments
             THEN Torn(files.segments[b], disk.segments[b], n)
             ELSE IF b \in keptSegments THEN files.segments[b] ELSE disk.segments[b]
        /\ b \in keptSegments => b \in DOMAIN files.segments
        /\ b \notin keptSegments => b \in DOMAIN disk.segments
    BY <1>2 DEF SurvivingSegments, Survivors
  <2>3. Torn(<<>>, <<>>, n) = <<>>
    <3>1. Len(<<>>) = 0
      BY EmptySeq
    <3> QED BY <1>4, <3>1 DEF Torn
  <2> QED BY <2>1, <2>2, <2>3 DEF Bases
<1>8. Acceptable'
  BY <1>2, <1>3, <1>6, <1>7 DEF Acceptable
<1>9. Cursors' /\ Created' /\ NeverRefused' /\ Synced' /\ Named'
  BY <1>3 DEF Cursors, Created, NeverRefused, Synced, Same, Named, Usable, Reopening, Unlinking, Committing,
              Initializing, Gathering, Reporting, Sealing
<1> QED BY <1>8, <1>9 DEF AcceptInv

\* Every step keeps it.
LEMMA AcceptStep ==
  ASSUME WriteBack = TRUE, TypeInv, PublishInv, RetentionInv, HistoryInv, AcceptInv, [Next]_vars
  PROVE  AcceptInv'
<1>1. DOMAIN mem = DOMAIN NoMemory
  BY AcceptParts
<1>2. CASE Replay \/ Flush \/ PublishLine \/ VenueError \/ IOFailure \/ ConsumerDies \/ RetainDone
           \/ UNCHANGED vars
  <2>1. /\ files' = files /\ disk' = disk /\ cursor' = cursor /\ durable' = durable /\ segments' = segments
    BY <1>1, <1>2 DEF Replay, Flush, PublishLine, VenueError, IOFailure, ConsumerDies, RetainDone, vars, NoMemory,
                      cursor, durable, segments
  <2>2. \/ pc' = pc /\ mem'.unusable = mem.unusable
        \/ pc = "replay" /\ pc' = "publish"
        \/ pc \in {"idle", "salvage"} /\ ~mem.unusable /\ pc' = "append"
        \/ pc = "idle" /\ pc' = "salvage"
        \/ pc \in CommitSteps /\ pc' = "salvage" /\ mem'.unusable
        \/ pc = "retain" /\ pc' = "publish"
    BY <1>1, <1>2 DEF Replay, Flush, PublishLine, VenueError, IOFailure, ConsumerDies, RetainDone, vars, NoMemory
  <2> QED BY <2>1, <2>2, AcceptIdle
<1>3. CASE Published
  <2>1. CASE Exit
    BY <2>1, AcceptProcess
  <2>2. CASE ~Exit
    <3>1. pc = "publish" /\ pc' = "idle" /\ files' = files /\ disk' = disk /\ mem' = mem
      BY <1>3, <2>2 DEF Published
    <3>2. cursor' = cursor /\ durable' = durable /\ segments' = segments
      BY <3>1 DEF cursor, durable, segments
    <3> QED BY <3>1, <3>2, AcceptIdle
  <2> QED BY <2>1, <2>2
<1>4. CASE Salvaged \/ OutputLost \/ Kill
  BY <1>4, AcceptProcess DEF Salvaged, OutputLost, Kill
<1>5. CASE RecoverScanned \/ Resume \/ StartFresh \/ ConsumerRebuilds \/ \E m \in Candidates : Stage(m)
  BY <1>5, AcceptProcess
<1>6. CASE Initialized \/ Anchored \/ Committed \/ Sealed
  BY <1>6, AcceptCursor
<1>7. CASE WriteCheckpoint \/ CreateSegment
  BY <1>7, AcceptCreation
<1>8. CASE ReplaceCursor
  BY <1>8, AcceptRename
<1>9. CASE SyncJournalDir
  BY <1>9, AcceptDirectory
<1>10. CASE AppendLine \/ SyncAppended \/ Anchor
  BY <1>10, AcceptLines
<1>11. CASE ExpireSegment \/ ExpireCheckpoint
  BY <1>11, AcceptExpiry
<1>12. CASE RecoverRemove \/ RecoverReplay \/ RecoverFsync
  BY <1>12, AcceptRecovery
<1>13. CASE PowerLoss
  BY <1>13, AcceptPowerLoss
<1> QED
  BY <1>2, <1>3, <1>4, <1>5, <1>6, <1>7, <1>8, <1>9, <1>10, <1>11, <1>12, <1>13
     DEF Next, Working, Producing, Faulting

\* An empty directory is acceptable.
LEMMA AcceptInit ==
  ASSUME Init
  PROVE  AcceptInv
<1>1. /\ files = NoFiles /\ disk = NoFiles /\ pc = "down"
      /\ NoFiles.cursor.epoch = 0 /\ DOMAIN NoFiles.segments = {}
  BY FreshParts DEF Init, NoFiles, NoCursor
<1>2. Acceptable
  BY <1>1 DEF Acceptable
<1> QED BY <1>1, <1>2
  DEF AcceptInv, NeverRefused, Cursors, Created, Synced, Same, Named, Usable, Reopening, Unlinking, Committing,
      Initializing, Gathering, Reporting, Sealing

\* A start is never refused: whatever the process was doing when it was killed, and
\* whatever a power loss left of it, the next start accepts the files, if the kernel
\* writes back what a killed process left dirty.
THEOREM StartIsNeverRefused ==
  ASSUME WriteBack = TRUE
  PROVE  Spec => []NeverRefused
<1>1. Init => TypeInv /\ PublishInv /\ RetentionInv /\ AcceptInv
  BY TypeInit, PublishInit, RetentionInit, AcceptInit
<1>2. TypeInv /\ PublishInv /\ [Next]_vars => PublishInv'
  BY PublishStep
<1>3. TypeInv /\ PublishInv /\ RetentionInv /\ HistoryInv /\ AcceptInv /\ [Next]_vars => AcceptInv'
  BY AcceptStep
<1>4. AcceptInv => NeverRefused
  BY DEF AcceptInv
<1> QED BY <1>1, <1>2, <1>3, <1>4, TypeInvariance, HistoryInvariance, RetentionInvariance, PTL DEF Spec
-----------------------------------------------------------------------------
(* What a reconnect verifies again is retained.                            *)

\* Nothing before index b is of the open minute, of a minute the cursor has a
\* proof of, or the newest print.
Guarded(b, c) ==
  /\ b <= Index(c)
  /\ \A i \in 1..b :
       /\ MinuteOf(c.prefix[i]) < c.cut
       /\ \A k \in 1..Len(c.proofs) : MinuteOf(c.prefix[i]) < c.proofs[k]
  /\ Mode = "ticks" /\ c.seq # 0 => \E i \in b + 1..Index(c) : c.prefix[i].id = c.seq

\* A segment that is there whatever a crash leaves starts early enough.
Covered(f, g, c) == \E b \in SureBases(f, g) : b <= c.segment /\ Guarded(b, c)

GuardedFiles == \A c \in {files.cursor, disk.cursor} : c.epoch # 0 => Covered(files, disk, c)
GuardedMemory == Opened => Guarded(FirstRetained, durable) /\ Guarded(FirstRetained, cursor)
ProtectInv == GuardedFiles /\ GuardedMemory

\* The minute of a message is a number.
LEMMA MinuteType ==
  ASSUME NEW m \in Message
  PROVE  MinuteOf(m) \in Int
<1>1. Minute \in Nat \ {0}
  BY JournalAssumption
<1>2. m.ts \in Nat /\ m.type \in {"tick", "time", "bar"}
  BY DEF Message
<1>3. m.ts % Minute \in Int
  BY <1>1, <1>2
<1> QED BY <1>1, <1>2, <1>3 DEF MinuteOf

\* What is guarded from b on is guarded from any index before.
LEMMA GuardedBelow ==
  ASSUME NEW c \in Cursor, NEW b \in Nat, NEW a \in Nat, a <= b, Guarded(b, c)
  PROVE  Guarded(a, c)
<1>1. Index(c) \in Nat
  BY CursorParts
<1>2. a <= Index(c) /\ 1..a \subseteq 1..b /\ b + 1..Index(c) \subseteq a + 1..Index(c)
  BY <1>1 DEF Guarded
<1> QED BY <1>2 DEF Guarded

\* Guarding looks neither at the stream's name nor at the open segment.
LEMMA GuardedAlike ==
  ASSUME NEW c, NEW d, NEW b, Guarded(b, c), d.prefix = c.prefix, d.cut = c.cut, d.seq = c.seq, d.proofs = c.proofs
  PROVE  Guarded(b, d)
BY DEF Guarded, Index

\* All of a stream without messages is guarded.
LEMMA GuardedFresh ==
  ASSUME NEW e
  PROVE  Guarded(0, FreshCursor(e))
<1>1. Len(<<>>) = 0 /\ 1..0 = {}
  BY EmptySeq
<1> QED BY <1>1 DEF Guarded, FreshCursor, Index

\* The window of proofs only gets later.
LEMMA PushedProofs ==
  ASSUME NEW q \in Seq(Nat), NEW t \in Nat, NEW k \in 1..Len(PushProof(q, t))
  PROVE  PushProof(q, t)[k] = t \/ \E j \in 1..Len(q) : PushProof(q, t)[k] = q[j]
<1> DEFINE l == Append(q, t)
           n == Len(q)
<1>0. n \in Nat
  BY LenProperties
<1>1. l \in Seq(Nat) /\ Len(l) = n + 1 /\ (\A i \in 1..n : l[i] = q[i]) /\ l[n + 1] = t
  BY AppendProperties
<1>2. l # <<>>
  <2>1. Len(<<>>) = 0 /\ n + 1 # 0
    BY <1>0
  <2> HIDE DEF l, n
  <2> QED BY <1>1, <2>1
<1> DEFINE r == PushProof(q, t)
<1>3. r = IF Len(l) > MaxProofs THEN Tail(l) ELSE l
  BY DEF PushProof
<1> HIDE DEF l
<1>4. Len(Tail(l)) = n /\ \A i \in 1..n : Tail(l)[i] = l[i + 1]
  BY <1>0, <1>1, <1>2, HeadTailProperties
<1>5. k \in 1..Len(r)
  OBVIOUS
<1> HIDE DEF r
<1>6. \E i \in 1..n + 1 : r[k] = l[i]
  <2>1. CASE r = l
    BY <1>1, <1>5, <2>1
  <2>2. CASE r = Tail(l)
    <3>1. k \in 1..n /\ r[k] = l[k + 1]
      BY <1>4, <1>5, <2>2
    <3>2. k + 1 \in 1..n + 1
      BY <1>0, <3>1
    <3> QED BY <3>1, <3>2
  <2> QED BY <1>3, <2>1, <2>2
<1>7. PICK i \in 1..n + 1 : r[k] = l[i]
  BY <1>6
<1>8. CASE i = n + 1
  BY <1>1, <1>7, <1>8 DEF r
<1>9. CASE i # n + 1
  <2>1. i \in 1..n
    BY <1>0, <1>9
  <2> QED BY <1>1, <1>7, <2>1 DEF r, n
<1> QED BY <1>8, <1>9

\* Staging a message takes nothing out of the guarded part.
LEMMA GuardedStaged ==
  ASSUME NEW c \in Cursor, NEW m \in Message, CanAdvance(c, m), NEW b \in Nat, Guarded(b, c)
  PROVE  Guarded(b, Staged(c, m))
<1> DEFINE d == Staged(c, m)
           n == Index(c)
<1>1. /\ n = Len(c.prefix) /\ n \in Nat /\ c.prefix \in Seq(Message) /\ c.cut \in Nat /\ c.proofs \in Seq(Nat)
      /\ Len(c.proofs) \in Nat /\ \A k \in 1..Len(c.proofs) : c.proofs[k] \in Nat
  BY CursorParts, LenProperties, ElementOfSeq DEF Index
<1>2. d \in Cursor /\ d.prefix = Append(c.prefix, m)
  BY StagedIsCursor, StagedParts
<1>3. Index(d) = n + 1 /\ d.prefix[n + 1] = m /\ \A i \in 1..n : d.prefix[i] = c.prefix[i]
  BY <1>1, <1>2, AppendProperties DEF Index
<1>4. /\ d.seq = IF m.type = "tick" THEN m.id ELSE c.seq
      /\ d.cut = IF m.type = "tick" THEN c.cut ELSE c.cut + Minute
      /\ d.proofs = IF m.type = "tick" THEN c.proofs ELSE PushProof(c.proofs, c.cut)
  BY DEF Staged, Advance, CanAdvance, Cursor, Message
<1> HIDE DEF d, n
<1>5. b <= n /\ b <= Index(d)
  BY <1>1, <1>3 DEF Guarded, n
<1>6. ASSUME NEW i \in 1..b
      PROVE  MinuteOf(d.prefix[i]) < d.cut /\ \A k \in 1..Len(d.proofs) : MinuteOf(d.prefix[i]) < d.proofs[k]
  <2> DEFINE t == MinuteOf(c.prefix[i])
  <2>1. i \in 1..n /\ d.prefix[i] = c.prefix[i]
    BY <1>1, <1>3, <1>5
  <2>2. t \in Int
    <3>1. c.prefix[i] \in Message
      BY <1>1, <2>1, ElementOfSeq
    <3> QED BY <3>1, MinuteType
  <2>3. t < c.cut /\ \A k \in 1..Len(c.proofs) : t < c.proofs[k]
    BY <1>6 DEF Guarded
  <2> HIDE DEF t
  <2>4. t < d.cut
    BY <1>1, <1>4, <2>2, <2>3, JournalAssumption
  <2>5. ASSUME NEW k \in 1..Len(d.proofs) PROVE t < d.proofs[k]
    <3>1. CASE d.proofs = c.proofs
      BY <2>3, <3>1
    <3>2. CASE d.proofs = PushProof(c.proofs, c.cut)
      <4>1. d.proofs[k] = c.cut \/ \E j \in 1..Len(c.proofs) : d.proofs[k] = c.proofs[j]
        BY <1>1, <2>5, <3>2, PushedProofs, SMTT(40)
      <4> QED BY <2>3, <4>1
    <3> QED BY <1>4, <3>1, <3>2
  <2> QED BY <2>1, <2>4, <2>5 DEF t
<1>7. ASSUME Mode = "ticks", d.seq # 0 PROVE \E i \in b + 1..Index(d) : d.prefix[i].id = d.seq
  <2>1. CASE m.type = "tick"
    <3>1. n + 1 \in b + 1..Index(d)
      BY <1>1, <1>3, <1>5
    <3> QED BY <1>3, <1>4, <2>1, <3>1
  <2>2. CASE m.type # "tick"
    <3>1. PICK i \in b + 1..n : c.prefix[i].id = c.seq
      BY <1>4, <1>7, <2>2 DEF Guarded, n
    <3>2. i \in b + 1..Index(d) /\ i \in 1..n
      BY <1>1, <1>3, <1>5, <3>1
    <3> QED BY <1>3, <1>4, <2>2, <3>1, <3>2
  <2> QED BY <2>1, <2>2
<1>8. Guarded(b, d)
  BY <1>5, <1>6, <1>7 DEF Guarded
<1> QED BY <1>8 DEF d

\* What the first retained segment is, while the journal is open.
LEMMA RetainedFirst ==
  ASSUME TypeInv, pc \in Holding
  PROVE  /\ Opened /\ FirstRetained \in DOMAIN segments /\ FirstRetained \in Nat /\ FirstRetained \in Bases
         /\ FirstRetained <= durable.segment /\ durable.segment = cursor.segment
         /\ durable.segment <= Index(durable) /\ Index(durable) <= Index(cursor)
         /\ \A b \in DOMAIN segments : FirstRetained <= b
<1>1. /\ DOMAIN segments \subseteq Bases /\ durable.segment \in DOMAIN segments
      /\ cursor.segment = durable.segment /\ durable.segment <= Index(durable) /\ Index(durable) <= Index(cursor)
  BY DEF TypeInv, OpenSegment
<1>2. Opened
  BY <1>1 DEF Opened
<1>3. FirstRetained \in DOMAIN segments /\ FirstRetained \in Nat /\ \A b \in DOMAIN segments : FirstRetained <= b
  BY <1>2, RetainedIndex
<1> QED BY <1>1, <1>2, <1>3

\* The entries that no crash can take back only grow in number, and each cursor is one there was.
LEMMA StillCovered ==
  ASSUME GuardedFiles, SureBases(files, disk) \subseteq SureBases(files', disk'),
         files'.cursor \in {files.cursor, disk.cursor}, disk'.cursor \in {files.cursor, disk.cursor}
  PROVE  GuardedFiles'
<1> SUFFICES ASSUME NEW c \in {files'.cursor, disk'.cursor}, c.epoch # 0
             PROVE  \E b \in SureBases(files', disk') : b <= c.segment /\ Guarded(b, c)
  BY DEF GuardedFiles, Covered
<1>1. PICK b \in SureBases(files, disk) : b <= c.segment /\ Guarded(b, c)
  BY DEF GuardedFiles, Covered
<1> QED BY <1>1

\* A rename of cursor.json to what the process has.
LEMMA RenamedIsCovered ==
  ASSUME TypeInv, PublishInv, RetentionInv, AcceptInv, ProtectInv, ReplaceCursor \/ Anchor
  PROVE  GuardedFiles'
<1> USE DEF Initializing, Gathering, Reporting, Sealing, Committing
<1>0. Cursors /\ Synced /\ Created /\ GuardedFiles /\ GuardedMemory /\ Starting /\ OpenSegment
  BY DEF AcceptInv, ProtectInv, PublishInv, TypeInv
<1>1. /\ DOMAIN files = {"cursor", "checkpoints", "segments"} /\ cursor \in Cursor /\ durable \in Cursor
      /\ cursor.segment \in Nat /\ Index(cursor) \in Nat /\ Index(durable) \in Nat /\ durable.segment \in Nat
      /\ Bases = DOMAIN files.segments
  BY AcceptParts
<1>2. /\ disk' = disk /\ files'.segments = files.segments
      /\ pc \in {"initCursor", "commitCursor", "sealCursor", "idle"}
  BY <1>1 DEF ReplaceCursor, Anchor, Step
<1>3. SureBases(files', disk') = SureBases(files, disk) /\ SureBases(files, disk) = Bases
  BY <1>0, <1>1, <1>2 DEF SureBases, Synced, Same
<1>4. CASE pc = "initCursor"
  <2>1. files'.cursor = cursor /\ cursor = FreshCursor(cursor.epoch) /\ Bases = {0} /\ disk.cursor.epoch = 0
    BY <1>0, <1>1, <1>4 DEF ReplaceCursor, Anchor, Cursors, Created
  <2>2. Guarded(0, cursor)
    BY <2>1, GuardedFresh
  <2>3. Covered(files', disk', cursor)
    BY <1>1, <1>3, <2>1, <2>2 DEF Covered
  <2> QED BY <1>2, <2>1, <2>3 DEF GuardedFiles
<1>5. CASE pc \in {"commitCursor", "sealCursor", "idle"}
  <2>1. /\ Opened /\ FirstRetained \in Nat /\ FirstRetained \in Bases /\ FirstRetained <= durable.segment
        /\ durable.segment = cursor.segment /\ durable.segment <= Index(durable) /\ Index(durable) <= Index(cursor)
    BY <1>5, RetainedFirst DEF Holding, CommitSteps
  <2>2. Guarded(FirstRetained, cursor)
    BY <1>0, <2>1 DEF GuardedMemory
  <2>3. /\ files'.cursor.prefix = cursor.prefix /\ files'.cursor.cut = cursor.cut /\ files'.cursor.seq = cursor.seq
        /\ files'.cursor.proofs = cursor.proofs
        /\ files'.cursor.segment \in {cursor.segment, Index(cursor)}
    BY <1>1, <1>5, SMTT(40) DEF ReplaceCursor, Anchor, Cursor
  <2> DEFINE c == files'.cursor
             b == FirstRetained
  <2>4. b <= c.segment
    BY <1>1, <2>1, <2>3
  <2>5. b \in SureBases(files', disk')
    BY <1>3, <2>1
  <2>6. b \in SureBases(files', disk') /\ b <= c.segment /\ Guarded(b, c)
    <3> HIDE DEF c
    <3>1. Guarded(b, c)
      BY <2>2, <2>3, GuardedAlike DEF c
    <3> QED BY <2>4, <2>5, <3>1
  <2>7. Covered(files', disk', c)
    BY <2>6 DEF Covered
  <2>8. disk.cursor.epoch # 0 => Covered(files', disk', disk.cursor)
    BY <1>0, <1>3 DEF GuardedFiles, Covered
  <2> QED BY <1>2, <2>7, <2>8 DEF GuardedFiles
<1> QED BY <1>2, <1>4, <1>5

\* An interrupted seal or expiry is cleaned up: what is removed covers nothing.
LEMMA RemovedCoversNothing ==
  ASSUME TypeInv, PublishInv, ProtectInv, RecoverRemove
  PROVE  GuardedFiles'
<1>0. GuardedFiles /\ Safe /\ Starting
  BY DEF ProtectInv, PublishInv
<1>1. /\ DOMAIN files = {"cursor", "checkpoints", "segments"} /\ cursor \in Cursor /\ cursor.segment \in Nat
      /\ Bases = DOMAIN files.segments /\ Bases \in SUBSET Nat /\ Names \in SUBSET Nat
  BY AcceptParts, FileTypes DEF Names
<1> DEFINE b == Min(AboveOpen \cup Orphans)
<1>2. /\ pc \in {"recover", "recoverDirty"} /\ disk' = disk /\ files'.cursor = files.cursor
      /\ AboveOpen \cup Orphans # {}
      /\ \/ b \in Bases /\ files'.segments = Without(files.segments, b)
         \/ b \notin Bases /\ files'.segments = files.segments
  BY <1>1 DEF RecoverRemove
<1>3. cursor = files.cursor /\ disk.cursor = files.cursor
  BY <1>0, <1>2 DEF Starting, Safe, Recovering, CursorUnsynced
<1>4. b \in AboveOpen \cup Orphans
  <2> DEFINE S == AboveOpen \cup Orphans
  <2>1. S \in SUBSET Nat /\ S # {}
    BY <1>1, <1>2 DEF AboveOpen, Orphans
  <2> HIDE DEF S
  <2>2. Min(S) \in S
    BY <2>1, MinOfNats
  <2> QED BY <2>2 DEF S
<1> HIDE DEF b
<1>5. b \in Bases => b > cursor.segment
  BY <1>4 DEF AboveOpen, Orphans
<1>6. \A x \in SureBases(files, disk) : x <= cursor.segment => x \in SureBases(files', disk')
  <2> SUFFICES ASSUME NEW x \in SureBases(files, disk), x <= cursor.segment PROVE x \in SureBases(files', disk')
    OBVIOUS
  <2>1. x \in Bases /\ x \in Nat /\ x \in DOMAIN disk.segments
    BY <1>1 DEF SureBases
  <2>2. x \in DOMAIN files'.segments
    <3>1. CASE b \in Bases /\ files'.segments = Without(files.segments, b)
      <4>1. b \in Nat /\ b # x
        BY <1>1, <1>5, <2>1, <3>1
      <4> QED BY <1>1, <2>1, <3>1, <4>1 DEF Without
    <3>2. CASE files'.segments = files.segments
      BY <1>1, <2>1, <3>2
    <3> QED BY <1>2, <3>1, <3>2
  <2> QED BY <1>2, <2>1, <2>2 DEF SureBases
<1>7. cursor.epoch # 0 => Covered(files', disk', cursor)
  BY <1>0, <1>3, <1>6 DEF GuardedFiles, Covered
<1> QED BY <1>2, <1>3, <1>7 DEF GuardedFiles

\* Expiry drops a segment only if all before the next one may go.
LEMMA ExpiredIsGuarded ==
  ASSUME TypeInv, HistoryInv, ProtectInv, Opened, Expirable
  PROVE  LET N == Min(DOMAIN segments \ {FirstRetained})
         IN  N \in DOMAIN segments /\ N # FirstRetained /\ N # Index(durable) /\ Guarded(N, durable)
<1> DEFINE p == durable.prefix
           a == durable.pred
           n == Index(durable)
           F == FirstRetained
           S == DOMAIN segments \ {F}
           N == Min(S)
           c == durable
<1>1. /\ p \in Seq(Message) /\ a \in Nat /\ n = Len(p) /\ n \in Nat /\ F \in 0..n
      /\ DOMAIN segments \in SUBSET (0..n) /\ F \in DOMAIN segments /\ \A b \in DOMAIN segments : F <= b
  BY RetainedStates
<1>2. PICK h : /\ Run(h, p, a) /\ h[n] = SegmentOf(durable)
               /\ \A b \in DOMAIN segments : segments[b] = h[b]
  BY <1>1, RetainedStates
<1>3. N \in S
  <2>1. DOMAIN segments # {F}
    BY DEF Expirable
  <2>2. S \in SUBSET Nat /\ S # {}
    <3>1. \E b \in DOMAIN segments : b # F
      BY <1>1, <2>1
    <3> QED BY <1>1, <3>1
  <2> HIDE DEF S
  <2> QED BY <2>2, MinOfNats
<1>4. /\ AfterOldest = segments[N] /\ Oldest = segments[F] /\ AfterOldest.cut < ProtectedStart(c)
      /\ ~(Mode = "ticks" /\ AfterOldest.seq = c.seq /\ Oldest.seq < c.seq)
  BY DEF Expirable, AfterOldest, Oldest, HoldsNewestPrint
<1>5. /\ c \in Cursor /\ c.cut \in Nat /\ c.seq \in Nat /\ c.proofs \in Seq(Nat) /\ Len(c.proofs) \in Nat
      /\ \A k \in 1..Len(c.proofs) : c.proofs[k] \in Nat
  BY RetentionParts, CursorParts, LenProperties, ElementOfSeq
<1>6. Proven(c) /\ Guarded(F, c)
  BY DEF HistoryInv, Truth, Honest, ProtectInv, GuardedMemory
<1> HIDE DEF S, N, F, n, c
<1>7. N \in DOMAIN segments /\ N \in 0..n /\ N # F /\ F <= N /\ F \in DOMAIN segments
  BY <1>1, <1>3 DEF S
<1>8. h[N].cut < ProtectedStart(c) /\ ~(Mode = "ticks" /\ h[N].seq = c.seq /\ h[F].seq < c.seq)
  BY <1>2, <1>4, <1>7
<1>9. \A k \in 0..n : h[k].cut \in Nat /\ h[k].seq \in Nat
  BY <1>1, <1>2, RunTypes
<1>10. h[N].cut < c.cut /\ \A k \in 1..Len(c.proofs) : h[N].cut < c.proofs[k]
  <2>1. CASE c.proofs = <<>>
    <3>1. Len(c.proofs) = 0
      BY <2>1, EmptySeq
    <3> QED BY <1>8, <2>1, <3>1 DEF ProtectedStart
  <2>2. CASE c.proofs # <<>>
    <3>1. Len(c.proofs) # 0
      BY <1>5, <2>2, EmptySeq
    <3>2. 1 \in 1..Len(c.proofs) /\ \A k \in 1..Len(c.proofs) : 1 \in 1..k
      BY <1>5, <3>1
    <3>3. c.proofs[1] < c.cut /\ (\A k \in 1..Len(c.proofs) : c.proofs[1] <= c.proofs[k]) /\ c.proofs[1] \in Nat
      BY <1>5, <1>6, <3>2 DEF Proven
    <3>4. Min({c.proofs[1], c.cut}) \in {c.proofs[1], c.cut} /\ Min({c.proofs[1], c.cut}) <= c.proofs[1]
      BY <1>5, <3>3, MinOfNats
    <3>5. ProtectedStart(c) \in {c.proofs[1], c.cut} /\ ProtectedStart(c) <= c.proofs[1]
      BY <2>2, <3>4 DEF ProtectedStart
    <3>6. h[N].cut \in Nat
      BY <1>7, <1>9
    <3>7. h[N].cut < c.proofs[1]
      BY <1>5, <1>8, <3>3, <3>5, <3>6
    <3> QED BY <1>5, <3>3, <3>6, <3>7
  <2> QED BY <2>1, <2>2
<1>11. ASSUME NEW i \in 1..N
       PROVE  MinuteOf(p[i]) < c.cut /\ \A k \in 1..Len(c.proofs) : MinuteOf(p[i]) < c.proofs[k]
  <2>1. i \in 1..n /\ i - 1 \in 0..n /\ i - 1 \in 0..N
    BY <1>1, <1>7
  <2>2. MinuteOf(p[i]) = h[i - 1].cut
    BY <1>1, <1>2, <2>1, RunMinutes
  <2>3. h[i - 1].cut <= h[N].cut
    BY <1>1, <1>2, <1>7, <2>1, RunGrows
  <2>4. h[i - 1].cut \in Nat /\ h[N].cut \in Nat
    BY <1>7, <1>9, <2>1
  <2> QED BY <1>5, <1>10, <2>2, <2>3, <2>4
<1>12. ASSUME Mode = "ticks", c.seq # 0 PROVE \E i \in N + 1..n : p[i].id = c.seq
  <2>1. h[n].seq = c.seq
    BY <1>2 DEF SegmentOf, c
  <2>2. h[N].seq <= c.seq /\ h[N].seq \in Nat /\ n \in 0..n
    BY <1>1, <1>2, <1>7, <1>9, <2>1, RunGrows
  <2>3. CASE h[N].seq < c.seq
    <3>1. n \in 0..Len(p) /\ h[N].seq < h[n].seq
      BY <1>1, <2>1, <2>3
    <3> HIDE DEF p, a
    <3>2. \E k \in N + 1..n : p[k].id = h[n].seq
      BY <1>1, <1>2, <1>7, <3>1, RunNewest
    <3> QED BY <2>1, <3>2
  <2>4. CASE h[N].seq = c.seq
    <3>1. ~(h[F].seq < c.seq) /\ h[F].seq \in Nat /\ F \in 0..n /\ h[F].seq <= h[N].seq
      <4>1. F \in 0..n /\ F \in 0..N
        BY <1>1, <1>7
      <4> QED BY <1>1, <1>2, <1>7, <1>8, <1>9, <1>12, <2>4, <4>1, RunGrows
    <3>2. h[F].seq = c.seq
      BY <1>5, <2>4, <3>1
    <3>3. PICK i \in F + 1..n : p[i].id = c.seq
      BY <1>6, <1>12 DEF Guarded, c, n, p
    <3>4. i \in 1..n /\ i - 1 \in 0..n /\ F \in 0..i - 1 /\ i \in 0..n /\ i <= n
      BY <1>1, <3>1
    <3>5. h[i].seq = c.seq
      <4>1. c.seq <= h[i].seq /\ h[i].seq <= c.seq /\ h[i].seq \in Nat
        <5>1. F \in 0..i
          BY <3>4
        <5> QED BY <1>1, <1>2, <1>9, <2>1, <2>2, <3>2, <3>4, <5>1, RunGrows
      <4> QED BY <1>5, <4>1
    <3>6. h[i - 1].seq = c.seq
      <4>1. c.seq <= h[i - 1].seq /\ h[i - 1].seq <= c.seq /\ h[i - 1].seq \in Nat
        <5>1. i - 1 \in 0..n
          BY <3>4
        <5> QED BY <1>1, <1>2, <1>9, <2>1, <2>2, <3>2, <3>4, <5>1, RunGrows
      <4> QED BY <1>5, <4>1
    <3>7. p[i].id = 0
      BY <1>1, <1>2, <3>4, <3>5, <3>6, RunStep
    <3> QED BY <1>12, <3>3, <3>7
  <2> QED BY <1>5, <2>2, <2>3, <2>4
<1>13. N <= n
  BY <1>1, <1>7
<1>14. Guarded(N, c)
  BY <1>11, <1>12, <1>13 DEF Guarded, p, n, c
<1>15. N # n
  <2>1. h[n].cut = c.cut /\ c.cut \in Nat
    BY <1>2, <1>5 DEF SegmentOf, c
  <2> QED BY <1>10, <2>1
<1> QED BY <1>7, <1>14, <1>15 DEF N, S, F, c, n

\* So the segment that becomes the oldest starts early enough.
LEMMA ExpiryKeepsGuard ==
  ASSUME TypeInv, HistoryInv, AcceptInv, ProtectInv, ExpireSegment
  PROVE  ProtectInv'
<1> DEFINE S == DOMAIN segments \ {FirstRetained}
           N == Min(S)
<1>1. /\ pc = "retain" /\ disk' = disk /\ files'.cursor = files.cursor
      /\ files'.segments = Without(files.segments, FirstRetained)
      /\ cursor' = cursor /\ durable' = durable /\ segments' = Without(segments, FirstRetained)
      /\ Bases = DOMAIN files.segments /\ durable.segment \in Nat
  BY AcceptParts DEF ExpireSegment, NoMemory, cursor, durable, segments
<1>2. /\ Opened /\ (\A b \in DOMAIN segments : b <= durable.segment) /\ DOMAIN segments \subseteq Bases
  BY <1>1, RetainedFirst DEF Holding, CommitSteps, TypeInv, OpenSegment
<1>3. /\ files.cursor = durable /\ disk.cursor = durable /\ cursor = durable
      /\ Same(files.segments, disk.segments)
  BY <1>1 DEF AcceptInv, Cursors, Synced, Reporting, Sealing, Gathering
<1>4. N \in DOMAIN segments /\ N # FirstRetained /\ Guarded(N, durable)
  BY <1>1, <1>2, ExpiredIsGuarded DEF ExpireSegment
<1>5. DOMAIN segments' = S
  BY <1>1 DEF Without
<1>6. FirstRetained' = N
  BY <1>5 DEF FirstRetained
<1>7. GuardedMemory'
  <2>1. Guarded(FirstRetained, durable)' <=> Guarded(N, durable)
    BY <1>1, <1>6 DEF Guarded, Index
  <2>2. Guarded(FirstRetained, cursor)' <=> Guarded(N, cursor)
    BY <1>1, <1>6 DEF Guarded, Index
  <2> QED BY <1>3, <1>4, <2>1, <2>2 DEF GuardedMemory
<1> HIDE DEF N
<1>8. N \in SureBases(files', disk')
  <2>1. N \in DOMAIN files.segments /\ N \in DOMAIN disk.segments
    BY <1>1, <1>2, <1>3, <1>4 DEF Same
  <2> QED BY <1>1, <1>4, <2>1 DEF SureBases, Without
<1>9. Covered(files', disk', durable)
  BY <1>2, <1>4, <1>8 DEF Covered
<1>10. GuardedFiles'
  BY <1>1, <1>3, <1>9 DEF GuardedFiles
<1> QED BY <1>7, <1>10 DEF ProtectInv

\* Every step keeps the files guarded.
LEMMA GuardedFilesStep ==
  ASSUME WriteBack = TRUE, TypeInv, PublishInv, RetentionInv, HistoryInv, AcceptInv, ProtectInv, [Next]_vars
  PROVE  GuardedFiles'
<1>0. GuardedFiles /\ Safe
  BY DEF ProtectInv, PublishInv
<1>1. /\ DOMAIN files = {"cursor", "checkpoints", "segments"} /\ DOMAIN disk = {"cursor", "checkpoints", "segments"}
      /\ Bases = DOMAIN files.segments /\ DOMAIN mem = DOMAIN NoMemory
  BY AcceptParts
<1>2. CASE UNCHANGED <<files, disk>>
  BY <1>0, <1>2, StillCovered
<1>3. CASE Exit
  <2>1. files' = files /\ disk' = files
    BY <1>3 DEF Exit
  <2> QED BY <1>0, <2>1, StillCovered DEF SureBases
<1>4. CASE \/ Replay \/ Flush \/ PublishLine \/ VenueError \/ IOFailure \/ ConsumerDies \/ RetainDone
           \/ ConsumerRebuilds \/ Resume \/ RecoverScanned \/ (\E m \in Candidates : Stage(m)) \/ UNCHANGED vars
  BY <1>2, <1>4 DEF Replay, Flush, PublishLine, VenueError, IOFailure, ConsumerDies, RetainDone, vars,
                    ConsumerRebuilds, Resume, RecoverScanned, Stage
<1>5. CASE Published \/ Salvaged \/ OutputLost \/ Kill
  BY <1>2, <1>3, <1>5 DEF Published, Salvaged, OutputLost, Kill
<1>6. CASE StartFresh
  <2>1. /\ files.cursor.epoch = 0 /\ disk.cursor = files.cursor /\ disk' = disk /\ files'.cursor = files.cursor
    BY <1>0, <1>1, <1>6 DEF StartFresh, Safe, CursorUnsynced
  <2> QED BY <2>1 DEF GuardedFiles
<1>7. CASE WriteCheckpoint \/ ExpireCheckpoint \/ CreateSegment \/ AppendLine \/ RecoverReplay
  <2>1. files'.cursor = files.cursor /\ disk' = disk /\ DOMAIN files.segments \subseteq DOMAIN files'.segments
    BY <1>1, <1>7 DEF WriteCheckpoint, ExpireCheckpoint, CreateSegment, AppendLine, RecoverReplay, Step, With
  <2> QED BY <1>0, <2>1, StillCovered DEF SureBases
<1>8. CASE ReplaceCursor \/ Anchor
  BY <1>8, RenamedIsCovered
<1>9. CASE SyncJournalDir \/ SyncAppended \/ RecoverFsync
  <2>1. /\ files' = files /\ disk'.cursor = disk.cursor
        /\ DOMAIN files.segments \cap DOMAIN disk.segments \subseteq DOMAIN disk'.segments
    BY <1>1, <1>9 DEF SyncJournalDir, SyncAppended, RecoverFsync, Step, SyncedJournal
  <2> QED BY <1>0, <2>1, StillCovered DEF SureBases
<1>10. CASE Initialized \/ Anchored \/ Committed \/ Sealed
  <2>1. files' = files /\ disk'.cursor = files.cursor /\ disk'.segments = disk.segments
    BY <1>1, <1>10 DEF Initialized, Anchored, Committed, Sealed, CursorSynced
  <2> QED BY <1>0, <2>1, StillCovered DEF SureBases
<1>11. CASE RecoverRemove
  BY <1>11, RemovedCoversNothing
<1>12. CASE ExpireSegment
  BY <1>12, ExpiryKeepsGuard DEF ProtectInv
<1>13. CASE PowerLoss
  <2>1. PICK c \in {files.cursor, disk.cursor},
             keptCheckpoints \in SUBSET Unsynced(files.checkpoints, disk.checkpoints),
             keptSegments \in SUBSET Unsynced(files.segments, disk.segments), n \in TornLengths :
          files' = [cursor |-> c,
                    checkpoints |-> Survivors(files.checkpoints, disk.checkpoints, keptCheckpoints),
                    segments |-> SurvivingSegments(keptSegments, n)]
    BY <1>13 DEF PowerLoss
  <2>2. disk' = files' /\ files'.cursor = c /\ files'.segments = SurvivingSegments(keptSegments, n)
    BY <1>13, <2>1 DEF PowerLoss
  <2>3. DOMAIN SurvivingSegments(keptSegments, n) = (keptSegments \cap DOMAIN files.segments) \cup (DOMAIN disk.segments \ keptSegments)
    BY DEF SurvivingSegments, Survivors
  <2>4. SureBases(files, disk) \subseteq SureBases(files', disk')
    BY <2>2, <2>3 DEF SureBases
  <2> QED BY <1>0, <2>2, <2>4, StillCovered
<1> QED
  BY <1>4, <1>5, <1>6, <1>7, <1>8, <1>9, <1>10, <1>11, <1>12, <1>13 DEF Next, Working, Producing, Faulting

\* And what the process holds.
LEMMA GuardedMemoryStep ==
  ASSUME WriteBack = TRUE, TypeInv, TypeInv', PublishInv, RetentionInv, HistoryInv, AcceptInv, ProtectInv, [Next]_vars
  PROVE  GuardedMemory'
<1> USE DEF Initializing, Gathering, Reporting, Sealing, Committing
<1>0. /\ GuardedFiles /\ GuardedMemory /\ Safe /\ Starting /\ Cursors /\ Created /\ Named /\ OpenSegment /\ Batch
  BY DEF ProtectInv, PublishInv, AcceptInv, TypeInv, RetentionInv
<1>1. /\ DOMAIN mem = DOMAIN NoMemory /\ cursor \in Cursor /\ durable \in Cursor /\ files.cursor \in Cursor
      /\ Index(cursor) \in Nat /\ Index(durable) \in Nat /\ durable.segment \in Nat /\ cursor.segment \in Nat
      /\ Bases = DOMAIN files.segments /\ Bases \in SUBSET Nat /\ DOMAIN segments \in SUBSET Nat
  BY AcceptParts, RetentionParts
<1>2. ASSUME cursor' = cursor, durable' = durable, segments' = segments PROVE GuardedMemory'
  <2>1. FirstRetained' = FirstRetained /\ (Opened' <=> Opened)
    BY <1>2 DEF FirstRetained, Opened
  <2>2. Guarded(FirstRetained, durable)' <=> Guarded(FirstRetained, durable)
    BY <1>2, <2>1 DEF Guarded, Index
  <2>3. Guarded(FirstRetained, cursor)' <=> Guarded(FirstRetained, cursor)
    BY <1>2, <2>1 DEF Guarded, Index
  <2> QED BY <1>0, <2>1, <2>2, <2>3 DEF GuardedMemory
<1>3. ASSUME segments' = <<>> PROVE GuardedMemory'
  <2>1. DOMAIN segments' = {}
    BY <1>3, EmptySeq
  <2> QED BY <2>1 DEF GuardedMemory, Opened
\* The oldest of what is retained then.
<1>4. ASSUME NEW x \in DOMAIN segments'
       PROVE  FirstRetained' \in DOMAIN segments' /\ FirstRetained' \in Nat /\ FirstRetained' <= x
  <2> DEFINE D == DOMAIN segments'
  <2>1. D \in SUBSET Nat
    BY DEF TypeInv, TypeOK, MemoryOK, Directory, segments
  <2>2. FirstRetained' = Min(D)
    BY DEF FirstRetained
  <2>3. x \in D
    OBVIOUS
  <2> HIDE DEF D
  <2>4. Min(D) \in D /\ Min(D) <= x
    BY <2>1, <2>3, MinOfNats
  <2>5. Min(D) \in Nat
    BY <2>1, <2>4
  <2> QED BY <2>2, <2>4, <2>5 DEF D
<1>5. CASE UNCHANGED mem
  BY <1>2, <1>5 DEF cursor, durable, segments
<1>6. CASE Exit \/ mem' = NoMemory
  BY <1>3, <1>6 DEF Exit, NoMemory, segments
<1>7. CASE Replay \/ Flush \/ AppendLine \/ PublishLine \/ VenueError \/ IOFailure
  BY <1>1, <1>2, <1>7 DEF Replay, Flush, AppendLine, PublishLine, VenueError, IOFailure, NoMemory,
                          cursor, durable, segments
<1>8. CASE StartFresh \/ Resume
  <2>1. segments' = segments /\ segments = <<>>
    BY <1>0, <1>1, <1>8 DEF StartFresh, Resume, Batch, NoMemory, segments
  <2> QED BY <1>3, <2>1
<1>9. ASSUME NEW m \in Candidates, Stage(m) PROVE GuardedMemory'
  <2>1. /\ pc = "idle" /\ cursor' = Staged(cursor, m) /\ durable' = durable /\ segments' = segments
        /\ CanAdvance(cursor, m)
    BY <1>1, <1>9 DEF Stage, NoMemory, cursor, durable, segments
  <2>2. /\ Opened /\ FirstRetained \in Nat /\ FirstRetained' = FirstRetained
    BY <2>1, RetainedFirst DEF Holding, FirstRetained
  <2> DEFINE F == FirstRetained
             d == Staged(cursor, m)
  <2>3. Guarded(F, durable) /\ Guarded(F, d)
    <3>1. m \in Message
      BY <1>1, CandidatesType
    <3>2. Guarded(F, durable) /\ Guarded(F, cursor)
      BY <1>0, <2>2 DEF GuardedMemory
    <3> QED BY <1>1, <2>1, <2>2, <3>1, <3>2, GuardedStaged
  <2> HIDE DEF d
  <2>4. Guarded(FirstRetained, durable)' <=> Guarded(F, durable)
    BY <2>1, <2>2 DEF Guarded, Index
  <2>5. cursor' = d
    BY <2>1 DEF d
  <2>6. Guarded(FirstRetained, cursor)' <=> Guarded(F, d)
    BY <2>2, <2>5 DEF Guarded, Index
  <2> QED BY <2>3, <2>4, <2>6 DEF GuardedMemory
\* The process goes on from one cursor, and what it retains starts no later.
<1>10. ASSUME NEW c \in Cursor, NEW b \in Nat, Guarded(b, c), FirstRetained' \in Nat, FirstRetained' <= b,
             durable'.prefix = c.prefix, durable'.cut = c.cut, durable'.seq = c.seq, durable'.proofs = c.proofs,
             cursor'.prefix = c.prefix, cursor'.cut = c.cut, cursor'.seq = c.seq, cursor'.proofs = c.proofs
      PROVE  GuardedMemory'
  <2> DEFINE F == FirstRetained'
             d == durable'
             e == cursor'
  <2>1. F \in Nat /\ F <= b
    BY <1>10
  <2>2. /\ d.prefix = c.prefix /\ d.cut = c.cut /\ d.seq = c.seq /\ d.proofs = c.proofs
        /\ e.prefix = c.prefix /\ e.cut = c.cut /\ e.seq = c.seq /\ e.proofs = c.proofs
    BY <1>10
  <2> HIDE DEF F, d, e
  <2>3. Guarded(F, c)
    BY <1>10, <2>1, GuardedBelow
  <2>4. Guarded(F, d) /\ Guarded(F, e)
    BY <2>2, <2>3, GuardedAlike
  <2> QED BY <2>4 DEF GuardedMemory, F, d, e
<1>11. CASE Initialized
  <2>1. /\ pc = "initCursorSync" /\ cursor' = cursor /\ durable' = cursor /\ DOMAIN segments' = {Index(cursor)}
    BY <1>1, <1>11 DEF Initialized, CursorSynced, NoMemory, cursor, durable, segments
  <2>2. cursor = FreshCursor(cursor.epoch) /\ Index(cursor) = 0
    BY <1>0, <2>1 DEF Cursors, OpenSegment
  <2>3. Guarded(0, cursor)
    BY <2>2, GuardedFresh
  <2>4. FirstRetained' = 0
    <3>1. FirstRetained' \in DOMAIN segments'
      BY <1>4, <2>1
    <3> QED BY <2>1, <2>2, <3>1
  <2> QED BY <1>1, <1>10, <2>1, <2>3, <2>4
<1>12. CASE Anchored
  <2>1. /\ pc = "anchorSync" /\ cursor' = files.cursor /\ durable' = files.cursor /\ segments' = segments
    BY <1>1, <1>12 DEF Anchored, CursorSynced, NoMemory, cursor, durable, segments
  <2>2. FirstRetained' = FirstRetained /\ FirstRetained \in Nat /\ \A b \in DOMAIN segments : FirstRetained <= b
    BY <2>1, RetainedFirst DEF Holding, FirstRetained
  <2>3. PICK b \in SureBases(files, disk) : Guarded(b, files.cursor)
    BY <1>0, <2>1 DEF Cursors, GuardedFiles, Covered
  <2>4. b \in DOMAIN segments /\ b \in Nat
    <3>1. Bases \subseteq DOMAIN segments
      BY <1>0, <2>1 DEF Named, Usable
    <3> QED BY <1>1, <3>1 DEF SureBases
  <2> QED BY <1>1, <1>10, <2>1, <2>2, <2>3, <2>4
<1>13. CASE Committed
  <2>1. /\ pc = "commitCursorSync" /\ cursor' = cursor /\ durable' = cursor /\ segments' = segments
    BY <1>1, <1>13 DEF Committed, CursorSynced, NoMemory, cursor, durable, segments
  <2>2. Opened /\ FirstRetained' = FirstRetained /\ FirstRetained \in Nat
    BY <2>1, RetainedFirst DEF Holding, CommitSteps, FirstRetained
  <2>3. Guarded(FirstRetained, cursor)
    BY <1>0, <2>2 DEF GuardedMemory
  <2> QED BY <1>1, <1>10, <2>1, <2>2, <2>3
<1>14. CASE Sealed
  <2>1. /\ pc = "sealCursorSync" /\ cursor' = [cursor EXCEPT !.segment = Index(durable)]
        /\ durable' = [durable EXCEPT !.segment = Index(durable)]
        /\ segments' = With(segments, Index(durable), SegmentOf(durable))
    BY <1>1, <1>14 DEF Sealed, CursorSynced, NoMemory, cursor, durable, segments
  <2>2. /\ Opened /\ FirstRetained \in Nat /\ FirstRetained \in DOMAIN segments /\ cursor = durable
    BY <1>0, <2>1, RetainedFirst DEF Holding, CommitSteps, OpenSegment
  <2>3. Guarded(FirstRetained, durable)
    BY <1>0, <2>2 DEF GuardedMemory
  <2>4. FirstRetained' <= FirstRetained /\ FirstRetained' \in Nat
    <3>1. FirstRetained \in DOMAIN segments'
      BY <2>1, <2>2 DEF With
    <3> QED BY <1>4, <3>1
  <2>5. /\ durable'.prefix = durable.prefix /\ durable'.cut = durable.cut /\ durable'.seq = durable.seq
        /\ durable'.proofs = durable.proofs /\ cursor' = durable'
    BY <1>1, <2>1, <2>2 DEF Cursor
  <2> QED BY <1>1, <1>10, <2>2, <2>3, <2>4, <2>5
<1>15. CASE RecoverReplay
  <2>1. CASE ~RecoverVerified
    BY <1>5, <1>15, <2>1 DEF RecoverReplay
  <2>2. CASE RecoverVerified
    <3> DEFINE read == [b \in Bases |-> SegmentOf(files.checkpoints[b])]
    <3>6. pc = "recoverReplay" /\ mem' = [mem EXCEPT !.durable = cursor, !.segments = read] /\ DOMAIN read = Bases
      BY <1>15, <2>2 DEF RecoverReplay
    <3> HIDE DEF read
    <3>1. /\ pc = "recoverReplay" /\ cursor' = cursor /\ durable' = cursor /\ DOMAIN segments' = Bases
      BY <1>1, <3>6 DEF NoMemory, cursor, durable, segments
    <3>2. cursor = files.cursor /\ files.cursor.epoch # 0
      BY <1>0, <3>1 DEF Starting, Recovering, Cursors
    <3>3. PICK b \in SureBases(files, disk) : Guarded(b, cursor)
      BY <1>0, <3>2 DEF GuardedFiles, Covered
    <3>4. b \in Bases /\ b \in Nat
      BY <1>1 DEF SureBases
    <3>5. FirstRetained' <= b /\ FirstRetained' \in Nat
      BY <1>4, <3>1, <3>4
    <3> QED BY <1>1, <1>10, <3>1, <3>3, <3>4, <3>5
  <2> QED BY <2>1, <2>2
<1>16. CASE ExpireSegment
  BY <1>16, ExpiryKeepsGuard DEF ProtectInv
<1>17. CASE \/ WriteCheckpoint \/ CreateSegment \/ ReplaceCursor \/ SyncJournalDir \/ Anchor \/ RecoverRemove
            \/ RecoverScanned \/ RecoverFsync \/ SyncAppended \/ ExpireCheckpoint \/ RetainDone \/ ConsumerDies
            \/ UNCHANGED vars
  BY <1>5, <1>17
     DEF WriteCheckpoint, CreateSegment, ReplaceCursor, SyncJournalDir, Anchor, RecoverRemove,
         RecoverScanned, RecoverFsync, SyncAppended, ExpireCheckpoint, RetainDone, ConsumerDies, vars
<1>18. CASE Published \/ Salvaged \/ OutputLost \/ Kill \/ ConsumerRebuilds \/ PowerLoss
  BY <1>5, <1>6, <1>18 DEF Published, Salvaged, OutputLost, Kill, ConsumerRebuilds, PowerLoss
<1> QED
  BY <1>7, <1>8, <1>9, <1>11, <1>12, <1>13, <1>14, <1>15, <1>16, <1>17, <1>18 DEF Next, Working, Producing, Faulting

\* Without a journal there is nothing to guard.
LEMMA ProtectInit ==
  ASSUME Init
  PROVE  ProtectInv
<1>1. /\ files.cursor.epoch = 0 /\ disk.cursor.epoch = 0 /\ DOMAIN segments = {}
  BY FreshParts, EmptySeq DEF Init, NoFiles, NoCursor, NoMemory, segments
<1> QED BY <1>1 DEF ProtectInv, GuardedFiles, GuardedMemory, Opened

\* What a reconnect verifies again is never expired: no message of the open minute, of
\* a minute the cursor has a proof of, and never the newest print, whatever crash comes
\* between an expiry and its fsync, if the kernel writes back what a killed process left.
THEOREM WindowIsProtected ==
  ASSUME WriteBack = TRUE
  PROVE  Spec => []ProtectedWindowIsRetained
<1>1. Init => TypeInv /\ PublishInv /\ AcceptInv
  BY TypeInit, PublishInit, AcceptInit
<1>2. Init => ProtectInv
  BY ProtectInit
<1>3. TypeInv /\ PublishInv /\ [Next]_vars => PublishInv'
  BY PublishStep
<1>4. TypeInv /\ PublishInv /\ RetentionInv /\ HistoryInv /\ AcceptInv /\ [Next]_vars => AcceptInv'
  BY AcceptStep
<1>5. TypeInv /\ TypeInv' /\ PublishInv /\ RetentionInv /\ HistoryInv /\ AcceptInv /\ ProtectInv /\ [Next]_vars
        => ProtectInv'
  BY GuardedFilesStep, GuardedMemoryStep DEF ProtectInv
<1>6. TypeInv /\ ProtectInv => ProtectedWindowIsRetained
  <2> SUFFICES ASSUME TypeInv, ProtectInv, Opened
               PROVE  /\ \A i \in 1..FirstRetained :
                           LET minute == MinuteOf(durable.prefix[i])
                           IN  minute < durable.cut /\ minute \notin ToSet(durable.proofs)
                      /\ Mode = "ticks" /\ durable.seq # 0 =>
                           \E i \in (FirstRetained + 1)..Index(durable) : durable.prefix[i].id = durable.seq
    BY DEF ProtectedWindowIsRetained
  <2>1. Guarded(FirstRetained, durable)
    BY DEF ProtectInv, GuardedMemory
  <2>2. durable.proofs \in Seq(Nat) /\ \A k \in 1..Len(durable.proofs) : durable.proofs[k] \in Nat
    BY RetentionParts, CursorParts, ElementOfSeq
  <2>3. ASSUME NEW i \in 1..FirstRetained, MinuteOf(durable.prefix[i]) \in ToSet(durable.proofs) PROVE FALSE
    <3>1. PICK k \in 1..Len(durable.proofs) : MinuteOf(durable.prefix[i]) = durable.proofs[k]
      <4>1. DOMAIN durable.proofs = 1..Len(durable.proofs)
        BY <2>2, LenProperties
      <4> QED BY <2>3, <4>1 DEF ToSet
    <3>2. MinuteOf(durable.prefix[i]) < durable.proofs[k]
      BY <2>1 DEF Guarded
    <3> QED BY <2>2, <3>1, <3>2
  <2> QED BY <2>1, <2>3 DEF Guarded
<1> QED BY <1>1, <1>2, <1>3, <1>4, <1>5, <1>6, TypeInvariance, HistoryInvariance, RetentionInvariance, PTL DEF Spec
-----------------------------------------------------------------------------
(* The process, its files and its crashes are the stream of DurableStream. *)

\* No power loss can take a commit back and bring an expired segment back at once.
OneAtATime == disk.cursor.prefix = files.cursor.prefix \/ DOMAIN disk.segments = Bases

\* Expiry leaves behind no consumer that the process still writes to: what it
\* retains starts no later than the consumer's index, and so does every segment
\* that may come to be the oldest.
Followed ==
  /\ pc \in Reporting /\ ~deaf => FirstRetained <= Len(ledger)
  /\ pc \in Reporting \ {"publish"} /\ ~deaf =>
       \A b \in DOMAIN segments : b <= Len(ledger) \/ b = Index(durable)
  /\ pc = "expired" => \A b \in Bases : Len(ledger) < b

StreamInv == OneAtATime /\ Followed

\* Who ends in a salvage.
LEMMA OneAtATimeStep ==
  ASSUME TypeInv, OneAtATime, PublishInv', AcceptInv', [Next]_vars
  PROVE  OneAtATime'
<1>1. CASE pc' # "salvage"
  <2>1. CASE pc' \notin CursorUnsynced
    BY <2>1 DEF PublishInv, Safe, OneAtATime
  <2>2. CASE pc' \in {"initCursorSync", "commitCursorSync", "sealCursorSync", "anchorSync"}
    BY <2>2 DEF AcceptInv, Synced, Same, Gathering, Reporting, Sealing, OneAtATime, Bases
  <2> QED BY <1>1, <2>1, <2>2 DEF CursorUnsynced
<1>2. CASE pc' = "salvage"
  <2>1. files' = files /\ disk' = disk
    BY <1>2 DEF Next, Working, Producing, Faulting, vars, Exit, Step, After, CursorSynced,
         StartFresh, WriteCheckpoint, CreateSegment, ReplaceCursor,
         SyncJournalDir, Initialized, Anchored, Resume, RecoverRemove, RecoverScanned, RecoverReplay,
         RecoverFsync, Replay, Flush, AppendLine, SyncAppended, Committed, Sealed,
         ExpireSegment, ExpireCheckpoint, RetainDone, PublishLine, Published, Salvaged, OutputLost, ConsumerRebuilds,
         Anchor, Stage, VenueError, IOFailure, Kill, PowerLoss, ConsumerDies
  <2> QED BY <2>1 DEF OneAtATime, Bases
<1> QED BY <1>1, <1>2

\* Expiry follows the consumer.
LEMMA FollowedStep ==
  ASSUME TypeInv, TypeInv', PublishInv, HistoryInv, AcceptInv, ProtectInv, Followed, [Next]_vars
  PROVE  Followed'
<1> USE DEF Reporting, Sealing
<1>0. /\ Starting /\ Running /\ Reading /\ OpenSegment /\ Named
  BY DEF PublishInv, TypeInv, AcceptInv
<1>1. /\ DOMAIN mem = DOMAIN NoMemory /\ Index(durable) \in Nat /\ durable.segment \in Nat
      /\ Bases \in SUBSET Nat /\ DOMAIN segments \in SUBSET Nat /\ Len(ledger) \in Nat
      /\ durable.prefix \in Seq(Message)
  BY AcceptParts, RetentionParts, LenProperties DEF TypeInv, TypeOK
\* The process neither writes out nor waits for its consumer.
<1>2. ASSUME pc' \notin Reporting, pc' # "expired" PROVE Followed'
  BY <1>2 DEF Followed
\* It goes on from one step of a report to the next.
<1>3. ASSUME pc \in Reporting, pc' \in Reporting, pc = "publish" => pc' = "publish",
             ledger' = ledger, deaf' = deaf \/ deaf' = TRUE,
             durable'.prefix = durable.prefix, segments' = segments
      PROVE  Followed'
  <2>1. FirstRetained' = FirstRetained /\ Index(durable)' = Index(durable)
    BY <1>3 DEF FirstRetained, Index
  <2>2. pc' # "expired"
    BY <1>3
  <2> QED BY <1>3, <2>1, <2>2 DEF Followed
<1>4. CASE Replay
  <2>1. /\ pc = "replay" /\ pc' = "publish" /\ ledger' = ledger /\ segments' = segments
    BY <1>1, <1>4 DEF Replay, environment, NoMemory, segments
  <2>2. FirstRetained' = FirstRetained
    BY <2>1 DEF FirstRetained
  <2> QED BY <1>0, <2>1, <2>2 DEF Followed, Reading
<1>5. CASE Committed
  <2>1. /\ pc = "commitCursorSync" /\ pc' \in {"sealCheckpoint", "retain"}
        /\ ledger' = ledger /\ segments' = segments /\ deaf' = deaf
    BY <1>1, <1>5 DEF Committed, CursorSynced, environment, NoMemory, segments
  <2>2. /\ FirstRetained \in DOMAIN segments /\ FirstRetained' = FirstRetained
        /\ (\A b \in DOMAIN segments : b <= durable.segment) /\ durable.segment <= Index(durable)
    BY <1>0, <2>1, RetainedFirst DEF Holding, CommitSteps, FirstRetained, OpenSegment
  <2>3. ~deaf => Len(ledger) = Index(durable)
    BY <1>0, <2>1 DEF Running, Batching, Index
  <2>4. ~deaf => \A b \in DOMAIN segments : b <= Len(ledger)
    BY <1>1, <2>2, <2>3
  <2>5. pc' # "expired"
    BY <2>1
  <2> QED BY <2>1, <2>2, <2>4, <2>5 DEF Followed
<1>6. CASE Sealed
  <2>1. /\ pc = "sealCursorSync" /\ pc' = "retain" /\ ledger' = ledger /\ deaf' = deaf
        /\ segments' = With(segments, Index(durable), SegmentOf(durable)) /\ durable'.prefix = durable.prefix
    <3>1. durable \in Cursor
      BY <1>1, AcceptParts
    <3> QED BY <1>1, <1>6, <3>1 DEF Sealed, CursorSynced, environment, NoMemory, segments, durable, Cursor
  <2>2. FirstRetained \in DOMAIN segments
    BY <2>1, RetainedFirst DEF Holding, CommitSteps
  <2>3. DOMAIN segments' = DOMAIN segments \cup {Index(durable)} /\ Index(durable)' = Index(durable)
    BY <2>1 DEF With, Index
  <2>4. FirstRetained' <= FirstRetained /\ FirstRetained' \in Nat /\ FirstRetained \in Nat
    <3> DEFINE D == DOMAIN segments'
               F == FirstRetained
    <3>1. D \in SUBSET Nat /\ F \in D /\ FirstRetained' = Min(D) /\ F \in Nat
      BY <1>1, <2>2, <2>3 DEF FirstRetained
    <3> HIDE DEF D, F
    <3>2. Min(D) \in D /\ Min(D) <= F
      BY <3>1, MinOfNats
    <3> QED BY <3>1, <3>2 DEF F
  <2>5. ~deaf => FirstRetained' <= Len(ledger)
    BY <1>1, <2>1, <2>4 DEF Followed
  <2>6. pc' # "expired"
    BY <2>1
  <2> QED BY <2>1, <2>3, <2>5, <2>6 DEF Followed
<1>7. CASE ExpireSegment
  <2> DEFINE S == DOMAIN segments \ {FirstRetained}
             N == Min(S)
  <2>1. /\ pc = "retain" /\ pc' = "expireSegmentSync" /\ ledger' = ledger /\ deaf' = deaf
        /\ segments' = Without(segments, FirstRetained) /\ durable' = durable /\ Expirable
    BY <1>1, <1>7 DEF ExpireSegment, environment, NoMemory, segments, durable
  <2>2. Opened
    BY <2>1, RetainedFirst DEF Holding, CommitSteps
  <2>3. N \in DOMAIN segments /\ N # Index(durable)
    BY <2>1, <2>2, ExpiredIsGuarded
  <2>4. DOMAIN segments' = S /\ Index(durable)' = Index(durable)
    BY <2>1 DEF Without, Index
  <2>5. FirstRetained' = N
    BY <2>4 DEF FirstRetained
  <2> HIDE DEF N
  <2>6. ~deaf => N <= Len(ledger)
    BY <2>1, <2>3 DEF Followed
  <2>7. pc' # "expired"
    BY <2>1
  <2> QED BY <2>1, <2>4, <2>5, <2>6, <2>7 DEF Followed
<1>8. CASE RecoverFsync
  <2>1. /\ pc = "recoverFsync" /\ files' = files /\ ledger' = ledger /\ pc' \notin Reporting
        /\ pc' = "expired" => Len(ledger) < FirstRetained
    BY <1>1, <1>8 DEF RecoverFsync, environment
  <2>2. /\ Bases' = Bases /\ Bases \subseteq DOMAIN segments /\ FirstRetained \in Nat
        /\ \A b \in DOMAIN segments : FirstRetained <= b
    BY <1>0, <2>1, RetainedFirst DEF Holding, Named, Usable, Reopening, Bases
  <2>3. pc' = "expired" => \A b \in Bases : Len(ledger) < b
    BY <1>1, <2>1, <2>2
  <2> QED BY <2>1, <2>2, <2>3 DEF Followed
<1>9. CASE PublishLine
  <2>1. /\ pc = "publish" /\ pc' = "publish" /\ deaf' = deaf /\ segments' = segments
        /\ ledger' = ledger \/ ledger' = Append(ledger, Head(mem.outbox))
    BY <1>1, <1>9 DEF PublishLine, NoMemory, segments
  <2>2. Len(ledger) <= Len(ledger')
    <3>1. ledger' \in Seq(Message) /\ ledger \in Seq(Message)
      BY DEF TypeInv, TypeOK
    <3>2. CASE ledger' = Append(ledger, Head(mem.outbox))
      <4> QED BY <1>1, <3>1, <3>2, AppendProperties
    <3> QED BY <1>1, <2>1, <3>2
  <2>3. FirstRetained' = FirstRetained /\ FirstRetained \in Nat /\ Len(ledger') \in Nat
    BY <2>1, RetainedFirst, LenProperties DEF Holding, FirstRetained, TypeInv, TypeOK
  <2> QED BY <1>1, <2>1, <2>2, <2>3 DEF Followed
<1>10. CASE WriteCheckpoint \/ CreateSegment \/ ReplaceCursor \/ SyncJournalDir \/ ExpireCheckpoint \/ RetainDone
  <2>1. ledger' = ledger /\ deaf' = deaf /\ mem' = mem /\ durable' = durable /\ segments' = segments
    BY <1>10 DEF WriteCheckpoint, CreateSegment, ReplaceCursor, SyncJournalDir, ExpireCheckpoint, RetainDone,
                 environment, durable, segments
  <2>2. /\ pc' # "expired" /\ pc # "publish"
        /\ pc' \in Reporting => pc \in Reporting
    BY <1>10 DEF WriteCheckpoint, CreateSegment, ReplaceCursor, SyncJournalDir, ExpireCheckpoint, RetainDone,
                 Step, After
  <2> QED BY <1>2, <1>3, <2>1, <2>2
<1>11. CASE ConsumerDies \/ UNCHANGED vars
  <2>1. /\ pc' = pc /\ files' = files /\ ledger' = ledger /\ mem' = mem /\ (deaf' = deaf \/ deaf' = TRUE)
        /\ durable' = durable /\ segments' = segments /\ Bases' = Bases
    BY <1>11 DEF ConsumerDies, vars, durable, segments, Bases
  <2>2. CASE pc = "expired"
    BY <2>1, <2>2 DEF Followed
  <2> QED BY <1>2, <1>3, <2>1, <2>2
<1>12. CASE \/ StartFresh \/ Initialized \/ Anchored \/ Resume \/ RecoverRemove \/ RecoverScanned \/ RecoverReplay
            \/ Flush \/ AppendLine \/ SyncAppended \/ Salvaged \/ OutputLost \/ ConsumerRebuilds
            \/ Anchor \/ VenueError \/ IOFailure \/ Kill \/ PowerLoss
  <2>1. pc' \notin Reporting /\ pc' # "expired"
    BY <1>12 DEF StartFresh, Initialized, Anchored, Resume, RecoverRemove, RecoverScanned, RecoverReplay,
            Flush, AppendLine, SyncAppended, Salvaged, OutputLost, ConsumerRebuilds,
            Anchor, VenueError, IOFailure, Kill, PowerLoss, CursorSynced, Step, After, Exit
  <2> QED BY <1>2, <2>1
<1>13. CASE Published \/ \E m \in Candidates : Stage(m)
  <2>1. pc' \notin Reporting /\ pc' # "expired"
    BY <1>13 DEF Published, Stage, Exit
  <2> QED BY <1>2, <2>1
<1> QED
  BY <1>4, <1>5, <1>6, <1>7, <1>8, <1>9, <1>10, <1>11, <1>12, <1>13 DEF Next, Working, Producing, Faulting

\* Where the retained part begins in files that hold a stream.
First(f) == IF f.cursor.epoch = 0 THEN 0 ELSE Min(DOMAIN f.segments)

\* What a file system call makes safe, and what a crash leaves, is a commit, an
\* expiry, or nothing to the stream.
LEMMA CommitsOrExpires ==
  ASSUME TypeInv, TypeInv', PublishInv, AcceptInv, OneAtATime, ledger' = ledger,
         disk'.cursor \in {files.cursor, disk.cursor},
         SureBases(files, disk) \subseteq DOMAIN disk'.segments,
         DOMAIN disk'.segments \subseteq AnyBases(files, disk)
  PROVE  [Stream!Next]_(Stream!stream)
<1> DEFINE c == disk.cursor
           e == disk'.cursor
           D == DOMAIN disk.segments
           E == DOMAIN disk'.segments
           p == disk.cursor.prefix
           q == disk'.cursor.prefix
<1>0. /\ Safe /\ Acceptable /\ Cursors
  BY DEF PublishInv, AcceptInv
<1>1. /\ FilesOK(files) /\ FilesOK(disk) /\ files.cursor \in Cursor /\ c \in Cursor /\ Bases = DOMAIN files.segments
      /\ p \in Seq(Message) /\ q \in Seq(Message) /\ Len(p) \in Nat /\ Len(q) \in Nat
      /\ E \in SUBSET Nat /\ D \in SUBSET Nat /\ Bases \in SUBSET Nat
  <2>1. p \in Seq(Message) /\ q \in Seq(Message)
    BY Parts DEF TypeInv
  <2>2. E \in SUBSET Nat /\ D \in SUBSET Nat
    BY DEF TypeInv, TypeOK, FilesOK, Directory
  <2> QED BY <2>1, <2>2, AcceptParts, LenProperties
<1>2. /\ files.cursor.epoch = 0 => c.epoch = 0
      /\ c.epoch = 0 /\ files.cursor.epoch # 0 => files.cursor.prefix = <<>> /\ files.cursor.segment = 0
      /\ c.epoch = 0 => p = <<>>
      /\ files.cursor.epoch = 0 => files.cursor.prefix = <<>>
  <2>1. files.cursor.epoch = 0 => c.epoch = 0
    BY <1>0 DEF Safe, Cursors, CursorUnsynced, Initializing
  <2>2. ASSUME c.epoch = 0, files.cursor.epoch # 0 PROVE pc = "initCursorSync"
    BY <1>0, <2>2 DEF Safe, Cursors, CursorUnsynced, Initializing
  <2>3. pc = "initCursorSync" => files.cursor.prefix = <<>> /\ files.cursor.segment = 0
    BY <1>0 DEF Cursors, FreshCursor, Initializing
  <2> QED BY <1>0, <2>1, <2>2, <2>3 DEF Safe
\* The three effects.
<1>3. ASSUME q = p, First(disk)' = First(disk) PROVE [Stream!Next]_(Stream!stream)
  BY <1>3 DEF First, Stream!stream
<1>4. ASSUME p # q, Begins(p, q), First(disk)' = First(disk) PROVE [Stream!Next]_(Stream!stream)
  <2>1. Len(q) > Len(p)
    BY <1>1, <1>4, SeqEqual DEF Begins
  <2>2. SubSeq(q, 1, Len(p)) = p
    BY <1>1, <1>4, BeginsIsPrefix, SubSeqFull DEF IsPrefix
  <2> QED BY <1>4, <2>1, <2>2 DEF First, Stream!Next, Stream!Commit
<1>5. ASSUME q = p, First(disk)' > First(disk), First(disk)' <= Len(p) PROVE [Stream!Next]_(Stream!stream)
  BY <1>5 DEF First, Stream!Next, Stream!Expire
\* Where the retained part begins before and after.
<1>6. First(disk) = IF c.epoch = 0 THEN 0 ELSE Min(D)
  BY DEF First
<1>7. First(disk)' = IF e.epoch = 0 THEN 0 ELSE Min(E)
  BY DEF First
<1>8. e.epoch = 0 => c.epoch = 0 /\ q = <<>>
  BY <1>2
<1>9. ASSUME e.epoch # 0 PROVE /\ e \in Cursor /\ Accepted(files, disk, e) /\ e.segment \in E /\ e.segment \in Nat
                               /\ e.segment <= Len(q) /\ Min(E) \in Nat /\ Min(E) <= e.segment
  <2>1. e \in Cursor /\ Accepted(files, disk, e)
    BY <1>0, <1>1, <1>9 DEF Acceptable
  <2>2. e.segment \in E /\ e.segment \in Nat /\ e.segment <= Len(q)
    BY <1>1, <2>1 DEF Accepted, Index
  <2> HIDE DEF E
  <2>3. Min(E) \in E /\ Min(E) <= e.segment
    BY <1>1, <2>2, MinOfNats
  <2> QED BY <1>1, <2>1, <2>2, <2>3
<1>10. ASSUME c.epoch # 0 PROVE /\ Accepted(files, disk, c) /\ c.segment \in D /\ Min(D) \in Nat
                                /\ \A b \in Bases \ D : Min(D) <= b
                                /\ \A b \in D : Min(D) <= b
  <2>1. Accepted(files, disk, c)
    BY <1>0, <1>10 DEF Acceptable
  <2>2. c.segment \in D /\ \A b \in Bases \ D : b > c.segment
    BY <1>1, <2>1 DEF Accepted, SureBases
  <2> HIDE DEF D
  <2>3. Min(D) \in D /\ \A b \in D : Min(D) <= b
    BY <1>1, <2>2, MinOfNats
  <2>4. Min(D) \in Nat /\ c.segment \in Nat
    BY <1>1, <2>2, <2>3
  <2>5. \A b \in Bases \ D : Min(D) <= b
    BY <1>1, <2>2, <2>3, <2>4
  <2> QED BY <2>1, <2>2, <2>3, <2>4, <2>5
\* There is no stream yet, or it is being created.
<1>11. CASE c.epoch = 0
  <2>1. q = p
    BY <1>2, <1>8, <1>11
  <2>2. First(disk)' = 0
    <3>1. CASE e.epoch # 0
      <4>1. e = files.cursor
        BY <1>11, <3>1
      <4>2. e.segment = 0
        BY <1>2, <1>11, <3>1, <4>1
      <4>3. Min(E) \in Nat /\ Min(E) <= 0
        BY <1>9, <3>1, <4>2
      <4>4. Min(E) = 0
        BY <4>3
      <4> QED BY <1>7, <3>1, <4>4
    <3> QED BY <1>7, <3>1
  <2> QED BY <1>3, <1>6, <1>11, <2>1, <2>2
\* It goes on.
<1>12. CASE c.epoch # 0
  <2>1. e.epoch # 0
    BY <1>8, <1>12
  <2>2. First(disk) = Min(D) /\ First(disk)' = Min(E)
    BY <1>6, <1>7, <1>12, <2>1
  <2>3. CASE p # q
    <3>1. e = files.cursor /\ Begins(p, q)
      BY <1>0, <2>3 DEF Safe
    <3>2. D = Bases
      BY <2>3, <3>1 DEF OneAtATime
    <3>3. E = D
      BY <1>1, <3>2 DEF SureBases, AnyBases
    <3>4. First(disk)' = First(disk)
      BY <2>2, <3>3
    <3> QED BY <1>4, <2>3, <3>1, <3>4
  <2>4. CASE p = q
    <3>1. Min(D) <= Min(E)
      <4>1. E \subseteq Bases \cup D
        BY <1>1 DEF AnyBases
      <4>2. Min(E) \in E
        <5> HIDE DEF E
        <5> QED BY <1>1, <1>9, <2>1, MinOfNats
      <4> QED BY <1>10, <1>12, <4>1, <4>2
    <3>2. Min(D) \in Nat /\ Min(E) \in Nat /\ Min(E) <= Len(q)
      BY <1>1, <1>9, <1>10, <1>12, <2>1
    <3>3. CASE Min(D) = Min(E)
      BY <1>3, <2>2, <2>4, <3>3
    <3>4. CASE Min(D) < Min(E)
      <4>1. First(disk)' > First(disk) /\ First(disk)' <= Len(p)
        BY <2>2, <2>4, <3>2, <3>4
      <4> QED BY <1>5, <2>4, <4>1
    <3> QED BY <3>1, <3>2, <3>3, <3>4
  <2> QED BY <2>3, <2>4
<1> QED BY <1>11, <1>12

\* A line that is written out is the next of what is retained.
LEMMA PublishDelivers ==
  ASSUME TypeInv, TypeInv', PublishInv, AcceptInv, Followed, PublishLine
  PROVE  [Stream!Next]_(Stream!stream)
<1>0. /\ Running /\ Cursors /\ Synced /\ Named
  BY DEF PublishInv, AcceptInv
<1>1. /\ pc = "publish" /\ mem.outbox # <<>> /\ disk' = disk /\ deaf' = deaf
      /\ ledger' = IF deaf THEN ledger ELSE Append(ledger, Head(mem.outbox))
  BY DEF PublishLine
<1>2. CASE deaf
  BY <1>1, <1>2 DEF Stream!stream
<1>3. CASE ~deaf
  <2> DEFINE p == disk.cursor.prefix
             n == Len(ledger)
             o == mem.outbox
             D == DOMAIN disk.segments
  <2>1. /\ p \in Seq(Message) /\ ledger \in Seq(Message) /\ o \in Seq(Message)
        /\ Len(p) \in Nat /\ n \in Nat /\ Len(o) \in Nat
    BY Parts, LenProperties DEF TypeInv
  <2>2. Splits(p, ledger, o) /\ disk.cursor = durable /\ durable.epoch # 0
    BY <1>0, <1>1, <1>3 DEF Running, Cursors, Reporting, Sealing, Initializing
  <2>3. Len(o) # 0
    BY <1>1, <2>1, EmptySeq
  <2>4. n < Len(p) /\ p[n + 1] = Head(o)
    <3>1. 1 \in 1..Len(o)
      BY <2>1, <2>3
    <3>2. p[n + 1] = o[1] /\ Len(p) = n + Len(o)
      BY <2>2, <3>1 DEF Splits
    <3>3. Head(o) = o[1]
      BY <1>1, <2>1, HeadTailProperties
    <3> QED BY <2>1, <2>3, <3>2, <3>3
  <2>5. First(disk) <= n
    <3>1. /\ FirstRetained \in Nat /\ FirstRetained \in Bases /\ FirstRetained <= n
      BY <1>1, <1>3, RetainedFirst DEF Holding, Followed, Reporting
    <3>2. D = Bases /\ D \in SUBSET Nat
      BY <1>0, <1>1, AcceptParts DEF Synced, Same, Gathering, Reporting
    <3> DEFINE F == FirstRetained
    <3> HIDE DEF D, F
    <3>3. F \in D
      BY <3>1, <3>2 DEF F
    <3>4. Min(D) \in D /\ Min(D) <= F
      BY <3>2, <3>3, MinOfNats
    <3>5. F \in Nat /\ F <= n
      BY <3>1 DEF F
    <3>6. Min(D) <= n
      <4>1. Min(D) \in Nat
        BY <3>2, <3>4
      <4>2. n \in Nat
        BY <2>1
      <4> HIDE DEF n
      <4> QED BY <3>4, <3>5, <4>1, <4>2
    <3> QED BY <2>2, <3>6 DEF First, D
  <2> QED BY <1>1, <1>3, <2>4, <2>5 DEF First, Stream!Next, Stream!Deliver
<1> QED BY <1>2, <1>3

\* Only a consumer that expiry has left behind is rebuilt.
LEMMA ExpiredRebuilds ==
  ASSUME TypeInv, PublishInv, AcceptInv, Followed, ConsumerRebuilds
  PROVE  [Stream!Next]_(Stream!stream)
<1>0. /\ Safe /\ Cursors /\ Synced /\ OpenSegment
  BY DEF PublishInv, AcceptInv, TypeInv
<1>1. /\ pc = "expired" /\ files' = files /\ disk' = disk
      /\ \E n \in Min(Bases)..Index(files.cursor) : ledger' = SubSeq(files.cursor.prefix, 1, n)
  BY DEF ConsumerRebuilds
<1>2. files.cursor = disk.cursor /\ disk.cursor.epoch # 0
  BY <1>0, <1>1 DEF Safe, CursorUnsynced, Cursors, Initializing
<1>3. DOMAIN disk.segments = Bases /\ Bases \in SUBSET Nat /\ Bases # {}
  BY <1>0, <1>1, AcceptParts DEF Synced, Same, OpenSegment
<1>4. First(disk) = Min(Bases)
  BY <1>2, <1>3 DEF First
<1>5. Len(ledger) < First(disk)
  <2>1. Min(Bases) \in Bases
    BY <1>3, MinOfNats
  <2> QED BY <1>1, <1>4, <2>1 DEF Followed
<1> QED BY <1>1, <1>2, <1>4, <1>5 DEF First, Index, Stream!Next, Stream!Rebuild

\* Every step is one of the stream, or none.
LEMMA StreamStep ==
  ASSUME WriteBack = TRUE, TypeInv, TypeInv', PublishInv, AcceptInv, StreamInv, [Next]_vars
  PROVE  [Stream!Next]_(Stream!stream)
<1>0. OneAtATime /\ Followed
  BY DEF StreamInv
<1>1. /\ DOMAIN files = {"cursor", "checkpoints", "segments"} /\ DOMAIN disk = {"cursor", "checkpoints", "segments"}
      /\ Bases = DOMAIN files.segments
  BY AcceptParts
<1>2. ASSUME disk' = disk, ledger' = ledger PROVE [Stream!Next]_(Stream!stream)
  BY <1>2 DEF Stream!stream
<1>3. CASE Exit /\ ledger' = ledger
  <2>1. disk' = files
    BY <1>3 DEF Exit
  <2> QED BY <1>0, <1>1, <1>3, <2>1, CommitsOrExpires DEF SureBases, AnyBases
<1>4. CASE Salvaged \/ OutputLost \/ Kill \/ Published
  BY <1>2, <1>3, <1>4 DEF Salvaged, OutputLost, Kill, Published, environment
<1>5. CASE PublishLine
  BY <1>0, <1>5, PublishDelivers
<1>6. CASE ConsumerRebuilds
  BY <1>0, <1>6, ExpiredRebuilds
<1>7. CASE SyncJournalDir
  <2>1. ledger' = ledger /\ disk' = SyncedJournal
    BY <1>7 DEF SyncJournalDir, environment
  <2>2. disk'.cursor = disk.cursor /\ DOMAIN disk'.segments = Bases
    BY <1>1, <2>1 DEF SyncedJournal
  <2> QED BY <1>0, <1>1, <2>1, <2>2, CommitsOrExpires DEF SureBases, AnyBases
<1>8. CASE SyncAppended \/ RecoverFsync
  <2>1. ledger' = ledger /\ disk'.cursor = disk.cursor /\ DOMAIN disk'.segments = DOMAIN disk.segments
    BY <1>1, <1>8 DEF SyncAppended, RecoverFsync, environment
  <2> QED BY <1>0, <2>1, CommitsOrExpires DEF SureBases, AnyBases
<1>9. CASE Initialized \/ Anchored \/ Committed \/ Sealed
  <2>1. ledger' = ledger /\ disk'.cursor = files.cursor /\ disk'.segments = disk.segments
    BY <1>1, <1>9 DEF Initialized, Anchored, Committed, Sealed, CursorSynced, environment
  <2> QED BY <1>0, <2>1, CommitsOrExpires DEF SureBases, AnyBases
<1>10. CASE PowerLoss
  <2>1. PICK c \in {files.cursor, disk.cursor},
             keptCheckpoints \in SUBSET Unsynced(files.checkpoints, disk.checkpoints),
             keptSegments \in SUBSET Unsynced(files.segments, disk.segments), n \in TornLengths :
          files' = [cursor |-> c,
                    checkpoints |-> Survivors(files.checkpoints, disk.checkpoints, keptCheckpoints),
                    segments |-> SurvivingSegments(keptSegments, n)]
    BY <1>10 DEF PowerLoss
  <2>2. disk' = files' /\ files'.cursor = c /\ files'.segments = SurvivingSegments(keptSegments, n) /\ ledger' = ledger
    BY <1>10, <2>1 DEF PowerLoss
  <2>3. DOMAIN SurvivingSegments(keptSegments, n) = (keptSegments \cap DOMAIN files.segments) \cup (DOMAIN disk.segments \ keptSegments)
    BY DEF SurvivingSegments, Survivors
  <2>4. /\ SureBases(files, disk) \subseteq DOMAIN disk'.segments
        /\ DOMAIN disk'.segments \subseteq AnyBases(files, disk)
    BY <2>2, <2>3 DEF SureBases, AnyBases
  <2> QED BY <1>0, <2>2, <2>4, CommitsOrExpires
<1>11. CASE \/ StartFresh \/ WriteCheckpoint \/ CreateSegment \/ ReplaceCursor \/ Resume \/ RecoverRemove \/ RecoverScanned
            \/ RecoverReplay \/ Replay \/ Flush \/ AppendLine \/ ExpireSegment \/ ExpireCheckpoint \/ RetainDone
            \/ Anchor \/ (\E m \in Candidates : Stage(m)) \/ VenueError \/ IOFailure \/ ConsumerDies \/ UNCHANGED vars
  <2>1. disk' = disk /\ ledger' = ledger
    BY <1>11 DEF StartFresh, WriteCheckpoint, CreateSegment, ReplaceCursor, Resume, RecoverRemove, RecoverScanned,
                 RecoverReplay, Replay, Flush, AppendLine, ExpireSegment, ExpireCheckpoint, RetainDone,
                 Anchor, Stage, VenueError, IOFailure, ConsumerDies, vars, environment
  <2> QED BY <1>2, <2>1
<1> QED
  BY <1>4, <1>5, <1>6, <1>7, <1>8, <1>9, <1>10, <1>11 DEF Next, Working, Producing, Faulting

\* The process with its files and its crashes is the stream: what the consumer is
\* promised by DurableStream holds of every run, if the kernel writes back what a
\* killed process left dirty.
THEOREM StreamIsImplemented ==
  ASSUME WriteBack = TRUE
  PROVE  Spec => ImplementsStream
<1>1. Init => TypeInv /\ PublishInv /\ AcceptInv
  BY TypeInit, PublishInit, AcceptInit
<1>2. Init => ProtectInv
  BY ProtectInit
<1>3. Init => StreamInv /\ Stream!Init
  <2> SUFFICES ASSUME Init PROVE StreamInv /\ Stream!Init
    OBVIOUS
  <2>1. /\ pc = "down" /\ files = disk /\ disk.cursor.epoch = 0 /\ disk.cursor.prefix = <<>> /\ ledger = <<>>
    BY FreshParts DEF Init, NoFiles, NoCursor
  <2>2. StreamInv
    BY <2>1 DEF StreamInv, OneAtATime, Followed, Reporting, Sealing
  <2> QED BY <2>1, <2>2 DEF Stream!Init
<1>4. TypeInv /\ PublishInv /\ [Next]_vars => PublishInv'
  BY PublishStep
<1>5. TypeInv /\ PublishInv /\ RetentionInv /\ HistoryInv /\ AcceptInv /\ [Next]_vars => AcceptInv'
  BY AcceptStep
<1>6. TypeInv /\ TypeInv' /\ PublishInv /\ RetentionInv /\ HistoryInv /\ AcceptInv /\ ProtectInv /\ [Next]_vars
        => ProtectInv'
  BY GuardedFilesStep, GuardedMemoryStep DEF ProtectInv
<1>7. TypeInv /\ TypeInv' /\ PublishInv /\ PublishInv' /\ HistoryInv /\ AcceptInv /\ AcceptInv' /\ ProtectInv
        /\ StreamInv /\ [Next]_vars => StreamInv'
  BY OneAtATimeStep, FollowedStep DEF StreamInv
<1>8. TypeInv /\ TypeInv' /\ PublishInv /\ AcceptInv /\ StreamInv /\ [Next]_vars => [Stream!Next]_(Stream!stream)
  BY StreamStep
<1> QED
  BY <1>1, <1>2, <1>3, <1>4, <1>5, <1>6, <1>7, <1>8, TypeInvariance, HistoryInvariance, RetentionInvariance, PTL
     DEF Spec, ImplementsStream, Stream!Spec
=============================================================================
