-------------------------- MODULE JournalProperties --------------------------
(***************************************************************************)
(* What the journal promises.                                              *)
(***************************************************************************)
EXTENDS Journal, SequencesExt

PCs ==
  {"down", "refused", "expired", "initCheckpoint", "initCheckpointSync",
   "initSegment", "initSegmentSync", "initCursor", "initCursorSync",
   "recover", "recoverDirty", "recoverSync", "recoverReplay", "recoverFsync",
   "replay", "idle", "anchorSync", "publish", "salvage"} \cup CommitSteps

Directory(f, S) == DOMAIN f \subseteq Nat /\ \A b \in DOMAIN f : f[b] \in S

FilesOK(f) ==
  /\ DOMAIN f = {"cursor", "checkpoints", "segments"}
  /\ f.cursor \in Cursor
  /\ Directory(f.checkpoints, Checkpoint)
  /\ Directory(f.segments, Seq(Message))

MemoryOK(m) ==
  /\ DOMAIN m = DOMAIN NoMemory
  /\ m.cursor \in Cursor /\ m.durable \in Cursor
  /\ m.staged \in Seq(Message) /\ Len(m.staged) <= MaxBatch
  /\ m.written \in Nat /\ m.unusable \in BOOLEAN /\ m.dying \in BOOLEAN
  /\ Directory(m.segments, Segment)
  /\ m.outbox \in Seq(Message)

\* The type of every variable: the proof window of a cursor is bounded, a batch
\* is, and what is read back from the journal is a sequence of messages.
TypeOK ==
  /\ FilesOK(files) /\ FilesOK(disk) /\ MemoryOK(mem)
  /\ pc \in PCs
  /\ ledger \in Seq(Message) /\ deaf \in BOOLEAN
  /\ epoch \in 0..MaxStarts /\ faults \in 0..MaxFaults
-----------------------------------------------------------------------------
\* initialize() or recover() has completed.
Opened == DOMAIN segments # {}

MinuteOf(m) ==
  CASE m.type = "tick" -> m.ts - (m.ts % Minute)
    [] m.type = "time" -> m.ts - Minute
    [] m.type = "bar"  -> m.ts

\* Persist before publish: whatever the consumer holds is the beginning of
\* the committed stream, also of the one a power loss at this instant leaves
\* behind, so no crash takes back or changes a line that was written out.
PublishedIsDurable ==
  IsPrefix(ledger, disk.cursor.prefix) /\ IsPrefix(ledger, files.cursor.prefix)

\* No kill, power loss or failed system call during a commit, a seal, an
\* expiry, an initialization or a recovery leaves files that a later start
\* refuses (exit 21, 22 or 23).
NeverRefused == pc # "refused"

\* The retained segments read as the contiguous end of the committed stream,
\* whatever step of a commit, seal or expiry the process is at.
RetainedIsReadable ==
  Opened =>
    \A i \in FirstRetained..(Index(durable) - 1) :
      LET b == SegmentFor(i)
      IN  /\ b \in Bases /\ i - b + 1 \in DOMAIN files.segments[b]
          /\ ReadAt(i) = durable.prefix[i + 1]

\* Expiry keeps what a reconnect verifies again: every message of the open
\* minute and of the minutes the cursor has proofs of, and the newest print.
ProtectedWindowIsRetained ==
  Opened =>
    /\ \A i \in 1..FirstRetained :
         LET minute == MinuteOf(durable.prefix[i])
         IN  minute < durable.cut /\ minute \notin ToSet(durable.proofs)
    /\ Mode = "ticks" /\ durable.seq # 0 =>
         \E i \in (FirstRetained + 1)..Index(durable) : durable.prefix[i].id = durable.seq

\* expired_minute() and expired_seq() hold of exactly the minutes and prints
\* of which a message left the journal: a duplicate is excused from comparison
\* only when part of what it must be compared with is gone.
ExpiryIsExact ==
  Opened =>
    LET dropped == {durable.prefix[i] : i \in 1..FirstRetained}
        kept == {durable.prefix[i] : i \in (FirstRetained + 1)..Index(durable)}
    IN  /\ \A m \in dropped :
             ExpiredMinute(MinuteOf(m)) /\ (m.id # 0 => ExpiredSeq(m.id))
        /\ \A m \in kept :
             /\ m.id # 0 => ~ExpiredSeq(m.id)
             /\ ExpiredMinute(MinuteOf(m)) => \E d \in dropped : MinuteOf(d) = MinuteOf(m)

\* Reading from index_for_minute() misses no retained message of that minute
\* or of a later one.
LookupIsComplete ==
  Opened =>
    \A i, j \in (FirstRetained + 1)..Index(durable) :
      LET minute == MinuteOf(durable.prefix[j])
      IN  MinuteOf(durable.prefix[i]) >= minute => i - 1 >= IndexForMinute(minute)

\* Every committed message reaches the consumer, however the process is killed
\* or fails on the way, as long as the operator restarts it.
CommittedIsDelivered ==
  \A n \in 1..MaxIndex : Index(disk.cursor) >= n ~> Len(ledger) >= n
-----------------------------------------------------------------------------
\* The process, its files and its crashes implement the stream of
\* DurableStream: the consumer receives every message once and in order, from
\* the retained window, and rebuilds only when expiry has left it behind.
Stream ==
  INSTANCE DurableStream
  WITH log   <- disk.cursor.prefix,
       first <- IF disk.cursor.epoch = 0 THEN 0 ELSE Min(DOMAIN disk.segments),
       seen  <- ledger

ImplementsStream == Stream!Spec
=============================================================================
