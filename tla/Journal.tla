------------------------------- MODULE Journal -------------------------------
(***************************************************************************)
(* The durable segmented journal of the native feed (state.cpp) with the   *)
(* process that owns it and the consumer that reads its output.            *)
(*                                                                         *)
(* Every system call that a crash can separate from the next is a step:    *)
(* appending a line, fsync of the segment, the rename of atomic_file, the  *)
(* directory fsync after it, creating a segment, each unlink.  `files' is  *)
(* what a process sees, `disk' what an fsync of the file and of its        *)
(* directory has made safe: a kill keeps the first, a power loss keeps for *)
(* each entry either.                                                      *)
(*                                                                         *)
(* Abstractions.  A line has length one, so message index and byte count   *)
(* are both the length of the prefix.  prefix_hash identifies the sequence *)
(* it was chained over, so cursors and checkpoints carry that sequence in  *)
(* `prefix'.  last_bar is determined by cut.  A .tmp file has no effect.   *)
(***************************************************************************)
EXTENDS Integers, Sequences, FiniteSetsExt

CONSTANTS
  Mode,         \* "ticks" (ticks, agg-ticks) or "bars"
  Minute,       \* length of a minute in time units (60000)
  Values,       \* payloads of a message
  PredIds,      \* ids the start predecessor of a tick stream may have
  MaxProofs,    \* closed-minute proofs a cursor keeps (32)
  SegmentSize,  \* config.segment_bytes
  ReplaySize,   \* config.replay_bytes
  ReplayAge,    \* config.replay_age_ms, 0 when unset
  MaxIndex,     \* largest message index (2^64 - 1)
  MaxBatch,     \* lines a group commit may hold (4096)
  WriteBack,    \* the kernel writes back everything a dead process left dirty
  MaxStarts,    \* bound: attempts to create the stream
  FaultKinds,   \* the faults this instance is exposed to
  MaxFaults     \* bound: how many of them happen

ASSUME JournalAssumption ==
  /\ Mode \in {"ticks", "bars"}
  /\ Minute \in Nat \ {0}
  /\ Values \subseteq Nat
  /\ PredIds \subseteq Nat \ {0}
  /\ MaxProofs \in Nat \ {0}
  /\ SegmentSize \in Nat \ {0}
  /\ ReplaySize \in Nat /\ ReplaySize >= 2 * SegmentSize
  /\ ReplayAge \in Nat
  /\ MaxIndex \in Nat
  /\ MaxBatch \in Nat \ {0}
  /\ WriteBack \in BOOLEAN
  /\ MaxStarts \in Nat
  /\ FaultKinds \subseteq {"kill", "power", "io", "venue", "consumer"}
  /\ MaxFaults \in Nat

VARIABLES
  files,   \* visible: cursor.json, checkpoints and segments by base index
  disk,    \* the same, as far as it is synced
  pc,      \* the next step of the process
  mem,     \* the members of State, the lines being published, the unwinding Error
  ledger,  \* what the consumer has committed, from index 0
  deaf,    \* the consumer is gone: lines written now are lost
  epoch,   \* epochs drawn so far
  faults   \* faults so far

vars == <<files, disk, pc, mem, ledger, deaf, epoch, faults>>
environment == <<ledger, deaf, epoch, faults>>

cursor == mem.cursor      \* cursor_: the verified state with the staged lines
durable == mem.durable    \* durable_: the committed state
staged == mem.staged      \* staged_: verified, uncommitted lines
segments == mem.segments  \* segments_: what is retained, by base index
-----------------------------------------------------------------------------
(* Messages, cursors and checkpoints.                                      *)

Start == Minute   \* config.start

Message ==
  [type : {"tick", "time", "bar"}, id : Nat, ts : Nat, val : Values \cup {0}]

Checkpoint ==
  [epoch : Nat, pred : {0} \cup PredIds, prefix : Seq(Message), seq : Nat,
   cut : Nat, last : Int]

Cursor ==
  [epoch : Nat, pred : {0} \cup PredIds, prefix : Seq(Message), seq : Nat,
   cut : Nat, last : Int, proofs : {p \in Seq(Nat) : Len(p) <= MaxProofs},
   segment : Nat]

Segment == [seq : Nat, cut : Nat, last : Int]

\* pred 0: not anchored; epoch 0: there is no cursor.json.
FreshCursor(e) ==
  [epoch |-> e, pred |-> 0, prefix |-> <<>>, seq |-> 0, cut |-> Start,
   last |-> -1, proofs |-> <<>>, segment |-> 0]
NoCursor == FreshCursor(0)

CheckpointOf(c) ==
  [epoch |-> c.epoch, pred |-> c.pred, prefix |-> c.prefix, seq |-> c.seq,
   cut |-> c.cut, last |-> c.last]

Index(c) == Len(c.prefix)
SegmentOf(c) == [seq |-> c.seq, cut |-> c.cut, last |-> c.last]

\* The id the next print extends: the last emitted one, or the predecessor.
Previous(c) == IF c.seq # 0 THEN c.seq ELSE c.pred

CanAdvance(c, m) ==
  \/ /\ m.type = "tick" /\ Mode = "ticks"
     /\ Previous(c) # 0 /\ m.id = Previous(c) + 1
     /\ m.ts >= c.cut /\ m.ts < c.cut + Minute /\ m.ts >= c.last
  \/ /\ m.type = "bar" /\ Mode = "bars"
     /\ m.ts = c.cut
  \/ /\ m.type = "time" /\ Mode = "ticks"
     /\ Previous(c) # 0 /\ m.ts = c.cut + Minute /\ m.ts > c.last

Advance(c, m) ==
  CASE m.type = "tick" -> [c EXCEPT !.seq = m.id, !.last = m.ts]
    [] m.type = "bar"  -> [c EXCEPT !.cut = @ + Minute]
    [] m.type = "time" -> [c EXCEPT !.cut = m.ts]

\* Wrong: the window of proofs is not bounded.
PushEveryProof(proofs, minute) == Append(proofs, minute)

PushProof(proofs, minute) ==
  LET longer == Append(proofs, minute)
  IN  IF Len(longer) > MaxProofs THEN Tail(longer) ELSE longer

\* A message that closes a minute comes with the proof of that minute.
Staged(c, m) ==
  [Advance(c, m) EXCEPT
     !.prefix = Append(@, m),
     !.proofs = IF m.type = "tick" THEN @ ELSE PushProof(@, c.cut)]
-----------------------------------------------------------------------------
(* Files.                                                                  *)

Bases == DOMAIN files.segments
Without(f, k) == [x \in DOMAIN f \ {k} |-> f[x]]
With(f, k, v) == [x \in DOMAIN f \cup {k} |-> IF x = k THEN v ELSE f[x]]

\* fsync of the journal directory makes entries durable; the contents behind
\* an entry that was durable already are a matter of the file's own fsync.
SyncedJournal ==
  [disk EXCEPT
     !.checkpoints = files.checkpoints,
     !.segments = [b \in Bases |-> IF b \in DOMAIN disk.segments
                                   THEN disk.segments[b] ELSE <<>>]]

\* The names whose visible and synced states differ, and a directory after a
\* power loss that let the visible state of `kept' reach the disk.
Unsynced(visible, synced) ==
  {k \in DOMAIN visible \cup DOMAIN synced :
     ~(k \in DOMAIN visible \cap DOMAIN synced /\ visible[k] = synced[k])}
Survivors(visible, synced, kept) ==
  [k \in (kept \cap DOMAIN visible) \cup (DOMAIN synced \ kept) |->
     IF k \in kept THEN visible[k] ELSE synced[k]]

\* Of two versions of a file one is a prefix of the other; at least the shorter
\* is found, and of the rest as much as n says.  Only the open segment has two.
Torn(a, b, n) ==
  LET shorter == IF Len(a) < Len(b) THEN a ELSE b
      longer  == IF Len(a) < Len(b) THEN b ELSE a
  IN  IF n <= Len(shorter) THEN shorter
      ELSE IF n >= Len(longer) THEN longer ELSE SubSeq(longer, 1, n)

TornLengths ==
  {0} \cup UNION {0..(Len(files.segments[b]) + Len(disk.segments[b])) :
                 b \in Unsynced(files.segments, disk.segments) \cap Bases \cap DOMAIN disk.segments}

SurvivingSegments(kept, n) ==
  LET found == Survivors(files.segments, disk.segments, kept)
  IN  [b \in DOMAIN found |->
         IF b \in Bases \cap DOMAIN disk.segments
         THEN Torn(files.segments[b], disk.segments[b], n) ELSE found[b]]
-----------------------------------------------------------------------------
(* The process: where it is, and how it ends.                              *)

NoMemory ==
  [cursor |-> NoCursor, durable |-> NoCursor, staged |-> <<>>, written |-> 0,
   segments |-> <<>>, unusable |-> FALSE, dying |-> FALSE, outbox |-> <<>>]

Exit ==
  /\ pc' = "down"
  /\ mem' = NoMemory
  /\ disk' = IF WriteBack THEN files ELSE disk
  /\ UNCHANGED files

\* Straight-line order of the steps of initialize, flush, rotate and retain.
After(step) ==
  CASE step = "initCheckpoint"       -> "initCheckpointSync"
    [] step = "initCheckpointSync"   -> "initSegment"
    [] step = "initSegment"          -> "initSegmentSync"
    [] step = "initSegmentSync"      -> "initCursor"
    [] step = "initCursor"           -> "initCursorSync"
    [] step = "appendSync"           -> "commitCursor"
    [] step = "commitCursor"         -> "commitCursorSync"
    [] step = "sealCheckpoint"       -> "sealCheckpointSync"
    [] step = "sealCheckpointSync"   -> "sealSegment"
    [] step = "sealSegment"          -> "sealSegmentSync"
    [] step = "sealSegmentSync"      -> "sealCursor"
    [] step = "sealCursor"           -> "sealCursorSync"
    [] step = "expireSegmentSync"    -> "expireCheckpoint"
    [] step = "expireCheckpoint"     -> "expireCheckpointSync"
    [] step = "expireCheckpointSync" -> "retain"
    [] step = "recoverSync"          -> "recoverReplay"

Step(steps) == pc \in steps /\ pc' = After(pc)

CommitSteps ==
  {"append", "appendSync", "commitCursor", "commitCursorSync",
   "sealCheckpoint", "sealCheckpointSync", "sealSegment", "sealSegmentSync",
   "sealCursor", "sealCursorSync", "retain", "expireSegmentSync",
   "expireCheckpoint", "expireCheckpointSync"}
-----------------------------------------------------------------------------
(* The calls that initialize, anchor, flush and rotate share.              *)

\* write_checkpoint: the rename of atomic_file.
WriteCheckpoint ==
  /\ Step({"initCheckpoint", "sealCheckpoint"})
  /\ files' = [files EXCEPT !.checkpoints = With(@, Index(cursor), CheckpointOf(cursor))]
  /\ UNCHANGED <<disk, mem, environment>>

\* open(O_CREAT | O_EXCL) and fsync of the empty segment.
CreateSegment ==
  /\ Step({"initSegment", "sealSegment"})
  /\ Index(cursor) \notin Bases
  /\ files' = [files EXCEPT !.segments = With(@, Index(cursor), <<>>)]
  /\ UNCHANGED <<disk, mem, environment>>

\* persist: the rename of atomic_file.
ReplaceCursor ==
  /\ Step({"initCursor", "commitCursor", "sealCursor"})
  /\ files' = [files EXCEPT
       !.cursor = IF pc = "sealCursor" THEN [cursor EXCEPT !.segment = Index(cursor)]
                  ELSE cursor]
  /\ UNCHANGED <<disk, mem, environment>>

SyncJournalDir ==
  /\ Step({"initCheckpointSync", "initSegmentSync", "sealCheckpointSync",
           "sealSegmentSync", "expireSegmentSync", "expireCheckpointSync",
           "recoverSync"})
  /\ disk' = SyncedJournal
  /\ UNCHANGED <<files, mem, environment>>

\* Wrong: a persist without the fsync of the state directory.
CursorRenamed(step, next) ==
  /\ pc = step /\ pc' = next
  /\ UNCHANGED <<files, disk, environment>>

\* The fsync of the state directory that ends a persist.
CursorSynced(step, next) ==
  /\ pc = step /\ pc' = next
  /\ disk' = [disk EXCEPT !.cursor = files.cursor]
  /\ UNCHANGED <<files, environment>>
-----------------------------------------------------------------------------
(* initialize().                                                           *)

\* The leftovers of an initialization that crashed are removed, unless a
\* segment holds a byte.
StartFresh ==
  /\ pc = "down" /\ files.cursor.epoch = 0 /\ epoch < MaxStarts
  /\ epoch' = epoch + 1 /\ deaf' = FALSE
  /\ \/ /\ \E b \in Bases : files.segments[b] # <<>>
        /\ pc' = "refused"
        /\ UNCHANGED <<files, mem>>
     \/ /\ \A b \in Bases : files.segments[b] = <<>>
        /\ pc' = "initCheckpoint"
        /\ files' = [files EXCEPT !.checkpoints = <<>>, !.segments = <<>>]
        /\ mem' = [mem EXCEPT !.cursor = FreshCursor(epoch')]
  /\ UNCHANGED <<disk, ledger, faults>>

Initialized ==
  /\ CursorSynced("initCursorSync", "idle")
  /\ mem' = [mem EXCEPT !.durable = cursor, !.segments = [b \in {Index(cursor)} |-> SegmentOf(cursor)]]
-----------------------------------------------------------------------------
(* recover(), and the part of the constructor that follows it.             *)

Resume ==
  /\ pc = "down" /\ files.cursor.epoch # 0
  /\ pc' = "recover"
  /\ mem' = [mem EXCEPT !.cursor = files.cursor]
  /\ deaf' = FALSE
  /\ UNCHANGED <<files, disk, ledger, epoch, faults>>

Names == Bases \cup DOMAIN files.checkpoints

\* The successor an interrupted seal created; the checkpoint an interrupted
\* expiry left.
AboveOpen == {b \in Names : b > cursor.segment}

Orphans == {b \in Names \ Bases : b < Min({cursor.segment} \cup Bases)}

Unexpected ==
  \/ \E b \in AboveOpen :
       b # Index(cursor) \/ (b \in Bases /\ files.segments[b] # <<>>)
  \/ \E b \in Names \ AboveOpen :
       (b \notin Bases /\ b \notin Orphans) \/ b \notin DOMAIN files.checkpoints

\* One removal at a time, a segment before its checkpoint.
RecoverRemove ==
  /\ pc \in {"recover", "recoverDirty"}
  /\ ~Unexpected /\ AboveOpen \cup Orphans # {}
  /\ LET b == Min(AboveOpen \cup Orphans)
     IN  files' = IF b \in Bases
                  THEN [files EXCEPT !.segments = Without(@, b)]
                  ELSE [files EXCEPT !.checkpoints = Without(@, b)]
  /\ pc' = "recoverDirty"
  /\ UNCHANGED <<disk, mem, environment>>

RecoverScanned ==
  /\ pc \in {"recover", "recoverDirty"}
  /\ Unexpected \/ AboveOpen \cup Orphans = {}
  /\ pc' = IF Unexpected THEN "refused"
           ELSE IF pc = "recover" THEN "recoverReplay" ELSE "recoverSync"
  /\ UNCHANGED <<files, disk, mem, environment>>

\* What recovery reads of segment b (all, or the open one up to the cursor),
\* and the state that must lead to.
Lines(b) ==
  IF b = cursor.segment
  THEN SubSeq(files.segments[b], 1, Index(cursor) - b) ELSE files.segments[b]
BoundaryAfter(b) ==
  IF b = cursor.segment THEN CheckpointOf(cursor)
  ELSE files.checkpoints[Min({x \in Bases : x > b})]

\* advance() over lines from state s; `ok' tells whether each was accepted.
Replayed(s, lines) ==
  LET state[k \in 0..Len(lines)] ==
        IF k = 0 THEN s
        ELSE IF state[k - 1].ok /\ CanAdvance(state[k - 1], lines[k])
             THEN Advance(state[k - 1], lines[k])
             ELSE [state[k - 1] EXCEPT !.ok = FALSE]
  IN  state[Len(lines)]

SegmentVerified(b) ==
  LET doc   == files.checkpoints[b]
      after == BoundaryAfter(b)
      end   == Replayed([pred |-> cursor.pred, seq |-> doc.seq, cut |-> doc.cut,
                         last |-> doc.last, ok |-> TRUE], Lines(b))
  IN  /\ b \in DOMAIN files.checkpoints /\ b = Index(doc)
      /\ b = cursor.segment => /\ b <= Index(cursor)
                               /\ Len(files.segments[b]) >= Index(cursor) - b
      /\ doc.prefix \o Lines(b) = after.prefix
      /\ end.ok /\ end.seq = after.seq /\ end.cut = after.cut /\ end.last = after.last

RecoverVerified ==
  /\ cursor.segment \in Bases /\ \A b \in Bases : b <= cursor.segment
  /\ LET oldest == files.checkpoints[Min(Bases)]
     IN  oldest.epoch = cursor.epoch /\ oldest.pred \in {0, cursor.pred}
  /\ \A b \in Bases : SegmentVerified(b)

\* Only a verified journal is changed: its uncommitted tail is truncated.
RecoverReplay ==
  /\ pc = "recoverReplay"
  /\ IF RecoverVerified
     THEN /\ pc' = "recoverFsync"
          /\ files' = [files EXCEPT !.segments[cursor.segment] = Lines(cursor.segment)]
          /\ mem' = [mem EXCEPT
               !.durable = cursor,
               !.segments = [b \in Bases |-> SegmentOf(files.checkpoints[b])]]
     ELSE pc' = "refused" /\ UNCHANGED <<files, mem>>
  /\ UNCHANGED <<disk, environment>>

FirstRetained == Min(DOMAIN segments)

\* fsync of the truncated tail, then --output-from against what is retained.
RecoverFsync ==
  /\ pc = "recoverFsync"
  /\ disk' = [disk EXCEPT
       !.segments[cursor.segment] = files.segments[cursor.segment]]
  /\ pc' = IF Len(ledger) > Index(cursor) THEN "refused"
           ELSE IF Len(ledger) < FirstRetained THEN "expired" ELSE "replay"
  /\ UNCHANGED <<files, mem, environment>>

\* scan(): the message at index i (from 0) as the retained files hold it.
SegmentFor(i) == Max({b \in DOMAIN segments : b <= i} \cup {FirstRetained})
ReadAt(i) == files.segments[SegmentFor(i)][i - SegmentFor(i) + 1]
Visit(from) == [k \in 1..(Index(durable) - from) |-> ReadAt(from + k - 1)]

\* Wrong: a resume goes straight on with new messages.
ReplayNothing ==
  /\ pc = "replay" /\ pc' = "publish"
  /\ UNCHANGED <<files, disk, mem, environment>>

\* Wrong: a resume writes out all that is retained.
ReplayRetained ==
  /\ pc = "replay" /\ pc' = "publish"
  /\ mem' = [mem EXCEPT !.outbox = Visit(FirstRetained)]
  /\ UNCHANGED <<files, disk, environment>>

\* The first connection after a resume writes out everything from the
\* consumer's index on.
Replay ==
  /\ pc = "replay" /\ pc' = "publish"
  /\ mem' = [mem EXCEPT !.outbox = Visit(Len(ledger))]
  /\ UNCHANGED <<files, disk, environment>>
-----------------------------------------------------------------------------
(* anchor(), stage(), flush().                                             *)

Anchor ==
  /\ pc = "idle" /\ Mode = "ticks"
  /\ cursor.pred = 0 /\ Index(cursor) = 0 /\ staged = <<>>
  /\ \E p \in PredIds : files' = [files EXCEPT !.cursor = [cursor EXCEPT !.pred = p]]
  /\ pc' = "anchorSync"
  /\ UNCHANGED <<disk, mem, environment>>

Anchored ==
  /\ CursorSynced("anchorSync", "idle")
  /\ mem' = [mem EXCEPT !.cursor = files.cursor, !.durable = files.cursor]

Stage(m) ==
  /\ pc = "idle" /\ Len(staged) < MaxBatch
  /\ Index(cursor) < MaxIndex /\ CanAdvance(cursor, m)
  /\ mem' = [mem EXCEPT !.cursor = Staged(cursor, m), !.staged = Append(@, m)]
  /\ UNCHANGED <<files, disk, pc, environment>>

\* Wrong: the salvage commits on top of a failed append.
FlushAgain ==
  /\ pc \in {"idle", "salvage"}
  /\ staged # <<>>
  /\ pc' = "append"
  /\ mem' = [mem EXCEPT !.unusable = TRUE, !.written = 0]
  /\ UNCHANGED <<files, disk, environment>>

\* A failed commit leaves a tail that only a resume may truncate.
Flush ==
  /\ pc \in {"idle", "salvage"}
  /\ staged # <<>> /\ ~mem.unusable
  /\ pc' = "append"
  /\ mem' = [mem EXCEPT !.unusable = TRUE, !.written = 0]
  /\ UNCHANGED <<files, disk, environment>>

AppendLine ==
  /\ pc = "append"
  /\ pc' = IF mem.written + 1 = Len(staged) THEN "appendSync" ELSE "append"
  /\ files' = [files EXCEPT !.segments[durable.segment] = Append(@, staged[mem.written + 1])]
  /\ mem' = [mem EXCEPT !.written = @ + 1]
  /\ UNCHANGED <<disk, environment>>

\* Wrong: the cursor follows the write, not its fsync.
AppendUnsynced ==
  /\ Step({"appendSync"})
  /\ UNCHANGED <<files, disk, mem, environment>>

SyncAppended ==
  /\ Step({"appendSync"})
  /\ disk' = [disk EXCEPT !.segments[durable.segment] = files.segments[durable.segment]]
  /\ UNCHANGED <<files, mem, environment>>

\* The open segment reached its size: rotate() follows, else retain().
SealDue(c) ==
  LET base == Max(DOMAIN segments)
  IN  Index(c) - base >= SegmentSize /\ Index(c) # base

Committed ==
  /\ CursorSynced("commitCursorSync", IF SealDue(cursor) THEN "sealCheckpoint" ELSE "retain")
  /\ mem' = [mem EXCEPT !.durable = cursor, !.outbox = staged, !.staged = <<>>,
                        !.written = 0, !.unusable = FALSE]

\* The end of rotate(): the successor is the open segment.
Sealed ==
  /\ CursorSynced("sealCursorSync", "retain")
  /\ mem' = [mem EXCEPT !.durable.segment = Index(durable),
                        !.cursor.segment = Index(durable),
                        !.segments = With(@, Index(durable), SegmentOf(durable))]
-----------------------------------------------------------------------------
(* retain().                                                               *)

\* Wrong: the minutes a reconnect verifies again are not protected.
OpenMinuteStart(c) == c.cut

ProtectedStart(c) == IF c.proofs = <<>> THEN c.cut ELSE Min({c.proofs[1], c.cut})

Oldest == segments[FirstRetained]
AfterOldest == segments[Min(DOMAIN segments \ {FirstRetained})]

HoldsNewestPrint ==
  Mode = "ticks" /\ AfterOldest.seq = durable.seq /\ Oldest.seq < durable.seq

Expirable ==
  /\ DOMAIN segments # {FirstRetained}
  /\ AfterOldest.cut < ProtectedStart(durable)
  /\ ~HoldsNewestPrint
  /\ \/ Index(durable) - FirstRetained > ReplaySize
     \/ ReplayAge # 0 /\ durable.cut - AfterOldest.cut > ReplayAge

ExpireSegment ==
  /\ pc = "retain" /\ Expirable
  /\ pc' = "expireSegmentSync"
  /\ files' = [files EXCEPT !.segments = Without(@, FirstRetained)]
  /\ mem' = [mem EXCEPT !.segments = Without(@, FirstRetained)]
  /\ UNCHANGED <<disk, environment>>

\* The checkpoint of the segment just erased is the only one below the rest.
ExpireCheckpoint ==
  /\ Step({"expireCheckpoint"})
  /\ files' = [files EXCEPT
       !.checkpoints = [b \in {x \in DOMAIN @ : x >= FirstRetained} |-> @[b]]]
  /\ UNCHANGED <<disk, mem, environment>>

RetainDone ==
  /\ pc = "retain" /\ ~Expirable
  /\ pc' = "publish"
  /\ UNCHANGED <<files, disk, mem, environment>>
-----------------------------------------------------------------------------
(* publish(), salvage(), and the consumer.                                 *)

PublishLine ==
  /\ pc = "publish" /\ mem.outbox # <<>>
  /\ ledger' = IF deaf THEN ledger ELSE Append(ledger, Head(mem.outbox))
  /\ mem' = [mem EXCEPT !.outbox = Tail(@)]
  /\ UNCHANGED <<files, disk, pc, deaf, epoch, faults>>

Published ==
  /\ pc = "publish" /\ mem.outbox = <<>>
  /\ \/ mem.dying /\ Exit
     \/ ~mem.dying /\ pc' = "idle" /\ UNCHANGED <<files, disk, mem>>
  /\ UNCHANGED environment

\* Nothing left to commit, or nothing that may be: the Error ends the process.
Salvaged ==
  /\ pc = "salvage" /\ (staged = <<>> \/ mem.unusable)
  /\ Exit
  /\ UNCHANGED environment

\* A write to the broken pipe fails, or the operator stops the pipeline.
OutputLost ==
  /\ deaf /\ pc \in {"idle", "publish"}
  /\ Exit
  /\ UNCHANGED environment

\* A consumer behind the retained journal is rebuilt from a warmup that ends
\* inside it.
ConsumerRebuilds ==
  /\ pc = "expired" /\ pc' = "down"
  /\ mem' = NoMemory
  /\ \E n \in Min(Bases)..Index(files.cursor) : ledger' = SubSeq(files.cursor.prefix, 1, n)
  /\ UNCHANGED <<files, disk, deaf, epoch, faults>>
-----------------------------------------------------------------------------
(* Faults.                                                                 *)

Fault(kind) ==
  /\ kind \in FaultKinds /\ faults < MaxFaults
  /\ faults' = faults + 1
  /\ UNCHANGED epoch

\* A venue, transport or proof Error while messages are being staged.
VenueError ==
  /\ pc = "idle" /\ pc' = "salvage"
  /\ Fault("venue")
  /\ mem' = [mem EXCEPT !.dying = TRUE]
  /\ UNCHANGED <<files, disk, ledger, deaf>>

\* A system call of flush() fails: the journal is unusable, and lines that were
\* committed but not returned are dropped.  (A failure elsewhere is an Exit.)
IOFailure ==
  /\ pc \in CommitSteps /\ pc' = "salvage"
  /\ Fault("io")
  /\ mem' = [mem EXCEPT !.unusable = TRUE, !.dying = TRUE, !.outbox = <<>>]
  /\ UNCHANGED <<files, disk, ledger, deaf>>

Kill ==
  /\ pc \notin {"down", "refused", "expired"}
  /\ Fault("kill")
  /\ Exit
  /\ UNCHANGED <<ledger, deaf>>

PowerLoss ==
  /\ pc # "refused"
  /\ Fault("power")
  /\ pc' = "down" /\ mem' = NoMemory
  /\ \E c \in {files.cursor, disk.cursor},
        keptCheckpoints \in SUBSET Unsynced(files.checkpoints, disk.checkpoints),
        keptSegments \in SUBSET Unsynced(files.segments, disk.segments),
        n \in TornLengths :
       files' = [cursor |-> c,
                 checkpoints |-> Survivors(files.checkpoints, disk.checkpoints, keptCheckpoints),
                 segments |-> SurvivingSegments(keptSegments, n)]
  /\ disk' = files'
  /\ UNCHANGED <<ledger, deaf>>

ConsumerDies ==
  /\ ~deaf /\ deaf' = TRUE
  /\ Fault("consumer")
  /\ UNCHANGED <<files, disk, pc, mem, ledger>>
-----------------------------------------------------------------------------
NoFiles == [cursor |-> NoCursor, checkpoints |-> <<>>, segments |-> <<>>]

Init ==
  /\ files = NoFiles /\ disk = NoFiles
  /\ pc = "down" /\ mem = NoMemory
  /\ ledger = <<>> /\ deaf = FALSE
  /\ epoch = 0 /\ faults = 0

\* What the sessions may offer: a print of the open minute, its close, a bar.
Candidates ==
  [type : {"tick"}, id : {Previous(cursor) + 1},
   ts : cursor.cut..(cursor.cut + Minute), val : Values]
  \cup [type : {"time"}, id : {0}, ts : {cursor.cut + Minute}, val : {0}]
  \cup [type : {"bar"}, id : {0}, ts : {cursor.cut}, val : Values]

\* Everything the process and its operator do without new input.
Working ==
  \/ StartFresh \/ WriteCheckpoint \/ CreateSegment \/ ReplaceCursor
  \/ SyncJournalDir \/ Initialized \/ Anchored
  \/ Resume \/ RecoverRemove \/ RecoverScanned \/ RecoverReplay
  \/ RecoverFsync \/ Replay
  \/ Flush \/ AppendLine \/ SyncAppended \/ Committed \/ Sealed
  \/ ExpireSegment \/ ExpireCheckpoint \/ RetainDone
  \/ PublishLine \/ Published \/ Salvaged \/ OutputLost \/ ConsumerRebuilds

Producing == Anchor \/ \E m \in Candidates : Stage(m)
Faulting == VenueError \/ IOFailure \/ Kill \/ PowerLoss \/ ConsumerDies

Next == Working \/ Producing \/ Faulting

Spec == Init /\ [][Next]_vars

\* A live process runs, and the operator restarts a dead one.
FairSpec == Spec /\ WF_vars(Working)
-----------------------------------------------------------------------------
(* Lookups the sessions make in the retained journal.                      *)

\* Wrong: a minute cut in two by expiry counts as retained.
WhollyExpiredMinute(minute) == FirstRetained # 0 /\ minute < Oldest.cut

\* Whether retention has dropped (part of) this minute.
ExpiredMinute(minute) ==
  /\ FirstRetained # 0
  /\ \/ minute < Oldest.cut
     \/ Mode = "ticks" /\ minute = Oldest.cut /\ Oldest.last >= Oldest.cut

ExpiredSeq(id) == FirstRetained # 0 /\ id <= Oldest.seq

\* Wrong: the first lines of a minute may sit before the checkpoint at its cut.
IndexAtMinute(minute) ==
  Max({b \in DOMAIN segments : segments[b].cut <= minute} \cup {FirstRetained})

\* The first retained index from which all of minute is visited.
IndexForMinute(minute) ==
  Max({b \in DOMAIN segments : segments[b].cut < minute} \cup {FirstRetained})
=============================================================================
