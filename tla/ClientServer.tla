------------------------------ MODULE ClientServer ------------------------------
(***************************************************************************)
(* serve (serve.cpp): the hub that releases committed lines to clients, a  *)
(* worker thread for each client, which reads the journal's files until    *)
(* its client has reached the head and then drains the client's queue, and *)
(* snapshots, which only read the files.                                   *)
(*                                                                         *)
(* The producer's journal is here what the threads that read its files can *)
(* see of it: how many lines are there, and which segments, named by the   *)
(* index of their first line.  A step is a section under the hub's mutex,  *)
(* a system call on the journal, or a write to a client.                   *)
(***************************************************************************)
EXTENDS Integers, SequencesExt

CONSTANTS
  Client,         \* the consumers
  QueueLimit,     \* client_queue_bytes, in lines
  MaxClients,     \* max_clients
  SnapshotLimit,  \* snapshot_limit, in lines
  MaxIndex,       \* bound: lines that are produced
  MaxBatch,       \* bound: lines of one commit
  MaxVisits,      \* bound: requests of one consumer
  MaxStarts       \* bound: restarts of the producer

ASSUME ClientServerAssumption ==
  /\ QueueLimit \in Nat \ {0} /\ MaxClients \in Nat \ {0} /\ SnapshotLimit \in Nat
  /\ MaxIndex \in Nat /\ MaxBatch \in Nat \ {0} /\ MaxVisits \in Nat /\ MaxStarts \in Nat

VARIABLES
  lines,      \* lines in the files, the last of them perhaps uncommitted
  durable,    \* durable_.message_index
  bases,      \* the segments that are there, by base index
  sealed,     \* every base index that a segment ever had
  producer,   \* what the producer thread does next
  published,  \* Hub::published
  first,      \* Hub::first_retained
  starts,     \* restarts so far
  pc,         \* what the thread of each client does next
  kind,       \* what it asked for, "stream" or "snapshot"
  next,       \* Client::next
  head,       \* what it found published
  reader,     \* JournalReader: the segment it has open, and index_
  line,       \* the line it took from its queue
  live,       \* Client::live
  slow,       \* Client::slow
  queue,      \* Client::queue
  reason,     \* how its last request ended
  start,      \* the consumer: the index of its first line
  ledger,     \* the consumer: the lines it has
  visits      \* requests so far

fileVars == <<lines, durable, bases, sealed>>
hubVars == <<published, first, starts>>
queueVars == <<live, slow, queue>>
consumerVars == <<start, ledger, visits>>
clientVars == <<pc, kind, next, head, reader, line, reason>>
vars == <<fileVars, producer, hubVars, clientVars, queueVars, consumerVars>>

Stopping == producer = "stopping"   \* Hub::stopping, Hub::halting
Up == producer # "down"

\* The connections of Hub::clients.
Clients == {c \in Client : pc[c] # "off" /\ kind[c] = "stream"}

\* A segment's lines end where the next segment begins, also once it is
\* unlinked, which a reader that has it open does not notice.
EndOf(b) ==
  LET later == {s \in sealed : s > b} IN IF later = {} THEN lines ELSE Min(later)

NoReader == [descriptor |-> -1, index |-> 0]
-----------------------------------------------------------------------------
(* The producer: State::flush, what is published of it, and Hub::commit.    *)

AppendBatch ==
  /\ producer = "idle"
  /\ \E n \in 1..MaxBatch : durable + n <= MaxIndex /\ lines' = durable + n
  /\ producer' = "commit"
  /\ UNCHANGED <<durable, bases, sealed, hubVars, clientVars, queueVars, consumerVars>>

Commit ==
  /\ producer = "commit"
  /\ durable' = lines
  /\ producer' = "rotate"
  /\ UNCHANGED <<lines, bases, sealed, hubVars, clientVars, queueVars, consumerVars>>

\* A commit that reaches the size of a segment seals it.
Rotate ==
  /\ producer = "rotate"
  /\ \/ bases' = bases \cup {durable} /\ sealed' = sealed \cup {durable}
     \/ UNCHANGED <<bases, sealed>>
  /\ producer' = "retain"
  /\ UNCHANGED <<lines, durable, hubVars, clientVars, queueVars, consumerVars>>

\* The budgets decide how many sealed segments expire.
Expire ==
  /\ producer = "retain" /\ bases # {Min(bases)}
  /\ bases' = bases \ {Min(bases)}
  /\ UNCHANGED <<lines, durable, sealed, producer, hubVars, clientVars, queueVars, consumerVars>>

Retained ==
  /\ producer = "retain"
  /\ producer' = "publish"
  /\ UNCHANGED <<fileVars, hubVars, clientVars, queueVars, consumerVars>>

\* A client that cannot keep up is cut off.
Fan(l, receivers, roomy) ==
  /\ slow' = [c \in Client |-> slow[c] \/ c \in receivers \ roomy]
  /\ queue' = [c \in Client |-> IF c \in receivers \cap roomy THEN Append(queue[c], l) ELSE queue[c]]

Receivers == {c \in Clients : live[c] /\ ~slow[c]}
Roomy == {c \in Client : Len(queue[c]) < QueueLimit}

\* Wrong: a full queue takes one more.
FanOutOver(l) == Fan(l, Receivers, {c \in Client : Len(queue[c]) <= QueueLimit})

\* Wrong: a full queue loses the line and the client stays.
FanOutLossy(l) == Fan(l, Receivers \cap Roomy, Roomy)

FanOut(l) == Fan(l, Receivers, Roomy)

Publish ==
  /\ producer = "publish" /\ published < durable
  /\ published' = published + 1
  /\ FanOut(published)
  /\ UNCHANGED <<fileVars, producer, first, starts, clientVars, live, consumerVars>>

\* The batch is out; stream() reports the commit to the hub, but not where
\* emit() has published a full batch in the middle of its work.
Published ==
  /\ producer = "publish" /\ published = durable
  /\ producer' = "idle"
  /\ first' \in {first, Min(bases)}
  /\ UNCHANGED <<fileVars, published, starts, clientVars, queueVars, consumerVars>>

\* A stop request, a venue's error, or a failed commit, seal or expiry.
Stop ==
  /\ producer \in {"idle", "commit", "rotate", "retain"}
  /\ producer' = "stopping"
  /\ first' \in {first, Min(bases)}
  /\ UNCHANGED <<fileVars, published, starts, clientVars, queueVars, consumerVars>>

\* The server ends once every client has its close frame, or after three
\* seconds; a kill does not wait.
Down ==
  /\ Up
  /\ producer' = "down"
  /\ pc' = [c \in Client |-> "off"]
  /\ reason' = [c \in Client |-> IF pc[c] \in {"off", "closed"} THEN reason[c] ELSE "dead"]
  /\ live' = [c \in Client |-> FALSE] /\ slow' = live' /\ queue' = [c \in Client |-> <<>>]
  /\ head' = [c \in Client |-> 0] /\ line' = head' /\ reader' = [c \in Client |-> NoReader]
  /\ UNCHANGED <<fileVars, hubVars, kind, next, consumerVars>>

Restart ==
  /\ producer = "down" /\ starts < MaxStarts
  /\ producer' = "idle" /\ starts' = starts + 1
  /\ lines' = durable /\ published' = durable /\ first' = Min(bases)
  /\ UNCHANGED <<durable, bases, sealed, clientVars, queueVars, consumerVars>>
-----------------------------------------------------------------------------
(* A request: admit(), on_ready(), snapshot_page().                         *)

Closes(c, why) ==
  /\ pc' = [pc EXCEPT ![c] = "closed"]
  /\ reason' = [reason EXCEPT ![c] = why]

Goes(c, to) == pc' = [pc EXCEPT ![c] = to] /\ UNCHANGED reason

\* A consumer asks for what follows its ledger; one that has none begins with a
\* warmup, which may end anywhere, and so does one whose cursor has expired.  A
\* snapshot that was not answered has given it nothing.
Fresh(c) ==
  \/ ledger[c] = <<>> \/ reason[c] = "expired"
  \/ kind[c] = "snapshot" /\ reason[c] # "answered"
Asked(c) == IF Fresh(c) THEN 0..MaxIndex ELSE {start[c] + Len(ledger[c])}

Refuses(c, index, why) ==
  \/ Stopping /\ why = "stopping"
  \/ ~Stopping /\ index > published /\ why = "unknown"
  \/ ~Stopping /\ index <= published /\ index < first /\ why = "expired"
  \/ /\ ~Stopping /\ index \in first..published
     /\ Cardinality(Clients) >= MaxClients /\ why = "full"

Admit(c) ==
  /\ Up /\ pc[c] = "off" /\ visits[c] < MaxVisits
  /\ visits' = [visits EXCEPT ![c] = @ + 1]
  /\ \E index \in Asked(c) :
       /\ next' = [next EXCEPT ![c] = index] /\ kind' = [kind EXCEPT ![c] = "stream"]
       /\ IF Fresh(c)
          THEN start' = [start EXCEPT ![c] = index] /\ ledger' = [ledger EXCEPT ![c] = <<>>]
          ELSE UNCHANGED <<start, ledger>>
       /\ \/ \E why \in {"stopping", "unknown", "expired", "full"} :
               /\ Refuses(c, index, why)
               /\ reason' = [reason EXCEPT ![c] = why]
               /\ UNCHANGED pc
          \/ /\ \A why \in {"stopping", "unknown", "expired", "full"} : ~Refuses(c, index, why)
             /\ pc' = [pc EXCEPT ![c] = "admitted"]
             /\ reason' = [reason EXCEPT ![c] = "none"]
  /\ UNCHANGED <<fileVars, producer, hubVars, head, reader, line, queueVars>>

\* on_ready() follows, unless the handshake fails.
Ready(c) ==
  /\ pc[c] = "admitted"
  /\ Goes(c, "check") \/ Closes(c, "dead")
  /\ UNCHANGED <<fileVars, producer, hubVars, kind, next, head, reader, line, queueVars, consumerVars>>

\* A consumer without a ledger may ask for the snapshot instead.
Snapshot(c) ==
  /\ Up /\ pc[c] = "off" /\ visits[c] < MaxVisits /\ Fresh(c)
  /\ visits' = [visits EXCEPT ![c] = @ + 1]
  /\ start' = [start EXCEPT ![c] = 0] /\ ledger' = [ledger EXCEPT ![c] = <<>>]
  /\ kind' = [kind EXCEPT ![c] = "snapshot"]
  /\ next' = [next EXCEPT ![c] = 0] /\ head' = [head EXCEPT ![c] = published]
  /\ IF first > 0 THEN Closes(c, "expired")
     ELSE pc' = [pc EXCEPT ![c] = "list"] /\ reason' = [reason EXCEPT ![c] = "none"]
  /\ UNCHANGED <<fileVars, producer, hubVars, reader, line, queueVars>>

\* The connection ends.
Disconnected(c) ==
  /\ pc[c] = "closed"
  /\ Goes(c, "off")
  /\ live' = [live EXCEPT ![c] = FALSE] /\ slow' = [slow EXCEPT ![c] = FALSE]
  /\ queue' = [queue EXCEPT ![c] = <<>>]
  /\ head' = [head EXCEPT ![c] = 0] /\ reader' = [reader EXCEPT ![c] = NoReader]
  /\ UNCHANGED <<fileVars, producer, hubVars, kind, next, line, consumerVars>>
-----------------------------------------------------------------------------
(* serve_client(): catching up.                                             *)

\* Wrong: the client is live once it has what was published when it looked last.
CheckLater(c) ==
  /\ pc[c] = "check"
  /\ head' = [head EXCEPT ![c] = published]
  /\ IF Stopping THEN Closes(c, "goodbye") /\ UNCHANGED <<live, reader>>
     ELSE IF next[c] = published \/ (reader[c] # NoReader /\ next[c] = head[c])
          THEN Goes(c, "live") /\ live' = [live EXCEPT ![c] = TRUE]
               /\ reader' = [reader EXCEPT ![c] = NoReader]
     ELSE Goes(c, IF reader[c] = NoReader THEN "list" ELSE "read") /\ UNCHANGED <<live, reader>>
  /\ UNCHANGED <<fileVars, producer, hubVars, kind, next, line, slow, queue, consumerVars>>

Check(c) ==
  /\ pc[c] = "check"
  /\ head' = [head EXCEPT ![c] = published]
  /\ IF Stopping THEN Closes(c, "goodbye") /\ UNCHANGED <<live, reader>>
     ELSE IF next[c] = published
          THEN Goes(c, "live") /\ live' = [live EXCEPT ![c] = TRUE]
               /\ reader' = [reader EXCEPT ![c] = NoReader]
     ELSE Goes(c, IF reader[c] = NoReader THEN "list" ELSE "read") /\ UNCHANGED <<live, reader>>
  /\ UNCHANGED <<fileVars, producer, hubVars, kind, next, line, slow, queue, consumerVars>>
-----------------------------------------------------------------------------
(* JournalReader: seek(), next(), open().                                   *)

threadVars == <<fileVars, producer, hubVars, kind, visits, start>>

\* The thread goes to the last of the segments, or finds none.
Chooses(c, before) ==
  /\ pc[c] \in {"list", "relist"}
  /\ IF before = {}
     THEN Closes(c, "expired") /\ UNCHANGED reader
     ELSE /\ Goes(c, IF pc[c] = "list" THEN "open" ELSE "reopen")
          /\ reader' = [reader EXCEPT ![c].index = Max(before)]
  /\ UNCHANGED <<threadVars, next, head, line, ledger, queueVars>>

\* Wrong: a segment that begins at the index is not one of them.
ListsBefore(c) == Chooses(c, {b \in bases : b < next[c]})

\* seek: the segments that begin at or before the index.
Lists(c) == Chooses(c, {b \in bases : b <= next[c]})

\* If the segment has gone since, the files are listed once more.
Opens(c) ==
  /\ pc[c] \in {"open", "reopen"}
  /\ IF reader[c].index \in bases
     THEN Goes(c, "read") /\ reader' = [reader EXCEPT ![c].descriptor = reader[c].index]
     ELSE /\ reader' = [reader EXCEPT ![c] = NoReader]
          /\ IF pc[c] = "open" THEN Goes(c, "relist") ELSE Closes(c, "expired")
  /\ UNCHANGED <<threadVars, next, head, line, ledger, queueVars>>

\* A directory that cannot be listed, a file that cannot be opened.
Fails(c) ==
  /\ pc[c] \in {"list", "relist", "open", "reopen", "eof"}
  /\ Closes(c, "error")
  /\ UNCHANGED <<threadVars, next, head, reader, line, ledger, queueVars>>

Seeking(c) == reader[c].index < next[c]
HasLine(c) == reader[c].index < EndOf(reader[c].descriptor)

Skips(c) ==
  /\ pc[c] = "read" /\ Seeking(c) /\ HasLine(c)
  /\ reader' = [reader EXCEPT ![c].index = @ + 1]
  /\ UNCHANGED <<threadVars, pc, reason, next, head, line, ledger, queueVars>>

\* next() finds the end of a file, and then the segment that begins there or
\* none.
AtEnd(c) ==
  /\ pc[c] = "read" /\ ~HasLine(c)
  /\ Seeking(c) \/ (next[c] < head[c] /\ (kind[c] = "stream" => ~Stopping))
  /\ Goes(c, "eof")
  /\ UNCHANGED <<threadVars, next, head, reader, line, ledger, queueVars>>

Meets(c, end) ==
  /\ pc[c] = "eof"
  /\ IF reader[c].index \in bases
     THEN Goes(c, "read") /\ reader' = [reader EXCEPT ![c].descriptor = reader[c].index]
     ELSE /\ UNCHANGED reader
          /\ IF Seeking(c) \/ kind[c] = "snapshot" THEN Closes(c, end) ELSE Goes(c, "missing")
  /\ UNCHANGED <<threadVars, next, head, line, ledger, queueVars>>

\* Wrong: a snapshot is answered with what there is.
ContinuesShort(c) == Meets(c, IF Seeking(c) THEN "expired" ELSE "answered")

Continues(c) == Meets(c, "expired")
-----------------------------------------------------------------------------
(* What is read and sent: serve_client(), snapshot_prefix().                *)

Receives(c, l) ==
  /\ ledger' = [ledger EXCEPT ![c] = Append(@, l)]
  /\ next' = [next EXCEPT ![c] = @ + 1]

Reading(c) == pc[c] = "read" /\ ~Seeking(c)

CaughtUp(c) ==
  /\ Reading(c) /\ next[c] >= head[c]
  /\ IF kind[c] = "stream" THEN Goes(c, "check") ELSE Closes(c, "answered")
  /\ UNCHANGED <<threadVars, next, head, reader, line, ledger, queueVars>>

Halts(c) ==
  /\ Reading(c) /\ kind[c] = "stream" /\ next[c] < head[c] /\ Stopping
  /\ Closes(c, "goodbye")
  /\ UNCHANGED <<threadVars, next, head, reader, line, ledger, queueVars>>

\* A write that fails ends the connection.
SendsLine(c) ==
  /\ Reading(c) /\ kind[c] = "stream" /\ next[c] < head[c] /\ ~Stopping /\ HasLine(c)
  /\ reader' = [reader EXCEPT ![c].index = @ + 1]
  /\ \/ Receives(c, reader[c].index) /\ UNCHANGED <<pc, reason>>
     \/ Closes(c, "dead") /\ UNCHANGED <<next, ledger>>
  /\ UNCHANGED <<threadVars, head, line, queueVars>>

CollectsLine(c) ==
  /\ Reading(c) /\ kind[c] = "snapshot" /\ next[c] < head[c] /\ HasLine(c)
  /\ reader' = [reader EXCEPT ![c].index = @ + 1]
  /\ IF Len(ledger[c]) < SnapshotLimit
     THEN Receives(c, reader[c].index) /\ UNCHANGED <<pc, reason>>
     ELSE Closes(c, "large") /\ UNCHANGED <<next, ledger>>
  /\ UNCHANGED <<threadVars, head, line, queueVars>>

missingVars == <<threadVars, next, head, reader, line, ledger, queueVars>>

\* A line that is released and is not there: its segment has expired.  The
\* thread waits for the hub to know it.
Expired(c) ==
  /\ pc[c] = "missing" /\ next[c] < first /\ ~Stopping
  /\ Closes(c, "expired")
  /\ UNCHANGED missingVars

Retries(c) ==
  /\ pc[c] = "missing" /\ (next[c] < first => Stopping)
  /\ Goes(c, "read")
  /\ UNCHANGED missingVars

\* Wrong: it waits without a limit.
GivesUpExpired(c) == Expired(c)

\* It gives up after five seconds; no commit takes that long, so the producer is
\* then between two.
GivesUp(c) ==
  /\ pc[c] = "missing" /\ next[c] >= first /\ producer = "idle"
  /\ Closes(c, "unavailable")
  /\ UNCHANGED missingVars

Takes(c) ==
  /\ pc[c] = "live" /\ ~slow[c] /\ queue[c] # <<>>
  /\ line' = [line EXCEPT ![c] = Head(queue[c])]
  /\ queue' = [queue EXCEPT ![c] = Tail(@)]
  /\ Goes(c, "send")
  /\ UNCHANGED <<threadVars, next, head, reader, ledger, live, slow>>

Sends(c) ==
  /\ pc[c] = "send"
  /\ line' = [line EXCEPT ![c] = 0]
  /\ \/ Receives(c, line[c]) /\ Goes(c, "live")
     \/ Closes(c, "dead") /\ UNCHANGED <<next, ledger>>
  /\ UNCHANGED <<threadVars, head, reader, queueVars>>

\* Wrong: a stopping producer's goodbye does not wait for the queue.
LeavesAtOnce(c) ==
  /\ pc[c] = "live"
  /\ \/ slow[c] /\ Closes(c, "slow")
     \/ ~slow[c] /\ Stopping /\ Closes(c, "goodbye")
  /\ UNCHANGED missingVars

Leaves(c) ==
  /\ pc[c] = "live"
  /\ \/ slow[c] /\ Closes(c, "slow")
     \/ ~slow[c] /\ queue[c] = <<>> /\ Stopping /\ Closes(c, "goodbye")
  /\ UNCHANGED missingVars

\* A quiet stream's PONG may fail.
Dies(c) ==
  /\ pc[c] = "live" /\ ~slow[c] /\ queue[c] = <<>> /\ ~Stopping
  /\ Closes(c, "dead")
  /\ UNCHANGED missingVars
-----------------------------------------------------------------------------
Producing ==
  \/ AppendBatch \/ Commit \/ Rotate \/ Expire \/ Retained \/ Publish \/ Published
  \/ Stop \/ Down \/ Restart

Serving(c) ==
  \/ Ready(c) \/ Check(c) \/ Lists(c) \/ Opens(c) \/ Skips(c) \/ AtEnd(c) \/ Continues(c)
  \/ CaughtUp(c) \/ Halts(c) \/ SendsLine(c) \/ CollectsLine(c) \/ Expired(c) \/ Retries(c)
  \/ Takes(c) \/ Sends(c) \/ Leaves(c) \/ Disconnected(c)

Init ==
  /\ lines = 0 /\ durable = 0 /\ bases = {0} /\ sealed = {0}
  /\ producer = "idle" /\ published = 0 /\ first = 0 /\ starts = 0
  /\ pc = [c \in Client |-> "off"] /\ kind = [c \in Client |-> "stream"]
  /\ next = [c \in Client |-> 0] /\ head = next /\ line = next
  /\ reader = [c \in Client |-> NoReader] /\ reason = [c \in Client |-> "none"]
  /\ live = [c \in Client |-> FALSE] /\ slow = live
  /\ queue = [c \in Client |-> <<>>] /\ ledger = queue
  /\ start = [c \in Client |-> 0] /\ visits = start

Next ==
  \/ Producing
  \/ \E c \in Client : Admit(c) \/ Snapshot(c) \/ Serving(c) \/ GivesUp(c) \/ Fails(c) \/ Dies(c)

Spec == Init /\ [][Next]_vars

\* The threads run, and a thread that keeps waiting gives up in the end; what is
\* committed is published.  Nothing has to be produced, to expire or to stop.
FairSpec ==
  /\ Spec
  /\ \A c \in Client : WF_vars(Serving(c)) /\ SF_vars(GivesUp(c))
  /\ WF_vars(Commit \/ Rotate \/ Retained \/ Publish \/ Published)
=============================================================================
